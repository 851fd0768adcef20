-------------------------- MODULE ControllerProofs --------------------------
(***************************************************************************)
(* The controller of the shades, for any shades, configurations, commands  *)
(* and table of movements.                                                 *)
(*                                                                         *)
(* The clock has one plan for a shade: whatever a shade does, it either    *)
(* hands the table a movement or keeps its own stop armed and never both;  *)
(* and a refusal, which drops the movement but keeps what the shade did,   *)
(* refuses only a movement.                                                *)
(*                                                                         *)
(* The registry, the table and the frames heard keep their types, for      *)
(* which the arithmetic of a motion must stay between the limits.  From    *)
(* those types follows where an estimate goes: the way its motor was told  *)
(* to, and after a stop no further than the start lag; and that what the   *)
(* clock sends continues a run that people began.                          *)
(***************************************************************************)
EXTENDS Controller, FiniteSetTheorems, SequenceTheorems, NaturalsInduction,
        WellFoundedInduction, TLAPS

-----------------------------------------------------------------------------
(* What a shade does                                                       *)

\* A shade, as far as its stop is concerned.
IsShade(sh) ==
    /\ sh = [cfg |-> sh.cfg, lift |-> sh.lift, fav |-> sh.fav, armed |-> sh.armed, doubt |-> sh.doubt]
    /\ sh.armed \in BOOLEAN

\* What a step of a shade yields: a movement, an armed stop, or neither.
OnePlan(r) ==
    /\ r = Done(r.shade, r.tx, r.doing)
    /\ IsShade(r.shade)
    /\ r.shade.armed => r.doing = Idle

\* A change of one part of a shade other than its stop leaves a shade, and the stop.
LEMMA OnePart ==
    ASSUME NEW sh, IsShade(sh)
    PROVE  /\ \A d : IsShade([sh EXCEPT !.doubt = d]) /\ [sh EXCEPT !.doubt = d].armed = sh.armed
           /\ \A v : IsShade([sh EXCEPT !.fav = v]) /\ [sh EXCEPT !.fav = v].armed = sh.armed
           /\ \A m : IsShade([sh EXCEPT !.lift = m]) /\ [sh EXCEPT !.lift = m].armed = sh.armed
           /\ \A c : IsShade([sh EXCEPT !.cfg = c]) /\ [sh EXCEPT !.cfg = c].armed = sh.armed
<1>1. ASSUME NEW d PROVE IsShade([sh EXCEPT !.doubt = d]) /\ [sh EXCEPT !.doubt = d].armed = sh.armed
  BY DEF IsShade
<1>2. ASSUME NEW m PROVE IsShade([sh EXCEPT !.lift = m]) /\ [sh EXCEPT !.lift = m].armed = sh.armed
  BY DEF IsShade
<1>3. ASSUME NEW v PROVE IsShade([sh EXCEPT !.fav = v]) /\ [sh EXCEPT !.fav = v].armed = sh.armed
  BY DEF IsShade
<1>4. ASSUME NEW c PROVE IsShade([sh EXCEPT !.cfg = c]) /\ [sh EXCEPT !.cfg = c].armed = sh.armed
  BY DEF IsShade
<1> QED BY <1>1, <1>2, <1>3, <1>4

\* So do a charge, a departure and an arrival at a limit.
LEMMA Unarming ==
    ASSUME NEW sh, IsShade(sh)
    PROVE  /\ \A d : IsShade(AddDoubt(sh, d)) /\ AddDoubt(sh, d).armed = sh.armed
           /\ \A p : IsShade(Toward(sh, p)) /\ Toward(sh, p).armed = sh.armed
           /\ \A p : IsShade(ReachLimit(sh, p)) /\ ReachLimit(sh, p).armed = sh.armed
           /\ \A v : IsShade([sh EXCEPT !.fav = v]) /\ [sh EXCEPT !.fav = v].armed = sh.armed
           /\ \A m : IsShade([sh EXCEPT !.lift = m]) /\ [sh EXCEPT !.lift = m].armed = sh.armed
           /\ \A c : IsShade([sh EXCEPT !.cfg = c]) /\ [sh EXCEPT !.cfg = c].armed = sh.armed
<1>1. ASSUME NEW p PROVE IsShade(ReachLimit(sh, p)) /\ ReachLimit(sh, p).armed = sh.armed
  <2>1. PICK at : at = [sh EXCEPT !.lift = Resting(p)]
    OBVIOUS
  <2>2. ReachLimit(sh, p) = [[sh EXCEPT !.lift = Resting(p)] EXCEPT !.doubt = 0]
    BY Zenon DEF ReachLimit
  <2>3. IsShade(at) /\ at.armed = sh.armed
    BY <2>1, OnePart
  <2>4. IsShade([at EXCEPT !.doubt = 0]) /\ [at EXCEPT !.doubt = 0].armed = at.armed
    BY <2>3, OnePart
  <2> QED BY <2>1, <2>2, <2>3, <2>4
<1> QED BY <1>1, OnePart DEF AddDoubt, Toward

\* The stop itself.
LEMMA Arming ==
    ASSUME NEW sh, IsShade(sh), NEW b \in BOOLEAN
    PROVE  IsShade([sh EXCEPT !.armed = b]) /\ [sh EXCEPT !.armed = b].armed = b
BY DEF IsShade

\* A pending stop that is dropped is not armed.
LEMMA Abandoned ==
    ASSUME NEW sh, IsShade(sh)
    PROVE  IsShade(Abandon(sh)) /\ Abandon(sh).armed = FALSE
<1>1. CASE sh.armed
  <2>1. IsShade(AddDoubt(sh, Apart(sh.lift.pos, sh.lift.target)))
    BY Unarming
  <2> QED BY <1>1, <2>1, Arming DEF Abandon
<1>2. CASE ~sh.armed
  BY <1>2 DEF Abandon, IsShade
<1> QED BY <1>1, <1>2

\* A tick arms nothing.
LEMMA TickArmsNothing ==
    ASSUME NEW sh, IsShade(sh)
    PROVE  IsShade(Ticked(sh)) /\ (Ticked(sh).armed => sh.armed)
<1> DEFINE m == Advanced(sh.lift, sh.cfg)
           moved == [sh EXCEPT !.lift = m]
           on == Disarm(moved, Due(sh, m))
<1>1. IsShade(moved) /\ moved.armed = sh.armed
  BY Unarming
<1>2. IsShade(on) /\ (on.armed => sh.armed)
  <2>1. PICK b \in BOOLEAN : b = (moved.armed /\ ~Due(sh, m))
    OBVIOUS
  <2>2. on = [moved EXCEPT !.armed = b]
    BY <2>1 DEF Disarm
  <2> HIDE DEF moved, on
  <2>3. IsShade(on) /\ on.armed = b
    BY <1>1, <2>2, Arming
  <2> QED BY <1>1, <2>1, <2>3
<1> HIDE DEF on
<1>3. IsShade(Arrive(on)) /\ Arrive(on).armed = on.armed
  <2>1. IsShade(ChargeArrival(on)) /\ ChargeArrival(on).armed = on.armed
    BY <1>2, Unarming DEF ChargeArrival
  <2> QED BY <1>2, <2>1, Unarming DEF Arrive
<1> QED BY <1>2, <1>3 DEF Ticked, TickedTo, on

\* A seek arms the stop and has no movement.
LEMMA SeekPlans == ASSUME NEW sh, IsShade(sh), NEW p PROVE OnePlan(Seek(sh, p))
<1>1. IsShade(Toward(sh, p))
  BY Unarming
<1>2. IsShade([Toward(sh, p) EXCEPT !.armed = TRUE])
  BY <1>1, Arming
<1> QED BY <1>2 DEF Seek, OnePlan, Done

\* One by way of a limit has a movement and disarms the stop.
LEMMA SeekReliablyPlans == ASSUME NEW sh, IsShade(sh), NEW p PROVE OnePlan(SeekReliably(sh, p))
<1>1. CASE ~Routes(sh, p)
  BY <1>1, SeekPlans DEF SeekReliably
<1>2. CASE Routes(sh, p)
  <2>1. \A limit : LET on == [Toward(sh, limit) EXCEPT !.armed = FALSE]
                   IN  IsShade(on) /\ on.armed = FALSE
    BY Unarming, Arming
  <2> QED BY <1>2, <2>1 DEF SeekReliably, OnePlan, Done
<1> QED BY <1>1, <1>2

\* Every command leaves a shade with one plan.
LEMMA HandlePlans ==
    ASSUME NEW sh, IsShade(sh), NEW cmd, cmd \in ShadeCommands
    PROVE  OnePlan(Handle(sh, cmd))
<1> DEFINE on == Ticked(sh)
<1>0. IsShade(on)
  BY TickArmsNothing
<1> HIDE DEF on
<1>1. IsShade(Abandon(on)) /\ Abandon(on).armed = FALSE
  BY <1>0, Abandoned
<1>2. \A leg, act : OnePlan(Run(on, leg, act))
  BY <1>1, Unarming DEF Run, OnePlan, Done
<1>3. OnePlan(PressMy(on))
  <2>1. \A m : IsShade([Abandon(on) EXCEPT !.lift = m])
    BY <1>1, Unarming
  <2> QED BY <1>0, <2>1, SeekReliablyPlans DEF PressMy, OnePlan, Done
<1>4. \A up : OnePlan(Step(on, up))
  <2>1. \A p : IsShade(Toward(Abandon(on), p))
    BY <1>1, Unarming
  <2> QED BY <1>0, <2>1 DEF Step, StepTarget, OnePlan, Done
<1>5. \A v : OnePlan(Done([on EXCEPT !.fav = v], << >>, Idle))
  BY <1>0, Unarming DEF OnePlan, Done
<1>6. OnePlan(Done(Abandon(on), <<"Prog">>, Idle))
  BY <1>1 DEF OnePlan, Done
<1>7. OnePlan(Obey(on, cmd))
  BY <1>0, <1>2, <1>3, <1>4, <1>5, <1>6, SeekReliablyPlans DEF Obey, ShadeCommands, Legs
<1>8. Handle(sh, cmd) = [Obey(on, cmd) EXCEPT !.tx = TickTx(sh) \o @]
  BY DEF Handle, on
<1> QED BY <1>7, <1>8 DEF OnePlan, Done

\* So does a tick, which takes a movement on and finds no stop armed beside it.
LEMMA TickPlans ==
    ASSUME NEW sh, IsShade(sh), NEW act, sh.armed => act = Idle
    PROVE  OnePlan(OnTick(sh, act))
<1> DEFINE on == Ticked(sh)
<1>0. IsShade(on) /\ (on.armed => act = Idle)
  BY TickArmsNothing
<1> HIDE DEF on
<1>1. OnePlan(Done(on, << >>, act))
  BY <1>0 DEF OnePlan, Done
<1>2. \A p : IsShade(ReachLimit(on, p)) /\ ReachLimit(on, p).armed = on.armed
  BY <1>0, Unarming
<1>3. act.kind = "closing" => OnePlan(Done(ReachLimit(on, FULL), <<"Up">>, Separating(on.cfg.lag + on.cfg.vent)))
  BY <1>0, <1>2 DEF OnePlan, Done, Idle
<1>4. OnePlan(Done(on, <<"My">>, Idle))
  BY <1>0 DEF OnePlan, Done
<1>5. OnePlan(Seek(ReachLimit(on, act.limit), act.target))
  BY <1>2, SeekPlans
<1>6. OnePlan(NextLeg(on, act))
  BY <1>1, <1>3, <1>4, <1>5 DEF NextLeg
<1>7. OnTick(sh, act) = [NextLeg(on, act) EXCEPT !.tx = TickTx(sh) \o @]
  BY DEF OnTick, on
<1> QED BY <1>6, <1>7 DEF OnePlan, Done

\* What a frame of a wall remote and an edit leave of a shade.
LEMMA Overhearing ==
    ASSUME NEW sh, IsShade(sh), NEW frame
    PROVE  IsShade(Overheard(sh, frame)) /\ Overheard(sh, frame).armed = FALSE
<1> DEFINE own == Abandon(Advance(sh))
<1>1. IsShade(own) /\ own.armed = FALSE
  BY Unarming, Abandoned DEF Advance
<1> HIDE DEF own
<1>2. /\ \A p : IsShade(Toward(own, p)) /\ Toward(own, p).armed = FALSE
      /\ \A m : IsShade([own EXCEPT !.lift = m]) /\ [own EXCEPT !.lift = m].armed = FALSE
  BY <1>1, Unarming
<1>3. \A up : IsShade(StepTarget(own, up)) /\ StepTarget(own, up).armed = FALSE
  BY <1>2 DEF StepTarget
<1>4. IsShade(Follow(own, frame)) /\ Follow(own, frame).armed = FALSE
  <2>1. CASE frame \in Legs
    BY <1>2, <2>1 DEF Follow, Legs
  <2>2. CASE frame = "My"
    BY <1>1, <1>2, <2>2 DEF Follow, Legs
  <2>3. CASE frame \in {"StepUp", "StepDown"}
    BY <1>3, <2>3 DEF Follow, Legs
  <2>4. CASE frame \notin Legs \cup {"My", "StepUp", "StepDown"}
    BY <1>1, <2>4 DEF Follow
  <2> QED BY <2>1, <2>2, <2>3, <2>4
<1> QED BY <1>4 DEF Overheard, own

\* A reconfiguration, a calibration and the passing of time arm nothing.
LEMMA Edited ==
    ASSUME NEW sh, IsShade(sh)
    PROVE  /\ \A cfg : IsShade(Reconfigure(sh, cfg)) /\ Reconfigure(sh, cfg).armed = sh.armed
           /\ \A run : IsShade(Calibrated(sh, run))
           /\ \A m : IsShade([sh EXCEPT !.lift = m]) /\ [sh EXCEPT !.lift = m].armed = sh.armed
<1>1. ASSUME NEW cfg PROVE IsShade(Reconfigure(sh, cfg)) /\ Reconfigure(sh, cfg).armed = sh.armed
  <2>1. PICK at : at = [sh EXCEPT !.lift = Reanchor(@, sh.cfg)]
    OBVIOUS
  <2>2. Reconfigure(sh, cfg) = [[sh EXCEPT !.lift = Reanchor(@, sh.cfg)] EXCEPT !.cfg = cfg]
    BY Zenon DEF Reconfigure
  <2>3. IsShade(at) /\ at.armed = sh.armed
    BY <2>1, OnePart
  <2>4. IsShade([at EXCEPT !.cfg = cfg]) /\ [at EXCEPT !.cfg = cfg].armed = at.armed
    BY <2>3, OnePart
  <2> QED BY <2>1, <2>2, <2>3, <2>4
<1>2. ASSUME NEW run PROVE IsShade(Calibrated(sh, run))
  BY Unarming DEF Calibrated
<1> QED BY <1>1, <1>2, Unarming

\* A shade that is there is not an empty slot.
LEMMA ShadeIsNotEmpty == ASSUME NEW sh, IsShade(sh) PROVE sh # Empty
<1>1. "cfg" \in DOMAIN sh
  BY DEF IsShade
<1>2. DOMAIN Empty = {"slot"}
  BY DEF Empty
<1> QED BY <1>1, <1>2

-----------------------------------------------------------------------------
(* The registry and the table of movements                                 *)

\* One plan for every shade of a registry and a table.
OnePlanEach(registry, table) ==
    /\ registry = [id \in Ids |-> registry[id]] /\ table = [id \in Ids |-> table[id]]
    /\ \A id \in Ids : registry[id] # Empty =>
          /\ IsShade(registry[id])
          /\ registry[id].armed => table[id] = Idle

\* The members of the group are shades that are there, each once.
MembersThere ==
    /\ members \in Seq(Ids) /\ IsInjective(members)
    /\ \A i \in DOMAIN members : members[i] \in Present

ControllerInv == OnePlanEach(shades, doing) /\ MembersThere

\* A shade that has acted, and its movement if there was room for it.
LEMMA StoredPlans ==
    ASSUME NEW s, OnePlanEach(s.shades, s.doing), NEW id \in Ids, NEW r, OnePlan(r)
    PROVE  /\ OnePlanEach(Stored(s, id, r).shades, Stored(s, id, r).doing)
           /\ \A other \in Ids : s.shades[other] # Empty => Stored(s, id, r).shades[other] # Empty
<1> DEFINE ok == Fits(s.doing, id, r.doing)
<1>1. /\ Stored(s, id, r).shades = [s.shades EXCEPT ![id] = r.shade]
      /\ Stored(s, id, r).doing = IF ok THEN [s.doing EXCEPT ![id] = r.doing] ELSE s.doing
  BY DEF Stored
<1>2. ~ok => s.doing[id] = Idle
  BY DEF Fits
<1>3. IsShade(r.shade) /\ r.shade # Empty /\ (r.shade.armed => r.doing = Idle)
  BY ShadeIsNotEmpty DEF OnePlan
<1> HIDE DEF ok
<1>4. /\ Stored(s, id, r).shades = [i \in Ids |-> IF i = id THEN r.shade ELSE s.shades[i]]
      /\ Stored(s, id, r).doing = [i \in Ids |-> IF i = id /\ ok THEN r.doing ELSE s.doing[i]]
  BY <1>1 DEF OnePlanEach
<1> HIDE DEF Stored
<1>5. ASSUME NEW i \in Ids, Stored(s, id, r).shades[i] # Empty
      PROVE  /\ IsShade(Stored(s, id, r).shades[i])
             /\ Stored(s, id, r).shades[i].armed => Stored(s, id, r).doing[i] = Idle
  <2>1. CASE i = id
    BY <1>2, <1>3, <1>4, <2>1
  <2>2. CASE i # id
    BY <1>4, <1>5, <2>2 DEF OnePlanEach
  <2> QED BY <2>1, <2>2
<1> QED BY <1>3, <1>4, <1>5 DEF OnePlanEach

\* A command to a shade that is there.
LEMMA ApplyPlans ==
    ASSUME NEW s, OnePlanEach(s.shades, s.doing), NEW id \in Ids, s.shades[id] # Empty,
           NEW cmd, cmd \in ShadeCommands
    PROVE  /\ OnePlanEach(Apply(s, id, cmd).shades, Apply(s, id, cmd).doing)
           /\ \A i \in Ids : s.shades[i] # Empty => Apply(s, id, cmd).shades[i] # Empty
<1>1. IsShade(s.shades[id])
  BY DEF OnePlanEach
<1>2. OnePlan(Handle(s.shades[id], cmd))
  BY <1>1, HandlePlans
<1> QED BY <1>2, StoredPlans DEF Apply

-----------------------------------------------------------------------------
(* The fan-out of a command                                                *)

\* A set of natural numbers that is not empty has a least one.
LEMMA Lowest ==
    ASSUME NEW S \in SUBSET Nat, S # {}
    PROVE  \E m \in S : \A n \in S : m <= n
<1>1. PICK m \in S : \A n \in S : ~(<<n, m>> \in OpToRel(<, Nat))
  BY WFMin, NatLessThanWellFounded
<1>2. \A n \in S : ~(n < m)
  BY <1>1 DEF OpToRel
<1> QED BY <1>2

\* The fan-out over any number of members is well defined (the least number for
\* which it were not leads to a contradiction).
LEMMA FanOutExists ==
    ASSUME NEW cmd, NEW upto \in Nat
    PROVE  \E after : after = [n \in 0..upto |->
                          IF n = 0 THEN Now ELSE Then(after[n - 1], members[n], cmd)]
<1> DEFINE Turn(after, n) == IF n = 0 THEN Now ELSE Then(after[n - 1], members[n], cmd)
           Defined(k) == \E after : after = [n \in 0..k |-> Turn(after, n)]
           bad == {k \in Nat : ~Defined(k)}
<1>1. SUFFICES ASSUME bad # {} PROVE FALSE
  OBVIOUS
<1>2. PICK k \in bad : \A j \in bad : k <= j
  BY <1>1, Lowest
<1>3. k # 0
  <2>1. [n \in 0..0 |-> Now] = [n \in 0..0 |-> Turn([j \in 0..0 |-> Now], n)]
    OBVIOUS
  <2>2. Defined(0)
    BY <2>1
  <2> QED BY <1>2, <2>2
<1>4. k - 1 \in Nat /\ k - 1 \notin bad
  <2>1. k \in Nat
    BY <1>2
  <2> HIDE DEF bad
  <2>2. k - 1 \in Nat /\ ~(k <= k - 1)
    BY <2>1, <1>3
  <2> QED BY <2>2, <1>2
<1>5. PICK old : old = [n \in 0..(k - 1) |-> Turn(old, n)]
  BY <1>4
<1> DEFINE new == [n \in 0..k |-> IF n = k THEN Then(old[k - 1], members[k], cmd) ELSE old[n]]
<1>6. ASSUME NEW n \in 0..k PROVE new[n] = Turn(new, n)
  <2>1. CASE n = k
    BY <2>1, <1>3, <1>4
  <2>2. CASE n # k
    <3>1. n \in 0..(k - 1) /\ new[n] = old[n] /\ old[n] = Turn(old, n)
      BY <2>2, <1>5, <1>4
    <3>2. n # 0 => n - 1 \in 0..k /\ n - 1 # k /\ new[n - 1] = old[n - 1]
      BY <3>1
    <3> QED BY <3>1, <3>2
  <2> QED BY <2>1, <2>2
<1>7. new = [n \in 0..k |-> Turn(new, n)]
  BY <1>6
<1> QED BY <1>2, <1>7

\* What is kept from member to member: one plan each, and no shade is lost.
Kept(s) ==
    /\ OnePlanEach(s.shades, s.doing)
    /\ \A id \in Present : s.shades[id] # Empty

\* A command leaves every shade with one plan, however many members obey it.
LEMMA FanOutPlans ==
    ASSUME ControllerInv, NEW cmd, cmd \in ShadeCommands
    PROVE  Kept(FanOut(cmd))
<1> DEFINE after[n \in 0..Len(members)] ==
              IF n = 0 THEN Now ELSE Then(after[n - 1], members[n], cmd)
           bad == {n \in 0..Len(members) : ~Kept(after[n])}
<1>0. Len(members) \in Nat /\ DOMAIN members = 1..Len(members)
  BY DEF ControllerInv, MembersThere
<1>1. after = [n \in 0..Len(members) |->
                  IF n = 0 THEN Now ELSE Then(after[n - 1], members[n], cmd)]
  BY <1>0, FanOutExists, Zenon
<1>2. FanOut(cmd) = after[Len(members)]
  BY DEF FanOut
<1> HIDE DEF after
<1>3. bad = {}
  <2>1. SUFFICES ASSUME bad # {} PROVE FALSE
    OBVIOUS
  <2>2. bad \in SUBSET Nat
    BY <1>0
  <2>3. PICK n \in bad : \A j \in bad : n <= j
    BY <2>1, <2>2, Lowest
  <2>4. n # 0
    <3>1. after[0] = Now
      BY <1>0, <1>1
    <3>2. Kept(Now)
      BY DEF Kept, Now, ControllerInv, Present
    <3> QED BY <2>3, <3>1, <3>2
  <2>5. n \in 1..Len(members) /\ n - 1 \in 0..Len(members)
    BY <2>3, <2>4, <1>0
  <2>6. Kept(after[n - 1])
    BY <2>3, <2>5
  <2>7. after[n] = Then(after[n - 1], members[n], cmd)
    BY <2>5, <1>1
  <2>8. members[n] \in Present /\ members[n] \in Ids
    BY <2>5, <1>0 DEF ControllerInv, MembersThere, Present
  <2>9. PICK s : s = after[n - 1]
    OBVIOUS
  <2>10. CASE s.ok
    <3>1. after[n] = Apply(s, members[n], cmd)
      BY <2>7, <2>9, <2>10 DEF Then
    <3>2. s.shades[members[n]] # Empty /\ OnePlanEach(s.shades, s.doing)
      BY <2>6, <2>8, <2>9 DEF Kept
    <3>3. Kept(after[n])
      BY <2>6, <2>8, <2>9, <3>1, <3>2, ApplyPlans DEF Kept, Present
    <3> QED BY <2>3, <3>3
  <2>11. CASE ~s.ok
    BY <2>3, <2>6, <2>7, <2>9, <2>11 DEF Then
  <2> QED BY <2>10, <2>11
<1>4. Kept(after[Len(members)])
  BY <1>0, <1>3
<1> QED BY <1>2, <1>4

-----------------------------------------------------------------------------
(* The controller                                                          *)

\* The group starts with every shade, each once.
LEMMA EveryoneOnce == SetToSeq(Ids) \in Seq(Ids) /\ IsInjective(SetToSeq(Ids))
<1>1. Cardinality(Ids) \in Nat /\ ExistsBijection(1..Cardinality(Ids), Ids)
  BY FS_CardinalityType, ControllerAssumption
<1>2. \E f \in [1..Cardinality(Ids) -> Ids] : IsInjective(f)
  BY <1>1 DEF ExistsBijection, Bijection, Injection
<1>3. SetToSeq(Ids) \in [1..Cardinality(Ids) -> Ids] /\ IsInjective(SetToSeq(Ids))
  BY <1>2, Zenon DEF SetToSeq
<1> QED BY <1>1, <1>3

\* A shade leaves its group, and the others stay in it.
LEMMA Leaving ==
    ASSUME MembersThere, NEW i \in DOMAIN members
    PROVE  LET left == RemoveAt(members, i)
           IN  /\ left \in Seq(Ids) /\ IsInjective(left)
               /\ \A j \in DOMAIN left : left[j] \in Present /\ left[j] # members[i]
<1> DEFINE left == RemoveAt(members, i)
<1>1. /\ members \in Seq(Ids) /\ Len(members) \in Nat
      /\ DOMAIN members = 1..Len(members) /\ i \in 1..Len(members)
  BY DEF MembersThere
<1>2. /\ SubSeq(members, 1, i - 1) \in Seq(Ids) /\ Len(SubSeq(members, 1, i - 1)) = i - 1
      /\ \A j \in 1..(i - 1) : SubSeq(members, 1, i - 1)[j] = members[j]
  BY <1>1
<1>3. /\ SubSeq(members, i + 1, Len(members)) \in Seq(Ids)
      /\ Len(SubSeq(members, i + 1, Len(members))) = Len(members) - i
      /\ \A j \in 1..(Len(members) - i) : SubSeq(members, i + 1, Len(members))[j] = members[j + i]
  BY <1>1
<1>4. /\ left \in Seq(Ids) /\ DOMAIN left = 1..(Len(members) - 1)
      /\ \A j \in 1..(Len(members) - 1) :
            left[j] = IF j < i THEN members[j] ELSE members[j + 1]
  <2> DEFINE head == SubSeq(members, 1, i - 1)
             tail == SubSeq(members, i + 1, Len(members))
  <2> HIDE DEF head, tail
  <2>0. left = head \o tail
    BY DEF RemoveAt, head, tail
  <2>1. /\ head \in Seq(Ids) /\ Len(head) = i - 1 /\ \A j \in 1..(i - 1) : head[j] = members[j]
    BY <1>2 DEF head
  <2>2. /\ tail \in Seq(Ids) /\ Len(tail) = Len(members) - i
        /\ \A j \in 1..(Len(members) - i) : tail[j] = members[j + i]
    BY <1>3 DEF tail
  <2>3. /\ left \in Seq(Ids) /\ Len(left) = Len(members) - 1
        /\ \A j \in 1..(Len(members) - 1) :
              left[j] = IF j <= i - 1 THEN head[j] ELSE tail[j - (i - 1)]
    <3>1. /\ head \o tail \in Seq(Ids) /\ Len(head \o tail) = Len(head) + Len(tail)
          /\ \A j \in 1..(Len(head) + Len(tail)) :
                (head \o tail)[j] = IF j <= Len(head) THEN head[j] ELSE tail[j - Len(head)]
      BY <2>1, <2>2, ConcatProperties
    <3>2. Len(head) = i - 1 /\ Len(head) + Len(tail) = Len(members) - 1
      BY <2>1, <2>2, <1>1
    <3> QED BY <2>0, <3>1, <3>2, Zenon
  <2> HIDE DEF left
  <2>4. ASSUME NEW j \in 1..(Len(members) - 1)
        PROVE  left[j] = IF j < i THEN members[j] ELSE members[j + 1]
    <3>1. CASE j < i
      <4>1. j \in 1..(i - 1) /\ j <= i - 1
        BY <3>1, <1>1
      <4>2. left[j] = head[j]
        BY <4>1, <2>3
      <4> QED BY <3>1, <4>1, <4>2, <2>1
    <3>2. CASE ~(j < i)
      <4>1. j - (i - 1) \in 1..(Len(members) - i) /\ (j - (i - 1)) + i = j + 1
        BY <3>2, <1>1
      <4>2. left[j] = tail[j - (i - 1)]
        BY <3>2, <2>3, <1>1
      <4> QED BY <3>2, <4>1, <4>2, <2>2
    <3> QED BY <3>1, <3>2
  <2> QED BY <2>3, <2>4
<1> HIDE DEF left
<1>5. \A j \in DOMAIN left : \E k \in DOMAIN members :
          k # i /\ left[j] = members[k] /\ k = IF j < i THEN j ELSE j + 1
  BY <1>1, <1>4
<1>6. \A j \in DOMAIN left : left[j] \in Present /\ left[j] # members[i]
  BY <1>5 DEF MembersThere, IsInjective
<1>7. IsInjective(left)
  <2>1. SUFFICES ASSUME NEW a \in DOMAIN left, NEW b \in DOMAIN left, left[a] = left[b]
                 PROVE  a = b
    BY DEF IsInjective
  <2>2. PICK k \in DOMAIN members : left[a] = members[k] /\ k = IF a < i THEN a ELSE a + 1
    BY <1>5
  <2>3. PICK l \in DOMAIN members : left[b] = members[l] /\ l = IF b < i THEN b ELSE b + 1
    BY <1>5
  <2>4. k = l
    BY <2>1, <2>2, <2>3 DEF MembersThere, IsInjective
  <2> QED BY <2>2, <2>3, <2>4, <1>1, <1>4
<1> QED BY <1>4, <1>6, <1>7 DEF left

\* Everything that leaves the registry's shades in place leaves the members there.
LEMMA StayThere ==
    ASSUME MembersThere, UNCHANGED members, \A id \in Present : id \in Present'
    PROVE  MembersThere'
BY DEF MembersThere

\* ControllerInv holds in every reachable state.
THEOREM ControllerInvariant == Spec => []ControllerInv
<1>1. Init => ControllerInv
  <2>1. SUFFICES ASSUME Init PROVE ControllerInv
    OBVIOUS
  <2>2. \A c : IsShade(NewShade(c)) /\ NewShade(c).armed = FALSE
    BY DEF IsShade, NewShade
  <2>3. OnePlanEach(shades, doing)
    BY <2>1, <2>2 DEF Init, OnePlanEach
  <2>4. \A id \in Ids : id \in Present
    BY <2>1, <2>2, ShadeIsNotEmpty DEF Init, Present
  <2>5. MembersThere
    BY <2>1, <2>4, EveryoneOnce DEF Init, MembersThere
  <2> QED BY <2>3, <2>5 DEF ControllerInv
<1>2. ControllerInv /\ [Next]_vars => ControllerInv'
  <2> SUFFICES ASSUME ControllerInv, [Next]_vars PROVE ControllerInv'
    OBVIOUS
  <2> USE DEF ControllerInv
  <2>1. CASE \E cmd \in Commands : CommandGroup(cmd)
    <3>1. PICK cmd \in Commands : CommandGroup(cmd)
      BY <2>1
    <3>2. cmd \in ShadeCommands
      BY ControllerAssumption
    <3>3. Kept(FanOut(cmd))
      BY <3>2, FanOutPlans
    <3>4. CASE Gated
      BY <3>1, <3>4 DEF CommandGroup, Gated, MembersThere, Present
    <3>5. CASE AnswerGroup(FanOut(cmd))
      BY <3>1, <3>3, <3>5, StayThere DEF CommandGroup, AnswerGroup, Kept, Present
    <3> QED BY <3>1, <3>4, <3>5 DEF CommandGroup
  <2>2. CASE \E cmd \in Commands, id \in Ids : CommandShade(id, cmd)
    <3>1. PICK cmd \in Commands, id \in Ids : CommandShade(id, cmd)
      BY <2>2
    <3>2. CASE Gated
      BY <3>1, <3>2 DEF CommandShade, Gated, MembersThere, Present
    <3>3. CASE Answer(Apply(Now, id, cmd))
      <4>1. cmd \in ShadeCommands /\ OnePlanEach(Now.shades, Now.doing) /\ Now.shades[id] # Empty
        BY <3>1, ControllerAssumption DEF CommandShade, Now, Present
      <4>2. Kept(Apply(Now, id, cmd))
        BY <4>1, ApplyPlans DEF Kept, Now, Present
      <4> QED BY <3>1, <3>3, <4>2, StayThere DEF CommandShade, Answer, Kept, Present
    <3> QED BY <3>1, <3>2, <3>3 DEF CommandShade
  <2>3. CASE \E id \in Ids : FinishCalibration(id)
    <3>1. PICK id \in Ids : FinishCalibration(id)
      BY <2>3
    <3>2. shades[id] # Empty /\ IsShade(Calibrated(shades[id], doing[id]))
      BY <3>1, Edited DEF FinishCalibration, Present, OnePlanEach
    <3>3. CASE UNCHANGED <<shades, doing>>
      BY <3>1, <3>3 DEF FinishCalibration, MembersThere, Present
    <3>4. CASE /\ shades' = [shades EXCEPT ![id] = Calibrated(@, doing[id])]
               /\ doing' = [doing EXCEPT ![id] = Idle]
      <4>1. OnePlanEach(shades', doing')
        BY <3>2, <3>4, ShadeIsNotEmpty DEF OnePlanEach
      <4>2. \A i \in Present : i \in Present'
        BY <3>2, <3>4, ShadeIsNotEmpty DEF OnePlanEach, Present
      <4> QED BY <3>1, <4>1, <4>2, StayThere DEF FinishCalibration
    <3> QED BY <3>1, <3>3, <3>4 DEF FinishCalibration
  <2>4. CASE \E id \in Ids : CancelCalibration(id)
    BY <2>4 DEF CancelCalibration, OnePlanEach, MembersThere, Present
  <2>5. CASE \E id \in Ids, frame \in Remotes : OnRxFrame(id, frame)
    <3>1. PICK id \in Ids, frame \in Remotes : OnRxFrame(id, frame)
      BY <2>5
    <3>2. shades[id] # Empty /\ IsShade(Overheard(shades[id], frame))
      BY <3>1, Overhearing DEF OnRxFrame, Present, OnePlanEach
    <3>3. OnePlanEach(shades', doing')
      BY <3>1, <3>2, ShadeIsNotEmpty DEF OnRxFrame, OnePlanEach
    <3>4. \A i \in Present : i \in Present'
      BY <3>1, <3>2, ShadeIsNotEmpty DEF OnRxFrame, OnePlanEach, Present
    <3> QED BY <3>1, <3>3, <3>4, StayThere DEF OnRxFrame
  <2>6. CASE \E id \in Editable, cfg \in NewConfigs : Reconfigured(id, cfg)
    <3>1. PICK id \in Ids, cfg \in NewConfigs : Reconfigured(id, cfg)
      BY <2>6, ControllerAssumption
    <3>2. /\ shades[id] # Empty /\ IsShade(Reconfigure(shades[id], cfg))
          /\ Reconfigure(shades[id], cfg).armed = shades[id].armed
      BY <3>1, Edited DEF Reconfigured, Present, OnePlanEach
    <3>3. OnePlanEach(shades', doing')
      BY <3>1, <3>2, ShadeIsNotEmpty DEF Reconfigured, OnePlanEach
    <3>4. \A i \in Present : i \in Present'
      BY <3>1, <3>2, ShadeIsNotEmpty DEF Reconfigured, OnePlanEach, Present
    <3> QED BY <3>1, <3>3, <3>4, StayThere DEF Reconfigured
  <2>7. CASE \E id \in Removable : RemoveShade(id)
    <3>1. PICK id \in Ids : RemoveShade(id)
      BY <2>7, ControllerAssumption
    <3>2. OnePlanEach(shades', doing')
      BY <3>1 DEF RemoveShade, OnePlanEach
    <3>3. \A i \in Present : i # id => i \in Present'
      BY <3>1 DEF RemoveShade, OnePlanEach, Present
    <3>4. CASE id \notin ToSet(members) /\ UNCHANGED members
      BY <3>3, <3>2, <3>4 DEF MembersThere, ToSet
    <3>5. CASE \E i \in DOMAIN members : members[i] = id /\ members' = RemoveAt(members, i)
      BY <3>2, <3>3, <3>5, Leaving DEF MembersThere
    <3> QED BY <3>1, <3>4, <3>5 DEF RemoveShade
  <2>8. CASE \E id \in Removable : AddShade(id)
    <3>1. PICK id \in Ids, cfg \in NewConfigs :
              AddShade(id) /\ shades' = [shades EXCEPT ![id] = NewShade(cfg)]
      BY <2>8, ControllerAssumption DEF AddShade
    <3>2. IsShade(NewShade(cfg)) /\ NewShade(cfg).armed = FALSE
      BY DEF IsShade, NewShade
    <3>3. OnePlanEach(shades', doing')
      BY <3>1, <3>2 DEF AddShade, OnePlanEach
    <3>4. \A i \in Present : i \in Present'
      BY <3>1, <3>2, ShadeIsNotEmpty DEF AddShade, OnePlanEach, Present
    <3> QED BY <3>1, <3>3, <3>4, StayThere DEF AddShade
  <2>9. CASE Tick
    <3> DEFINE r == [id \in Present |-> OnTick(shades[id], doing[id])]
    <3>1. ASSUME NEW id \in Present
          PROVE  /\ IsShade(r[id].shade) /\ r[id].shade # Empty
                 /\ r[id].shade.armed => r[id].doing = Idle
      BY TickPlans, ShadeIsNotEmpty DEF OnePlanEach, OnePlan, Present
    <3>2. Ticks(r) /\ UNCHANGED members
      BY <2>9 DEF Tick
    <3> HIDE DEF r
    <3>3. \A id \in Present : id \in Ids
      BY DEF Present
    <3>4. OnePlanEach(shades', doing')
      BY <3>1, <3>2, <3>3 DEF Ticks, OnePlanEach
    <3>5. \A i \in Present : i \in Present'
      BY <3>1, <3>2, <3>3 DEF Ticks, Present
    <3> QED BY <3>2, <3>4, <3>5, StayThere
  <2>10. CASE TimePasses
    <3>1. ASSUME NEW id \in Present
          PROVE  LET on == [shades[id] EXCEPT !.lift = Elapse(@)]
                 IN  IsShade(on) /\ on # Empty /\ on.armed = shades[id].armed
      BY Edited, ShadeIsNotEmpty DEF OnePlanEach, Present
    <3>2. Later(Idle) = Idle
      BY DEF Later, Idle, Waiting
    <3>3. OnePlanEach(shades', doing')
      BY <2>10, <3>1, <3>2 DEF TimePasses, OnePlanEach, Present
    <3>4. \A i \in Present : i \in Present'
      BY <2>10, <3>1 DEF TimePasses, Present
    <3> QED BY <2>10, <3>3, <3>4, StayThere DEF TimePasses
  <2>11. CASE UNCHANGED vars
    BY <2>11 DEF vars, OnePlanEach, MembersThere, Present
  <2> QED BY <2>1, <2>2, <2>3, <2>4, <2>5, <2>6, <2>7, <2>8, <2>9, <2>10, <2>11
       DEF Next, People, Clock
<1> QED BY <1>1, <1>2, PTL DEF Spec

\* An armed stop and a movement of the table are never both pending.
THEOREM OneMovementSafety == Spec => []OneMovement
<1>1. ControllerInv => OneMovement
  BY DEF ControllerInv, OnePlanEach, OneMovement, Present
<1> QED BY <1>1, ControllerInvariant, PTL

-----------------------------------------------------------------------------
(* Refusals                                                                *)

\* A step that refuses, whatever it refuses, is heard by no motor.
LEMMA RefusingStep ==
    ASSUME [Next]_vars, reply' \in {"refused", "group refused", "gated"}
    PROVE  UNCHANGED told
<1>1. CASE UNCHANGED vars
  BY <1>1 DEF vars
<1>2. CASE \E cmd \in Commands : CommandGroup(cmd)
  BY <1>2 DEF CommandGroup, AnswerGroup, Gated
<1>3. CASE \E cmd \in Commands, id \in Ids : CommandShade(id, cmd)
  <2>1. PICK cmd \in Commands, id \in Ids : CommandShade(id, cmd)
    BY <1>3
  <2>2. ~Apply(Now, id, cmd).ok => Apply(Now, id, cmd).told = told
    BY DEF Apply, Stored, Now
  <2> QED BY <2>1, <2>2 DEF CommandShade, Answer, Gated
<1>4. CASE \E id \in Ids : FinishCalibration(id) \/ CancelCalibration(id)
  BY <1>4 DEF FinishCalibration, CancelCalibration
<1>5. CASE \E id \in Ids, frame \in Remotes : OnRxFrame(id, frame)
  BY <1>5 DEF OnRxFrame
<1>6. CASE \/ \E id \in Editable, cfg \in NewConfigs : Reconfigured(id, cfg)
           \/ \E id \in Removable : RemoveShade(id) \/ AddShade(id)
  BY <1>6 DEF Reconfigured, RemoveShade, AddShade
<1>7. CASE Clock
  BY <1>7 DEF Clock, Tick, TimePasses
<1> QED BY <1>1, <1>2, <1>3, <1>4, <1>5, <1>6, <1>7 DEF Next, People

\* A group is gated as a whole: no member moves, and no motor hears of the command.
LEMMA GatedStep ==
    ASSUME NEW cmd \in Commands, CommandGroup(cmd),
           \E id \in Present : id \in ToSet(members) /\ Gate(shades[id], cmd)
    PROVE  UNCHANGED <<shades, doing, told>>
BY DEF CommandGroup, Gated, ToSet

\* A refusal of either kind leaves no motor half commanded.
THEOREM RefusalsWhole == Spec => RefusalsAreWhole
<1>1. [Next]_vars => [reply' \in {"refused", "group refused", "gated"} => told' = told]_vars
  BY RefusingStep
<1>2. [Next]_vars => [\A cmd \in Commands :
                         CommandGroup(cmd) /\ (\E id \in Present :
                            id \in ToSet(members) /\ Gate(shades[id], cmd))
                         => UNCHANGED <<shades, doing, told>>]_vars
  BY GatedStep
<1> QED BY <1>1, <1>2, PTL DEF Spec, RefusalsAreWhole, RefusedSendsNothing, GatedMovesNothing

-----------------------------------------------------------------------------
(* The arithmetic of a motion                                              *)

\* Products and quotients of natural numbers grow with what they are taken of.
LEMMA ProductGrows == \A a, b, c \in Nat : a * c \in Nat /\ (a <= b => a * c <= b * c)
OBVIOUS

\* A quotient of naturals is a natural, and grows with what is divided.
LEMMA QuotientGrows ==
    \A a, b \in Nat : \A c \in Nat \ {0} : a \div c \in Nat /\ (a <= b => a \div c <= b \div c)
OBVIOUS

\* What is divided by a number of parts is at most as many as went into it.
LEMMA QuotientBound == \A a, b \in Nat : \A c \in Nat \ {0} : a <= b * c => a \div c <= b
OBVIOUS

\* Where a motion has come to is a position, and the longer it runs the nearer.
LEMMA CoveredPosition ==
    ASSUME NEW m \in Motions, NEW span \in Nat, NEW ran \in Nat
    PROVE  Covered(m, span, ran) \in Positions
<1>1. m.start \in Positions /\ m.target \in Positions
  BY DEF Motions
<1>2. FULL \in Nat \ {0}
  BY FullAssumption
<1> DEFINE behind == (m.start * span) \div FULL
<1>3. behind \in Nat /\ behind <= span
  <2>1. PICK s \in Nat : s = m.start /\ s <= FULL
    BY <1>1, <1>2 DEF Positions
  <2>2. s * span \in Nat /\ s * span <= FULL * span /\ FULL * span = span * FULL
    BY <2>1, <1>2, ProductGrows
  <2>3. (s * span) \div FULL \in Nat /\ (s * span) \div FULL <= span
    BY <2>2, <1>2, QuotientGrows, QuotientBound
  <2> QED BY <2>1, <2>3
<1> HIDE DEF behind
<1>4. \A x \in Nat : x <= span /\ span # 0 => (x * FULL) \div span \in 0..FULL
  <2>1. SUFFICES ASSUME NEW x \in Nat, x <= span, span # 0 PROVE (x * FULL) \div span \in 0..FULL
    OBVIOUS
  <2>2. x * FULL \in Nat /\ x * FULL <= span * FULL /\ span * FULL = FULL * span
    BY <2>1, <1>2, ProductGrows
  <2>3. (x * FULL) \div span \in Nat /\ (x * FULL) \div span <= FULL
    BY <2>1, <2>2, <1>2, QuotientGrows, QuotientBound
  <2> QED BY <2>3
<1>5. /\ Least(behind + ran, span) \in Nat /\ Least(behind + ran, span) <= span
      /\ Least(span - behind + ran, span) \in Nat /\ Least(span - behind + ran, span) <= span
  BY <1>3 DEF Least
<1>6. /\ span # 0 => (Least(behind + ran, span) * FULL) \div span \in 0..FULL
      /\ span # 0 => (Least(span - behind + ran, span) * FULL) \div span \in 0..FULL
  BY <1>4, <1>5
<1>7. span # 0 => FULL - (Least(span - behind + ran, span) * FULL) \div span \in 0..FULL
  BY <1>6, <1>2
<1> QED BY <1>1, <1>6, <1>7 DEF Covered, Positions, behind

\* The times of a motion are natural numbers.
LEMMA TimesOfMotion ==
    ASSUME NEW m \in Motions, NEW t \in Configs
    PROVE  Span(m, t) \in Nat /\ Dead(m, t) \in Nat /\ Less(m.elapsed, Dead(m, t)) \in Nat
<1>1. t.up \in Nat /\ t.down \in Nat /\ t.lag \in Nat /\ t.vent \in Nat /\ t.close \in Nat
  BY ShadeAssumption DEF Configs
<1>2. \A a, b \in Nat : Less(a, b) \in Nat
  BY DEF Less
<1>3. Span(m, t) \in Nat
  BY <1>1, <1>2 DEF Span
<1>4. Dead(m, t) \in Nat
  BY <1>1 DEF Dead
<1>5. m.elapsed \in Nat
  BY DEF Motions
<1> QED BY <1>2, <1>3, <1>4, <1>5

\* An estimate is a position.
LEMMA AdvancedMotion ==
    ASSUME NEW m \in Motions, NEW t \in Configs
    PROVE  /\ Estimate(m, t) \in Positions
           /\ Advanced(m, t) = [pos |-> Advanced(m, t).pos, target |-> m.target,
                                start |-> m.start, elapsed |-> m.elapsed]
           /\ Advanced(m, t) \in Motions
<1>1. Estimate(m, t) \in Positions
  BY TimesOfMotion, CoveredPosition DEF Estimate
<1>2. Landed(m, Estimate(m, t)) \in Positions
  BY <1>1 DEF Landed, Motions
<1> QED BY <1>1, <1>2 DEF Advanced, Motions

\* So a motion stays one.
LEMMA MotionsMove ==
    ASSUME NEW m \in Motions, NEW t \in Configs, NEW p \in Positions
    PROVE  /\ Elapse(m) \in Motions /\ SetTarget(m, p) \in Motions /\ Resting(p) \in Motions
           /\ Halt(m, t) \in Motions /\ Reanchor(m, t) \in Motions
<1>1. Advanced(m, t).pos \in Positions
  BY AdvancedMotion DEF Motions
<1>2. PICK q \in Positions : q = Advanced(m, t).pos
  BY <1>1
<1>3. HaltAt(m, q) \in Motions /\ ReanchorAt(m, q) \in Motions
  BY DEF Motions, HaltAt, ReanchorAt
<1>4. Elapse(m) \in Motions
  <2>1. PICK e \in Nat : e = IF Moving(m) THEN m.elapsed + 1 ELSE 0
    BY DEF Motions
  <2>2. [m EXCEPT !.elapsed = e] \in Motions
    BY DEF Motions
  <2> QED BY <2>1, <2>2 DEF Elapse
<1>5. SetTarget(m, p) \in Motions /\ Resting(p) \in Motions
  BY DEF Motions, SetTarget, Resting
<1> QED BY <1>2, <1>3, <1>4, <1>5 DEF Halt, Reanchor

-----------------------------------------------------------------------------
(* The types of what a shade does                                          *)

\* A shade whose bands leave something of a traverse.
SoundShade(sh) == sh \in Shades /\ BandsFit(sh.cfg)

\* A plan is a frame at most.
Plans == {<< >>} \cup {<<f>> : f \in Frames}

\* What a step of a shade yields: the shade as configured, a frame, a movement.
Yields(sh, r) ==
    /\ r = Done(r.shade, r.tx, r.doing)
    /\ SoundShade(r.shade) /\ r.shade.cfg = sh.cfg
    /\ r.tx \in Plans /\ r.doing \in Activities

\* A part of a sound shade is exchanged for another of its type.
LEMMA SoundPart ==
    ASSUME NEW sh, SoundShade(sh)
    PROVE  /\ \A d \in 0..FULL : SoundShade([sh EXCEPT !.doubt = d])
           /\ \A v \in Positions \cup {NoFav} : SoundShade([sh EXCEPT !.fav = v])
           /\ \A m \in Motions : SoundShade([sh EXCEPT !.lift = m])
           /\ \A b \in BOOLEAN : SoundShade([sh EXCEPT !.armed = b])
           /\ \A c \in Configs : BandsFit(c) => SoundShade([sh EXCEPT !.cfg = c])
<1>1. ASSUME NEW d \in 0..FULL PROVE SoundShade([sh EXCEPT !.doubt = d])
  BY DEF SoundShade, Shades
<1>2. ASSUME NEW v \in Positions \cup {NoFav} PROVE SoundShade([sh EXCEPT !.fav = v])
  BY DEF SoundShade, Shades
<1>3. ASSUME NEW m \in Motions PROVE SoundShade([sh EXCEPT !.lift = m])
  BY DEF SoundShade, Shades
<1>4. ASSUME NEW b \in BOOLEAN PROVE SoundShade([sh EXCEPT !.armed = b])
  BY DEF SoundShade, Shades
<1>5. ASSUME NEW c \in Configs, BandsFit(c) PROVE SoundShade([sh EXCEPT !.cfg = c])
  <2>1. [sh EXCEPT !.cfg = c] \in Shades
    BY <1>5 DEF SoundShade, Shades
  <2>2. [sh EXCEPT !.cfg = c].cfg = c
    BY DEF SoundShade, Shades
  <2> QED BY <2>1, <2>2, <1>5 DEF SoundShade
<1> QED BY <1>1, <1>2, <1>3, <1>4, <1>5

\* A charge, a departure and an arrival at a limit leave a sound shade.
LEMMA SoundMoves ==
    ASSUME NEW sh, SoundShade(sh)
    PROVE  /\ \A d \in Nat : SoundShade(AddDoubt(sh, d)) /\ AddDoubt(sh, d).cfg = sh.cfg
           /\ SoundShade(Abandon(sh)) /\ Abandon(sh).cfg = sh.cfg
           /\ \A p \in Positions : SoundShade(Toward(sh, p)) /\ Toward(sh, p).cfg = sh.cfg
           /\ \A p \in Positions : SoundShade(ReachLimit(sh, p)) /\ ReachLimit(sh, p).cfg = sh.cfg
<1>0. sh \in Shades /\ sh.lift \in Motions /\ sh.cfg \in Configs /\ FULL \in Nat
  BY FullAssumption DEF SoundShade, Shades
<1>1. ASSUME NEW d \in Nat PROVE SoundShade(AddDoubt(sh, d)) /\ AddDoubt(sh, d).cfg = sh.cfg
  <2>1. Least(sh.doubt + d, FULL) \in 0..FULL
    BY <1>0 DEF Least, Shades
  <2>2. PICK x \in 0..FULL : x = Least(sh.doubt + d, FULL)
    BY <2>1
  <2>3. SoundShade([sh EXCEPT !.doubt = x]) /\ [sh EXCEPT !.doubt = x].cfg = sh.cfg
    BY <1>0, SoundPart DEF Shades
  <2> QED BY <2>2, <2>3 DEF AddDoubt
<1>2. SoundShade(Abandon(sh)) /\ Abandon(sh).cfg = sh.cfg
  <2>1. Apart(sh.lift.pos, sh.lift.target) \in Nat
    BY <1>0 DEF Apart, Motions, Positions
  <2>2. PICK at : at = AddDoubt(sh, Apart(sh.lift.pos, sh.lift.target))
    OBVIOUS
  <2>3. SoundShade(at) /\ at.cfg = sh.cfg
    BY <2>1, <2>2, <1>1
  <2>4. SoundShade([at EXCEPT !.armed = FALSE])
    BY <2>3, SoundPart
  <2>5. [at EXCEPT !.armed = FALSE].cfg = sh.cfg
    BY <2>3 DEF SoundShade, Shades
  <2> QED BY <2>2, <2>4, <2>5 DEF Abandon
<1>3. ASSUME NEW p \in Positions PROVE SoundShade(Toward(sh, p)) /\ Toward(sh, p).cfg = sh.cfg
  <2>1. PICK m \in Motions : m = SetTarget(sh.lift, p)
    BY <1>0, MotionsMove
  <2>2. SoundShade([sh EXCEPT !.lift = m]) /\ [sh EXCEPT !.lift = m].cfg = sh.cfg
    BY <1>0, SoundPart DEF Shades
  <2> QED BY <2>1, <2>2 DEF Toward
<1>4. ASSUME NEW p \in Positions
      PROVE  SoundShade(ReachLimit(sh, p)) /\ ReachLimit(sh, p).cfg = sh.cfg
  <2>1. PICK m \in Motions : m = Resting(p)
    BY <1>0, MotionsMove
  <2>2. SoundShade([sh EXCEPT !.lift = m]) /\ [sh EXCEPT !.lift = m].cfg = sh.cfg
    BY <1>0, SoundPart DEF Shades
  <2>3. PICK at : at = [sh EXCEPT !.lift = m]
    OBVIOUS
  <2>4. SoundShade(at) /\ at.cfg = sh.cfg /\ 0 \in 0..FULL
    BY <2>2, <2>3, <1>0
  <2>6. SoundShade([at EXCEPT !.doubt = 0])
    BY <2>4, SoundPart
  <2>7. [at EXCEPT !.doubt = 0].cfg = at.cfg
    BY <2>4 DEF SoundShade, Shades
  <2>5. ReachLimit(sh, p) = [[sh EXCEPT !.lift = Resting(p)] EXCEPT !.doubt = 0]
    BY Zenon DEF ReachLimit
  <2> QED BY <2>1, <2>3, <2>4, <2>5, <2>6, <2>7
<1> QED BY <1>1, <1>2, <1>3, <1>4

\* So does a tick.
LEMMA SoundTick ==
    ASSUME NEW sh, SoundShade(sh)
    PROVE  /\ SoundShade(Ticked(sh)) /\ Ticked(sh).cfg = sh.cfg
           /\ SoundShade(Advance(sh)) /\ Advance(sh).cfg = sh.cfg
           /\ TickTx(sh) \in {<< >>, <<"My">>}
<1>0. sh \in Shades /\ sh.lift \in Motions /\ sh.cfg \in Configs /\ FULL \in Nat \ {0}
  BY FullAssumption DEF SoundShade, Shades
<1>1. PICK m \in Motions : m = Advanced(sh.lift, sh.cfg)
  BY <1>0, AdvancedMotion
<1>2. PICK on : on = [sh EXCEPT !.lift = m]
  OBVIOUS
<1>3. SoundShade(on) /\ on.cfg = sh.cfg /\ on.lift = m
  BY <1>2, <1>0, SoundPart DEF Shades
<1>4. PICK off : off = Disarm(on, Due(sh, m))
  OBVIOUS
<1>5. SoundShade(off) /\ off.cfg = sh.cfg /\ off.lift = m
  <2>1. (on.armed /\ ~Due(sh, m)) \in BOOLEAN
    OBVIOUS
  <2>2. PICK b \in BOOLEAN : b = (on.armed /\ ~Due(sh, m))
    BY <2>1
  <2>3. off = [on EXCEPT !.armed = b]
    BY <2>2, <1>4, Zenon DEF Disarm
  <2>4. SoundShade([on EXCEPT !.armed = b])
    BY <1>3, SoundPart
  <2> QED BY <2>3, <2>4, <1>3 DEF SoundShade, Shades
<1>6. SoundShade(Arrive(off)) /\ Arrive(off).cfg = sh.cfg
  <2>1. m.pos \in Positions /\ m.start \in Positions
    BY DEF Motions
  <2>2. CASE m.pos \in Limits
    <3>1. SoundShade(ReachLimit(off, m.pos)) /\ ReachLimit(off, m.pos).cfg = off.cfg
      BY <1>5, <2>1, SoundMoves
    <3>2. Arrive(off) = ReachLimit(off, m.pos)
      BY <1>5, <2>2, Zenon DEF Arrive
    <3> QED BY <3>1, <3>2, <1>5
  <2>3. CASE m.pos \notin Limits
    <3>1. off.cfg.upSource \in Sources /\ off.cfg.downSource \in Sources
      BY <1>5, <1>0 DEF Configs
    <3>2. PICK source \in Sources :
              source = IF m.target > m.start THEN off.cfg.downSource ELSE off.cfg.upSource
      BY <3>1
    <3>3. ERROR[source] \in Nat /\ Apart(m.pos, m.start) \in Nat
      BY <2>1, <1>0, ShadeAssumption DEF Apart, Positions
    <3>4. (Apart(m.pos, m.start) * ERROR[source]) \div FULL \in Nat
      BY <3>3, <1>0, ProductGrows, QuotientGrows
    <3>5. ChargeArrival(off) =
             AddDoubt(off, (Apart(m.pos, m.start) * ERROR[source]) \div FULL)
      BY <3>2, <1>5 DEF ChargeArrival
    <3>6. PICK d \in Nat : d = (Apart(m.pos, m.start) * ERROR[source]) \div FULL
      BY <3>4
    <3>7. SoundShade(AddDoubt(off, d)) /\ AddDoubt(off, d).cfg = off.cfg
      BY <3>6, <1>5, SoundMoves
    <3>8. Arrive(off) = ChargeArrival(off)
      BY <1>5, <2>3, Zenon DEF Arrive
    <3> QED BY <3>5, <3>6, <3>7, <3>8, <1>5
  <2> QED BY <2>2, <2>3
<1>7. Ticked(sh) = IF Arrived(sh, m) THEN Arrive(off) ELSE off
  BY <1>1, <1>2, <1>4, Zenon DEF Ticked, TickedTo
<1>8. Advance(sh) = on
  BY <1>1, <1>2 DEF Advance
<1>9. TickTx(sh) \in {<< >>, <<"My">>}
  BY DEF TickTx, StopTx
<1> QED BY <1>3, <1>5, <1>6, <1>7, <1>8, <1>9
\* What a shade yields without a movement.
LEMMA YieldsFrame ==
    ASSUME NEW sh, NEW new, SoundShade(new), new.cfg = sh.cfg, NEW tx \in Plans, NEW act \in Activities
    PROVE  Yields(sh, Done(new, tx, act))
BY DEF Yields, Done

\* A seek, and a seek by way of a limit.
LEMMA SeekTyped ==
    ASSUME NEW sh, SoundShade(sh), NEW p \in Positions
    PROVE  Yields(sh, Seek(sh, p)) /\ Yields(sh, SeekReliably(sh, p))
<1>0. /\ sh.cfg \in Configs /\ 0 \in Positions /\ FULL \in Positions /\ Idle \in Activities
      /\ << >> \in Plans /\ <<"Up">> \in Plans /\ <<"Down">> \in Plans
  BY FullAssumption DEF SoundShade, Shades, Positions, Activities, Plans, Frames
<1>1. \A q \in Positions : SoundShade(Toward(sh, q)) /\ Toward(sh, q).cfg = sh.cfg
  BY SoundMoves
<1>2. \A q \in Positions, b \in BOOLEAN : /\ SoundShade([Toward(sh, q) EXCEPT !.armed = b])
                                        /\ [Toward(sh, q) EXCEPT !.armed = b].cfg = sh.cfg
  <2>1. SUFFICES ASSUME NEW q \in Positions, NEW b \in BOOLEAN
                 PROVE  /\ SoundShade([Toward(sh, q) EXCEPT !.armed = b])
                        /\ [Toward(sh, q) EXCEPT !.armed = b].cfg = sh.cfg
    OBVIOUS
  <2>2. PICK to : to = Toward(sh, q) /\ SoundShade(to) /\ to.cfg = sh.cfg
    BY <1>1
  <2>3. SoundShade([to EXCEPT !.armed = b])
    BY <2>2, SoundPart
  <2>4. [to EXCEPT !.armed = b].cfg = to.cfg
    BY <2>2 DEF SoundShade, Shades
  <2> QED BY <2>2, <2>3, <2>4
<1>3. Yields(sh, Seek(sh, p))
  <2>1. PICK to : to = [Toward(sh, p) EXCEPT !.armed = TRUE]
    OBVIOUS
  <2>2. SoundShade(to) /\ to.cfg = sh.cfg
    BY <2>1, <1>2
  <2>3. PICK tx \in Plans : tx = IF p > sh.lift.pos THEN <<"Down">> ELSE <<"Up">>
    BY <1>0
  <2>4. Seek(sh, p) = IF sh.lift.pos = p THEN Done(sh, << >>, Idle) ELSE Done(to, tx, Idle)
    BY <2>1, <2>3, Zenon DEF Seek
  <2>5. Yields(sh, Done(sh, << >>, Idle)) /\ Yields(sh, Done(to, tx, Idle))
    BY <2>2, <1>0, YieldsFrame
  <2> QED BY <2>4, <2>5
<1>4. Yields(sh, SeekReliably(sh, p))
  <2>1. PICK open : open = ViaOpen(sh.cfg, p)
    OBVIOUS
  <2>2. PICK limit \in Limits : limit = IF open THEN 0 ELSE FULL
    BY DEF Limits
  <2>3. PICK to : to = [Toward(sh, limit) EXCEPT !.armed = FALSE]
    OBVIOUS
  <2>4. SoundShade(to) /\ to.cfg = sh.cfg
    BY <2>2, <2>3, <1>0, <1>2 DEF Limits
  <2>5. PICK tx \in Plans : tx = IF open THEN <<"Up">> ELSE <<"Down">>
    BY <1>0
  <2>6. PICK w \in 0..MAX_TRAVEL : w = IF open THEN sh.cfg.up ELSE sh.cfg.down
    BY <1>0 DEF Configs
  <2>7. Anchoring(w, limit, p) \in Activities
    BY DEF Activities
  <2>8. SeekReliably(sh, p) =
           IF ~Routes(sh, p) THEN Seek(sh, p) ELSE Done(to, tx, Anchoring(w, limit, p))
    BY <2>1, <2>2, <2>3, <2>5, <2>6, Zenon DEF SeekReliably
  <2> QED BY <2>4, <2>7, <2>8, <1>3, YieldsFrame
<1> QED BY <1>3, <1>4

\* A stop, a recall and a step.
LEMMA PressTyped ==
    ASSUME NEW sh, SoundShade(sh)
    PROVE  /\ Yields(sh, PressMy(sh))
           /\ \A up \in BOOLEAN : Yields(sh, Step(sh, up))
           /\ \A leg \in Legs, act \in Activities : Yields(sh, Run(sh, leg, act))
           /\ \A up \in BOOLEAN : SoundShade(StepTarget(sh, up)) /\ StepTarget(sh, up).cfg = sh.cfg
<1>0. /\ sh.cfg \in Configs /\ sh.lift \in Motions /\ Idle \in Activities
      /\ << >> \in Plans /\ \A f \in Frames : <<f>> \in Plans
      /\ FULL \in Nat \ {0} /\ 0 \in Positions /\ FULL \in Positions
  BY FullAssumption DEF SoundShade, Shades, Positions, Activities, Plans
<1>1. PICK gone : gone = Abandon(sh) /\ SoundShade(gone) /\ gone.cfg = sh.cfg
  BY SoundMoves
<1>2. Yields(sh, PressMy(sh))
  <2>1. gone.lift \in Motions
    BY <1>1 DEF SoundShade, Shades
  <2>2. PICK m \in Motions : m = Halt(gone.lift, gone.cfg)
    BY <2>1, <1>0, <1>1, MotionsMove
  <2>3. SoundShade([gone EXCEPT !.lift = m])
    BY <1>1, SoundPart
  <2>4. [gone EXCEPT !.lift = m].cfg = gone.cfg
    BY <1>1 DEF SoundShade, Shades
  <2>5. Yields(sh, Done([gone EXCEPT !.lift = m], <<"My">>, Idle))
    BY <2>3, <2>4, <1>0, <1>1, YieldsFrame DEF Frames
  <2>6. Yields(sh, Done(sh, << >>, Idle))
    BY <1>0, YieldsFrame
  <2>7. sh.fav # NoFav => sh.fav \in Positions
    BY DEF SoundShade, Shades
  <2>8. sh.fav # NoFav => Yields(sh, SeekReliably(sh, sh.fav))
    BY <2>7, SeekTyped
  <2>9. PressMy(sh) = IF Moving(sh.lift) THEN Done([gone EXCEPT !.lift = m], <<"My">>, Idle)
                      ELSE IF sh.fav # NoFav THEN SeekReliably(sh, sh.fav)
                      ELSE Done(sh, << >>, Idle)
    BY <1>1, <2>2, Zenon DEF PressMy
  <2> QED BY <2>5, <2>6, <2>8, <2>9
<1>3. ASSUME NEW x, SoundShade(x), NEW up \in BOOLEAN
      PROVE  SoundShade(StepTarget(x, up)) /\ StepTarget(x, up).cfg = x.cfg
  <2>1. x.cfg \in Configs /\ x.lift.pos \in Positions
    BY <1>3 DEF SoundShade, Shades, Motions
  <2>2. PICK travel \in Nat \ {0} : travel = IF up THEN x.cfg.up ELSE x.cfg.down
    BY <2>1, ShadeAssumption DEF Configs
  <2>3. FULL * STEP_TRAVEL \in Nat
    BY <1>0, ShadeAssumption
  <2>4. (FULL * STEP_TRAVEL) \div travel \in Nat
    BY <2>2, <2>3, QuotientGrows
  <2>5. PICK step \in Nat : step = Least((FULL * STEP_TRAVEL) \div travel, FULL)
    BY <2>4, <1>0 DEF Least
  <2>6. PICK p \in Positions :
            p = IF up THEN Less(x.lift.pos, step) ELSE Least(x.lift.pos + step, FULL)
    BY <2>1, <1>0 DEF Less, Least, Positions
  <2>7. StepTarget(x, up) = Toward(x, p)
    BY <2>2, <2>5, <2>6, Zenon DEF StepTarget
  <2> QED BY <2>7, <1>3, SoundMoves
<1>4. ASSUME NEW up \in BOOLEAN PROVE Yields(sh, Step(sh, up))
  <2>1. PICK frame \in Frames : frame = IF up THEN "StepUp" ELSE "StepDown"
    BY DEF Frames
  <2>2. Step(sh, up) = IF ~Carries(sh.cfg, frame) THEN Done(sh, << >>, Idle)
                       ELSE Done(StepTarget(gone, up), <<frame>>, Idle)
    BY <2>1, <1>1, Zenon DEF Step
  <2>3. SoundShade(StepTarget(gone, up)) /\ StepTarget(gone, up).cfg = sh.cfg
    BY <1>1, <1>3
  <2> QED BY <2>2, <2>3, <1>0, YieldsFrame
<1>5. ASSUME NEW leg \in Legs, NEW act \in Activities PROVE Yields(sh, Run(sh, leg, act))
  <2>1. Limit(leg) \in Positions /\ leg \in Frames
    BY <1>0 DEF Limit, Legs, Frames
  <2>2. SoundShade(Toward(gone, Limit(leg))) /\ Toward(gone, Limit(leg)).cfg = sh.cfg
    BY <2>1, <1>1, SoundMoves
  <2>3. Run(sh, leg, act) = Done(Toward(gone, Limit(leg)), <<leg>>, act)
    BY <1>1 DEF Run
  <2> QED BY <2>1, <2>2, <2>3, <1>0, YieldsFrame
<1> QED BY <1>2, <1>3, <1>4, <1>5

\* What a shade yields to a command obeyed at once.
LEMMA ObeyTyped ==
    ASSUME NEW sh, SoundShade(sh), NEW cmd \in ShadeCommands
    PROVE  Yields(sh, Obey(sh, cmd))
<1>0. /\ sh.cfg \in Configs /\ Idle \in Activities
      /\ << >> \in Plans /\ \A f \in Frames : <<f>> \in Plans
  BY DEF SoundShade, Shades, Activities, Plans
<1>1. CASE cmd.kind \in {"Up", "Down"}
  <2>1. Obey(sh, cmd) = Run(sh, cmd.kind, Idle)
    BY <1>1 DEF Obey, Legs
  <2> QED BY <2>1, <1>0, <1>1, PressTyped DEF Legs
<1>2. CASE cmd.kind = "Vent"
  <2>1. Obey(sh, cmd) = Run(sh, "Down", Closing(sh.cfg.down))
    BY <1>2 DEF Obey, Legs
  <2>2. PICK w \in 0..MAX_TRAVEL : w = sh.cfg.down
    BY <1>0 DEF Configs
  <2>3. Closing(w) \in Activities /\ "Down" \in Legs
    BY DEF Activities, Legs
  <2> QED BY <2>1, <2>2, <2>3, PressTyped
<1>3. CASE cmd.kind = "My"
  BY <1>3, PressTyped DEF Obey, Legs
<1>4. CASE cmd.kind = "GoTo"
  <2>1. Obey(sh, cmd) = SeekReliably(sh, cmd.pos) /\ cmd.pos \in Positions
    BY <1>4 DEF Obey, Legs, ShadeCommands
  <2> QED BY <2>1, SeekTyped
<1>5. CASE cmd.kind \in {"StepUp", "StepDown"}
  <2>1. Obey(sh, cmd) = Step(sh, cmd.kind = "StepUp")
    BY <1>5, Zenon DEF Obey, Legs
  <2>2. (cmd.kind = "StepUp") \in BOOLEAN
    OBVIOUS
  <2> QED BY <2>1, <2>2, PressTyped
<1>6. CASE cmd.kind = "SetMy"
  <2>1. Obey(sh, cmd) = Done([sh EXCEPT !.fav = cmd.pos], << >>, Idle)
        /\ cmd.pos \in Positions \cup {NoFav}
    BY <1>6 DEF Obey, Legs, ShadeCommands
  <2>2. PICK v \in Positions \cup {NoFav} : v = cmd.pos
    BY <2>1
  <2>3. SoundShade([sh EXCEPT !.fav = v])
    BY SoundPart
  <2>4. [sh EXCEPT !.fav = v].cfg = sh.cfg
    BY DEF SoundShade, Shades
  <2> QED BY <2>1, <2>2, <2>3, <2>4, <1>0, YieldsFrame
<1>7. CASE cmd.kind = "Pair"
  <2>1. Obey(sh, cmd) = Done(Abandon(sh), <<"Prog">>, Idle)
    BY <1>7 DEF Obey, Legs
  <2> QED BY <2>1, <1>0, SoundMoves, YieldsFrame DEF Frames
<1>8. CASE cmd.kind = "Calibrate"
  <2>1. Obey(sh, cmd) = Run(sh, cmd.leg, Timing(cmd.leg)) /\ cmd.leg \in Legs
    BY <1>8 DEF Obey, ShadeCommands, Legs
  <2>2. Timing(cmd.leg) \in Activities
    <3>1. 0 \in 0..(MAX_TRAVEL + 1)
      BY ShadeAssumption
    <3> QED BY <2>1, <3>1 DEF Timing, Activities
  <2> QED BY <2>1, <2>2, PressTyped
<1> QED BY <1>1, <1>2, <1>3, <1>4, <1>5, <1>6, <1>7, <1>8 DEF ShadeCommands

\* What the motor hears of a plan, one frame at most, after a stop of the clock.
Hearing(last, frames, upto, heard) ==
    heard = [n \in 0..upto |-> IF n = 0 THEN last ELSE Hears(heard[n - 1], frames[n])]

\* There is such a hearing of as many as two frames.
LEMMA HearingExists ==
    ASSUME NEW last, NEW frames, NEW upto \in 0..2
    PROVE  \E heard : Hearing(last, frames, upto, heard)
<1> DEFINE one == Hears(last, frames[1])
           two == Hears(one, frames[2])
           heard == [n \in 0..upto |-> IF n = 0 THEN last ELSE IF n = 1 THEN one ELSE two]
<1>1. \A n \in 0..upto :
          heard[n] = IF n = 0 THEN last ELSE Hears(heard[n - 1], frames[n])
  <2> HIDE DEF one, two
  <2>1. SUFFICES ASSUME NEW n \in 0..upto
                 PROVE  heard[n] = IF n = 0 THEN last ELSE Hears(heard[n - 1], frames[n])
    OBVIOUS
  <2>2. CASE n = 0
    BY <2>2
  <2>3. CASE n = 1
    BY <2>3 DEF one
  <2>4. CASE n = 2
    BY <2>4 DEF two
  <2> QED BY <2>2, <2>3, <2>4
<1>2. heard = [n \in 0..upto |->
                  IF n = 0 THEN last ELSE Hears(heard[n - 1], frames[n])]
  BY <1>1
<1> QED BY <1>2 DEF Hearing

\* The motor hears frames one after the other.
LEMMA HearsSteps ==
    ASSUME NEW last, NEW frames, Len(frames) \in 0..2
    PROVE  /\ Len(frames) = 0 => HearsAll(last, frames) = last
           /\ Len(frames) = 1 => HearsAll(last, frames) = Hears(last, frames[1])
           /\ Len(frames) = 2 => HearsAll(last, frames) = Hears(Hears(last, frames[1]), frames[2])
<1> DEFINE heard[n \in 0..Len(frames)] ==
              IF n = 0 THEN last ELSE Hears(heard[n - 1], frames[n])
<1>0. PICK h : Hearing(last, frames, Len(frames), h)
  BY HearingExists
<1>1. heard = [n \in 0..Len(frames) |->
                  IF n = 0 THEN last ELSE Hears(heard[n - 1], frames[n])]
  BY <1>0, Zenon DEF Hearing
<1>2. HearsAll(last, frames) = heard[Len(frames)]
  BY Zenon DEF HearsAll
<1> HIDE DEF heard
<1>3. heard[0] = last
  BY <1>1
<1>4. Len(frames) \in 1..2 => heard[1] = Hears(heard[0], frames[1])
  BY <1>1
<1>5. Len(frames) = 2 => heard[2] = Hears(heard[1], frames[2])
  BY <1>1
<1>6. CASE Len(frames) = 0
  BY <1>2, <1>3, <1>6
<1>7. CASE Len(frames) = 1
  BY <1>2, <1>3, <1>4, <1>7
<1>8. CASE Len(frames) = 2
  <2>1. Len(frames) \in 1..2
    BY <1>8
  <2> QED BY <1>2, <1>3, <1>4, <1>5, <1>8, <2>1
<1> QED BY <1>6, <1>7, <1>8

\* No frame, one frame, two frames.
LEMMA HearsTwo ==
    ASSUME NEW last, NEW a, NEW b
    PROVE  /\ HearsAll(last, << >>) = last
           /\ HearsAll(last, <<a>>) = Hears(last, a)
           /\ HearsAll(last, <<a, b>>) = HearsAll(HearsAll(last, <<a>>), <<b>>)
<1>1. PICK none, one, other, two : none = << >> /\ one = <<a>> /\ other = <<b>> /\ two = <<a, b>>
  OBVIOUS
<1>2. Len(none) = 0 /\ Len(one) = 1 /\ Len(other) = 1 /\ Len(two) = 2
  BY <1>1
<1>3. one[1] = a /\ other[1] = b /\ two[1] = a /\ two[2] = b
  BY <1>1
<1>4. HearsAll(last, none) = last /\ HearsAll(last, one) = Hears(last, a)
  BY <1>2, <1>3, HearsSteps
<1>5. HearsAll(last, two) = HearsAll(HearsAll(last, one), other)
  BY <1>2, <1>3, <1>4, HearsSteps
<1> QED BY <1>1, <1>4, <1>5

\* A stop of the clock before a plan makes two frames at most.
LEMMA PairOfFrames == \A a, b : <<a>> \o <<b>> = <<a, b>>
<1> SUFFICES ASSUME NEW a, NEW b PROVE <<a>> \o <<b>> = <<a, b>>
  OBVIOUS
<1> PICK S : S = {a, b}
  OBVIOUS
<1>1. PICK s \in Seq(S), t \in Seq(S), u \in Seq(S) : s = <<a>> /\ t = <<b>> /\ u = <<a, b>>
  <2>1. <<a>> \in Seq({a, b}) /\ <<b>> \in Seq({a, b}) /\ <<a, b>> \in Seq({a, b})
    OBVIOUS
  <2> QED BY <2>1
<1>2. /\ Len(s) = 1 /\ Len(t) = 1 /\ Len(u) = 2
      /\ s[1] = a /\ t[1] = b /\ u[1] = a /\ u[2] = b
  BY <1>1
<1>3. /\ s \o t \in Seq(S) /\ Len(s \o t) = Len(s) + Len(t)
      /\ \A i \in 1 .. Len(s) + Len(t) :
            (s \o t)[i] = IF i <= Len(s) THEN s[i] ELSE t[i - Len(s)]
  BY ConcatProperties
<1>4. PICK v \in Seq(S) : v = s \o t
  BY <1>3
<1>5. Len(v) = Len(u) /\ \A i \in 1..Len(v) : v[i] = u[i]
  BY <1>2, <1>3, <1>4
<1>6. v = u
  BY <1>5, SeqEqual
<1> QED BY <1>1, <1>4, <1>6

\* The clock's stop is heard before the plan.
LEMMA HearsStop ==
    ASSUME NEW last, NEW stop \in {<< >>, <<"My">>}, NEW plan \in Plans
    PROVE  /\ HearsAll(last, stop \o plan) = HearsAll(HearsAll(last, stop), plan)
           /\ stop \in Plans
<1>1. CASE stop = << >>
  <2>1. stop \o plan = plan
    BY <1>1 DEF Plans
  <2> QED BY <1>1, <2>1, HearsTwo DEF Plans
<1>2. CASE stop = <<"My">> /\ plan = << >>
  <2>1. stop \o plan = stop
    BY <1>2
  <2> QED BY <1>2, <2>1, HearsTwo DEF Plans, Frames
<1>3. CASE stop = <<"My">> /\ plan # << >>
  <2>1. PICK f \in Frames : plan = <<f>>
    BY <1>3 DEF Plans
  <2>2. PICK my \in Frames : stop = <<my>>
    BY <1>3 DEF Frames
  <2>3. stop \o plan = <<my, f>>
    BY <2>1, <2>2, PairOfFrames
  <2>4. HearsAll(last, <<my, f>>) = HearsAll(HearsAll(last, <<my>>), <<f>>)
    BY HearsTwo
  <2> QED BY <2>1, <2>2, <2>3, <2>4 DEF Plans
<1> QED BY <1>1, <1>2, <1>3

\* A motor that heard something typed has heard something typed.
LEMMA HearsTyped ==
    ASSUME NEW last \in Told, NEW plan \in Plans
    PROVE  HearsAll(last, plan) \in Told
<1>1. \A f \in Frames : Hears(last, f) \in Told
  BY DEF Hears, Told, Frames
<1>2. CASE plan = << >>
  BY <1>2, HearsTwo
<1>3. CASE plan # << >>
  <2>1. PICK f \in Frames : plan = <<f>>
    BY <1>3 DEF Plans
  <2> QED BY <2>1, <1>1, HearsTwo
<1> QED BY <1>2, <1>3

\* What the clock makes of a movement.
LEMMA NextLegTyped ==
    ASSUME NEW sh, SoundShade(sh), NEW act \in Activities
    PROVE  /\ Yields(sh, NextLeg(sh, act))
           /\ act = Idle => NextLeg(sh, act) = Done(sh, << >>, Idle)
<1>0. /\ sh.cfg \in Configs /\ BandsFit(sh.cfg) /\ Idle \in Activities /\ FULL \in Positions
      /\ << >> \in Plans /\ \A f \in Frames : <<f>> \in Plans
  BY FullAssumption DEF SoundShade, Shades, Activities, Plans, Positions
<1>1. CASE Waiting(act) /\ act.wait > 0
  <2>1. NextLeg(sh, act) = Done(sh, << >>, act)
    BY <1>1 DEF NextLeg
  <2>2. act # Idle
    BY <1>1 DEF Waiting, Idle
  <2> QED BY <2>1, <2>2, <1>0, YieldsFrame
<1>2. CASE ~(Waiting(act) /\ act.wait > 0) /\ act.kind = "closing"
  <2>1. PICK w : w = sh.cfg.lag + sh.cfg.vent
    OBVIOUS
  <2>2. w \in 0..MAX_TRAVEL
    BY <2>1, <1>0, ShadeAssumption, SMTT(60) DEF BandsFit, Configs
  <2>3. Separating(w) \in Activities
    BY <2>2 DEF Activities
  <2>4. SoundShade(ReachLimit(sh, FULL)) /\ ReachLimit(sh, FULL).cfg = sh.cfg
    BY <1>0, SoundMoves
  <2>5. NextLeg(sh, act) = Done(ReachLimit(sh, FULL), <<"Up">>, Separating(w))
    BY <1>2, <2>1 DEF NextLeg
  <2>6. act # Idle
    BY <1>2 DEF Idle
  <2> QED BY <2>3, <2>4, <2>5, <2>6, <1>0, YieldsFrame DEF Frames
<1>3. CASE ~(Waiting(act) /\ act.wait > 0) /\ act.kind = "separating"
  <2>1. NextLeg(sh, act) = Done(sh, <<"My">>, Idle)
    BY <1>3 DEF NextLeg
  <2>2. act # Idle
    BY <1>3 DEF Idle
  <2> QED BY <2>1, <2>2, <1>0, YieldsFrame DEF Frames
<1>4. CASE ~(Waiting(act) /\ act.wait > 0) /\ act.kind = "anchoring"
  <2>1. act.limit \in Positions /\ act.target \in Positions
    <3>1. PICK w \in 0..MAX_TRAVEL, l \in Limits, p \in Positions : act = Anchoring(w, l, p)
      BY <1>4 DEF Activities, Idle, Closing, Separating, Anchoring
    <3> QED BY <3>1, <1>0, FullAssumption DEF Anchoring, Limits, Positions
  <2>2. PICK at : at = ReachLimit(sh, act.limit)
    OBVIOUS
  <2>3. SoundShade(at) /\ at.cfg = sh.cfg
    BY <2>1, <2>2, SoundMoves
  <2>4. Yields(at, Seek(at, act.target))
    BY <2>1, <2>3, SeekTyped
  <2>5. NextLeg(sh, act) = Seek(at, act.target)
    BY <1>4, <2>2 DEF NextLeg
  <2>6. act # Idle
    BY <1>4 DEF Idle
  <2> QED BY <2>3, <2>4, <2>5, <2>6 DEF Yields
<1>5. CASE ~(Waiting(act) /\ act.wait > 0) /\ act.kind \notin {"closing", "separating", "anchoring"}
  <2>1. NextLeg(sh, act) = Done(sh, << >>, act)
    BY <1>5 DEF NextLeg
  <2> QED BY <2>1, <1>0, YieldsFrame
<1> QED BY <1>1, <1>2, <1>3, <1>4, <1>5

\* A frame overheard, an edit, a measurement and time leave a shade sound.
LEMMA OverheardTyped ==
    ASSUME NEW sh, SoundShade(sh), NEW frame \in Frames
    PROVE  SoundShade(Overheard(sh, frame))
<1>1. PICK own : own = Abandon(Advance(sh)) /\ SoundShade(own)
  BY SoundTick, SoundMoves
<1>2. own.lift \in Motions /\ own.cfg \in Configs /\ (own.fav # NoFav => own.fav \in Positions)
  BY <1>1 DEF SoundShade, Shades
<1>3. SoundShade([own EXCEPT !.lift = Halt(@, own.cfg)])
  <2>1. PICK m \in Motions : m = Halt(own.lift, own.cfg)
    BY <1>2, FullAssumption, MotionsMove DEF Motions
  <2>2. SoundShade([own EXCEPT !.lift = m])
    BY <1>1, SoundPart
  <2> QED BY <2>1, <2>2
<1>4. \A p \in Positions : SoundShade(Toward(own, p))
  BY <1>1, SoundMoves
<1>5. \A leg \in Legs : Limit(leg) \in Positions
  BY FullAssumption DEF Limit, Legs, Positions
<1>6. \A up \in BOOLEAN : SoundShade(StepTarget(own, up))
  BY <1>1, PressTyped
<1>7. Overheard(sh, frame) = Follow(own, frame)
  BY <1>1 DEF Overheard
<1>8. CASE frame \in Legs
  <2>1. Follow(own, frame) = Toward(own, Limit(frame))
    BY <1>8 DEF Follow, Legs
  <2>2. Limit(frame) \in Positions
    BY <1>5, <1>8
  <2> QED BY <2>1, <2>2, <1>4, <1>7
<1>9. CASE frame = "My"
  <2>1. CASE Moving(own.lift)
    <3>1. Follow(own, frame) = [own EXCEPT !.lift = Halt(@, own.cfg)]
      BY <1>9, <2>1 DEF Follow, Legs
    <3> QED BY <3>1, <1>3, <1>7
  <2>2. CASE ~Moving(own.lift) /\ own.fav # NoFav
    <3>1. Follow(own, frame) = Toward(own, own.fav)
      BY <1>9, <2>2 DEF Follow, Legs
    <3> QED BY <3>1, <2>2, <1>2, <1>4, <1>7
  <2>3. CASE ~Moving(own.lift) /\ own.fav = NoFav
    <3>1. Follow(own, frame) = own
      BY <1>9, <2>3 DEF Follow, Legs
    <3> QED BY <3>1, <1>1, <1>7
  <2> QED BY <2>1, <2>2, <2>3
<1>10. CASE frame \in {"StepUp", "StepDown"}
  <2>1. Follow(own, frame) = StepTarget(own, frame = "StepUp")
    BY <1>10, Zenon DEF Follow, Legs
  <2>2. (frame = "StepUp") \in BOOLEAN
    OBVIOUS
  <2> QED BY <2>1, <2>2, <1>6, <1>7
<1>11. CASE frame = "Prog"
  BY <1>1, <1>7, <1>11 DEF Follow, Legs
<1> QED BY <1>8, <1>9, <1>10, <1>11 DEF Frames, Legs

\* An edit, the time that passes and a measurement leave a sound shade.
LEMMA EditsTyped ==
    ASSUME NEW sh, SoundShade(sh)
    PROVE  /\ \A cfg \in Configs : BandsFit(cfg) => SoundShade(Reconfigure(sh, cfg))
           /\ SoundShade([sh EXCEPT !.lift = Elapse(@)])
           /\ \A run : run.leg \in Legs /\ Plausible(sh, run) => SoundShade(Calibrated(sh, run))
<1>0. sh \in Shades /\ sh.lift \in Motions /\ sh.cfg \in Configs
  BY DEF SoundShade, Shades
<1>1. ASSUME NEW cfg \in Configs, BandsFit(cfg) PROVE SoundShade(Reconfigure(sh, cfg))
  <2>1. PICK m \in Motions : m = Reanchor(sh.lift, sh.cfg)
    BY <1>0, FullAssumption, MotionsMove DEF Motions
  <2>2. PICK at : at = [sh EXCEPT !.lift = m]
    OBVIOUS
  <2>3. SoundShade(at)
    BY <2>2, SoundPart
  <2>4. SoundShade([at EXCEPT !.cfg = cfg])
    BY <2>3, <1>1, SoundPart
  <2>5. Reconfigure(sh, cfg) = [[sh EXCEPT !.lift = Reanchor(sh.lift, sh.cfg)] EXCEPT !.cfg = cfg]
    BY Zenon DEF Reconfigure
  <2> QED BY <2>1, <2>2, <2>4, <2>5
<1>2. SoundShade([sh EXCEPT !.lift = Elapse(@)])
  <2>1. PICK m \in Motions : m = Elapse(sh.lift)
    BY <1>0, FullAssumption, MotionsMove DEF Motions
  <2>2. SoundShade([sh EXCEPT !.lift = m])
    BY SoundPart
  <2> QED BY <2>1, <2>2
<1>3. ASSUME NEW run, run.leg \in Legs, Plausible(sh, run) PROVE SoundShade(Calibrated(sh, run))
  <2>1. PICK c : c = Measured(sh.cfg, run)
    OBVIOUS
  <2>2. PICK ran \in 1..MAX_TRAVEL : ran = run.ran
    BY <1>3 DEF Plausible
  <2>3. c \in Configs /\ BandsFit(c)
    <3>1. [sh.cfg EXCEPT !.up = ran, !.upSource = "measured"] \in Configs
      BY <1>0 DEF Configs, Sources
    <3>2. [sh.cfg EXCEPT !.down = ran, !.downSource = "measured"] \in Configs
      BY <1>0 DEF Configs, Sources
    <3> QED BY <2>1, <2>2, <3>1, <3>2, <1>3 DEF Measured, Plausible
  <2>4. PICK at : at = [sh EXCEPT !.cfg = c]
    OBVIOUS
  <2>5. SoundShade(at)
    BY <2>3, <2>4, SoundPart
  <2>6. Limit(run.leg) \in Positions
    BY <1>3, FullAssumption DEF Limit, Positions
  <2>7. SoundShade(ReachLimit(at, Limit(run.leg)))
    BY <2>5, <2>6, SoundMoves
  <2> QED BY <2>1, <2>4, <2>7 DEF Calibrated
<1> QED BY <1>1, <1>2, <1>3

-----------------------------------------------------------------------------
(* The types of the controller                                             *)

\* The ids of the shades that are part-way through something.
Busy(table) == {id \in Ids : table[id] # Idle}

\* Typed tables: sound shades, movements within their places, frames heard.
TypedTables(registry, table, heard) ==
    /\ registry = [id \in Ids |-> registry[id]]
    /\ \A id \in Ids : registry[id] # Empty => SoundShade(registry[id])
    /\ table \in [Ids -> Activities] /\ Cardinality(Busy(table)) <= MAX_ACTIVITIES
    /\ heard \in [Ids -> Told]

\* No shade is taken for an empty slot.
LEMMA SoundIsThere == \A sh : SoundShade(sh) => sh # Empty
<1>1. SUFFICES ASSUME NEW sh, SoundShade(sh) PROVE sh # Empty
  OBVIOUS
<1>2. IsShade(sh)
  BY <1>1 DEF SoundShade, Shades, IsShade
<1> QED BY <1>2, ShadeIsNotEmpty

\* No more are busy when nobody begins anything.
LEMMA NoneBegins ==
    ASSUME NEW table, NEW new, Cardinality(Busy(table)) <= MAX_ACTIVITIES,
           \A id \in Ids : table[id] = Idle => new[id] = Idle
    PROVE  Cardinality(Busy(new)) <= MAX_ACTIVITIES
<1>1. Busy(new) \subseteq Busy(table)
  BY DEF Busy
<1>2. IsFiniteSet(Busy(table))
  <2>1. Busy(table) \subseteq Ids
    BY DEF Busy
  <2> QED BY <2>1, FS_Subset, ControllerAssumption
<1>3. Cardinality(Busy(new)) <= Cardinality(Busy(table)) /\ IsFiniteSet(Busy(new))
  BY <1>1, <1>2, FS_Subset
<1>4. Cardinality(Busy(new)) \in Nat /\ Cardinality(Busy(table)) \in Nat
  BY <1>2, <1>3, FS_CardinalityType
<1> QED BY <1>3, <1>4, ControllerAssumption

\* One more is, where there is room for one.
LEMMA OneBegins ==
    ASSUME NEW table, Cardinality(Busy(table)) <= MAX_ACTIVITIES, NEW id \in Ids, NEW act,
           table = [i \in Ids |-> table[i]], Fits(table, id, act)
    PROVE  Cardinality(Busy([table EXCEPT ![id] = act])) <= MAX_ACTIVITIES
<1> DEFINE new == [table EXCEPT ![id] = act]
<1>1. \A i \in Ids : new[i] = IF i = id THEN act ELSE table[i]
  OBVIOUS
<1> HIDE DEF new
<1>2. CASE act = Idle \/ table[id] # Idle
  <2>1. Busy(new) \subseteq Busy(table)
    BY <1>1, <1>2 DEF Busy
  <2>2. \A i \in Ids : table[i] = Idle => new[i] = Idle
    BY <1>1, <1>2
  <2> QED BY <2>2, NoneBegins DEF new
<1>3. CASE Cardinality(Busy(table)) < MAX_ACTIVITIES
  <2>1. IsFiniteSet(Busy(table))
    <3>1. Busy(table) \subseteq Ids
      BY DEF Busy
    <3> QED BY <3>1, FS_Subset, ControllerAssumption
  <2>2. Busy(new) \subseteq Busy(table) \cup {id}
    BY <1>1 DEF Busy
  <2>3. /\ IsFiniteSet(Busy(table) \cup {id})
        /\ Cardinality(Busy(table) \cup {id}) <= Cardinality(Busy(table)) + 1
    <3>1. /\ IsFiniteSet(Busy(table) \cup {id})
          /\ Cardinality(Busy(table) \cup {id}) =
                IF id \in Busy(table) THEN Cardinality(Busy(table)) ELSE Cardinality(Busy(table)) + 1
      BY <2>1, FS_AddElement
    <3>2. Cardinality(Busy(table)) \in Nat
      BY <2>1, FS_CardinalityType
    <3> QED BY <3>1, <3>2
  <2>4. Cardinality(Busy(new)) <= Cardinality(Busy(table) \cup {id}) /\ IsFiniteSet(Busy(new))
    BY <2>2, <2>3, FS_Subset
  <2>5. /\ Cardinality(Busy(new)) \in Nat /\ Cardinality(Busy(table)) \in Nat
        /\ Cardinality(Busy(table) \cup {id}) \in Nat
    BY <2>1, <2>3, <2>4, FS_CardinalityType
  <2> QED BY <2>3, <2>4, <2>5, <1>3, ControllerAssumption DEF new
<1> QED BY <1>2, <1>3 DEF Fits, Busy

\* What a shade yields to a command, and to the clock, is stored with its types kept.
LEMMA StoredTyped ==
    ASSUME NEW s, TypedTables(s.shades, s.doing, s.told), NEW id \in Ids,
           NEW sh, NEW stop \in {<< >>, <<"My">>}, NEW o, Yields(sh, o),
           NEW r, r = [o EXCEPT !.tx = stop \o @]
    PROVE  /\ TypedTables(Stored(s, id, r).shades, Stored(s, id, r).doing, Stored(s, id, r).told)
           /\ \A i \in Ids : s.shades[i] # Empty => Stored(s, id, r).shades[i] # Empty
<1>1. r.shade = o.shade /\ r.doing = o.doing /\ r.tx = stop \o o.tx
  BY DEF Yields, Done
<1>2. SoundShade(o.shade) /\ o.shade # Empty /\ o.doing \in Activities /\ o.tx \in Plans
  BY SoundIsThere DEF Yields
<1>3. \A last \in Told : HearsAll(last, r.tx) \in Told
  <2>1. SUFFICES ASSUME NEW last \in Told PROVE HearsAll(last, r.tx) \in Told
    OBVIOUS
  <2>2. PICK plan \in Plans : plan = o.tx
    BY <1>2
  <2>3. stop \in Plans /\ HearsAll(last, stop) \in Told
    BY HearsStop, HearsTyped
  <2>4. HearsAll(HearsAll(last, stop), plan) \in Told
    BY <2>3, HearsTyped
  <2>5. HearsAll(last, stop \o plan) = HearsAll(HearsAll(last, stop), plan)
    BY HearsStop
  <2> QED BY <1>1, <2>2, <2>4, <2>5
<1> DEFINE ok == Fits(s.doing, id, r.doing)
           n == Stored(s, id, r)
<1>4. /\ n.shades = [s.shades EXCEPT ![id] = r.shade]
      /\ n.doing = IF ok THEN [s.doing EXCEPT ![id] = r.doing] ELSE s.doing
      /\ n.told = IF ok THEN [s.told EXCEPT ![id] = HearsAll(@, r.tx)] ELSE s.told
  BY DEF Stored
<1> HIDE DEF n
<1>5. /\ n.shades = [i \in Ids |-> IF i = id THEN o.shade ELSE s.shades[i]]
      /\ n.shades = [i \in Ids |-> n.shades[i]]
  BY <1>1, <1>4 DEF TypedTables
<1>6. n.doing \in [Ids -> Activities] /\ Cardinality(Busy(n.doing)) <= MAX_ACTIVITIES
  <2>1. CASE ok
    <3>1. n.doing = [s.doing EXCEPT ![id] = r.doing]
      BY <1>4, <2>1
    <3>2. s.doing = [i \in Ids |-> s.doing[i]] /\ Cardinality(Busy(s.doing)) <= MAX_ACTIVITIES
      BY DEF TypedTables
    <3>3. Cardinality(Busy([s.doing EXCEPT ![id] = r.doing])) <= MAX_ACTIVITIES
      BY <3>2, <2>1, OneBegins
    <3>4. n.doing \in [Ids -> Activities]
      BY <3>1, <1>1, <1>2 DEF TypedTables
    <3> QED BY <3>1, <3>3, <3>4
  <2>2. CASE ~ok
    BY <1>4, <2>2 DEF TypedTables
  <2> QED BY <2>1, <2>2
<1>7. n.told \in [Ids -> Told]
  <2> HIDE DEF ok
  <2>1. s.told \in [Ids -> Told] /\ HearsAll(s.told[id], r.tx) \in Told
    BY <1>3 DEF TypedTables
  <2>2. PICK h \in Told : h = HearsAll(s.told[id], r.tx)
    BY <2>1
  <2>3. [s.told EXCEPT ![id] = h] \in [Ids -> Told]
    BY <2>1
  <2> QED BY <1>4, <2>1, <2>2, <2>3
<1>8. \A i \in Ids : n.shades[i] # Empty => SoundShade(n.shades[i])
  BY <1>2, <1>5 DEF TypedTables
<1>9. \A i \in Ids : s.shades[i] # Empty => n.shades[i] # Empty
  BY <1>2, <1>5
<1> QED BY <1>5, <1>6, <1>7, <1>8, <1>9 DEF TypedTables, n

\* A command to a shade that is there keeps the types of all tables.
LEMMA ApplyTyped ==
    ASSUME NEW s, TypedTables(s.shades, s.doing, s.told), NEW id \in Ids, s.shades[id] # Empty,
           NEW cmd \in ShadeCommands
    PROVE  LET n == Apply(s, id, cmd)
           IN  /\ TypedTables(n.shades, n.doing, n.told)
               /\ \A i \in Ids : s.shades[i] # Empty => n.shades[i] # Empty
<1>1. SoundShade(s.shades[id])
  BY DEF TypedTables
<1>2. PICK sh : sh = Ticked(s.shades[id]) /\ SoundShade(sh)
  BY <1>1, SoundTick
<1>3. PICK stop \in {<< >>, <<"My">>} : stop = TickTx(s.shades[id])
  BY <1>1, SoundTick
<1>4. PICK o : o = Obey(sh, cmd) /\ Yields(sh, o)
  BY <1>2, ObeyTyped
<1>5. PICK r : r = Handle(s.shades[id], cmd)
  OBVIOUS
<1>6. r = [o EXCEPT !.tx = stop \o @]
  BY <1>2, <1>3, <1>4, <1>5 DEF Handle
<1>7. Apply(s, id, cmd) = Stored(s, id, r)
  BY <1>5 DEF Apply
<1>8. PICK n : n = Stored(s, id, r)
  OBVIOUS
<1>9. /\ TypedTables(n.shades, n.doing, n.told)
      /\ \A i \in Ids : s.shades[i] # Empty => n.shades[i] # Empty
  BY <1>4, <1>6, <1>8, StoredTyped
<1> QED BY <1>7, <1>8, <1>9

\* What is kept from member to member: the types, and no shade is lost.
KeptTyped(s) ==
    /\ TypedTables(s.shades, s.doing, s.told)
    /\ \A id \in Present : s.shades[id] # Empty

\* So does a command to a group, to its last member or to the first refusal.
LEMMA FanOutTyped ==
    ASSUME TypedTables(shades, doing, told), MembersThere, NEW cmd \in ShadeCommands
    PROVE  KeptTyped(FanOut(cmd))
<1> DEFINE after[n \in 0..Len(members)] ==
              IF n = 0 THEN Now ELSE Then(after[n - 1], members[n], cmd)
           bad == {n \in 0..Len(members) : ~KeptTyped(after[n])}
<1>0. Len(members) \in Nat /\ DOMAIN members = 1..Len(members)
  BY DEF MembersThere
<1>1. after = [n \in 0..Len(members) |->
                  IF n = 0 THEN Now ELSE Then(after[n - 1], members[n], cmd)]
  BY <1>0, FanOutExists, Zenon
<1>2. FanOut(cmd) = after[Len(members)]
  BY DEF FanOut
<1> HIDE DEF after
<1>3. bad = {}
  <2>1. SUFFICES ASSUME bad # {} PROVE FALSE
    OBVIOUS
  <2>2. bad \in SUBSET Nat
    BY <1>0
  <2>3. PICK n \in bad : \A j \in bad : n <= j
    BY <2>1, <2>2, Lowest
  <2>4. n # 0
    <3>1. after[0] = Now
      BY <1>0, <1>1
    <3>2. KeptTyped(Now)
      BY DEF KeptTyped, Now, Present
    <3> QED BY <2>3, <3>1, <3>2
  <2>5. n \in 1..Len(members) /\ n - 1 \in 0..Len(members)
    BY <2>3, <2>4, <1>0
  <2>6. KeptTyped(after[n - 1])
    BY <2>3, <2>5
  <2>7. after[n] = Then(after[n - 1], members[n], cmd)
    BY <2>5, <1>1
  <2>8. members[n] \in Present /\ members[n] \in Ids
    BY <2>5, <1>0 DEF MembersThere, Present
  <2>9. PICK s : s = after[n - 1]
    OBVIOUS
  <2>10. CASE s.ok
    <3>1. after[n] = Apply(s, members[n], cmd)
      BY <2>7, <2>9, <2>10 DEF Then
    <3>2. s.shades[members[n]] # Empty /\ TypedTables(s.shades, s.doing, s.told)
      BY <2>6, <2>8, <2>9 DEF KeptTyped
    <3>3. KeptTyped(after[n])
      BY <2>6, <2>8, <2>9, <3>1, <3>2, ApplyTyped DEF KeptTyped, Present
    <3> QED BY <2>3, <3>3
  <2>11. CASE ~s.ok
    BY <2>3, <2>6, <2>7, <2>9, <2>11 DEF Then
  <2> QED BY <2>10, <2>11
<1>4. KeptTyped(after[Len(members)])
  BY <1>0, <1>3
<1> QED BY <1>2, <1>4

\* What the clock does to a shade that is there.
LEMMA ClockTyped ==
    ASSUME NEW sh, SoundShade(sh), NEW act \in Activities, NEW last \in Told
    PROVE  /\ SoundShade(OnTick(sh, act).shade) /\ OnTick(sh, act).doing \in Activities
           /\ act = Idle => OnTick(sh, act).doing = Idle
           /\ HearsAll(last, OnTick(sh, act).tx) \in Told
           /\ \E stop \in {<< >>, <<"My">>} : \E o :
                 /\ stop = TickTx(sh) /\ o = NextLeg(Ticked(sh), act) /\ Yields(Ticked(sh), o)
                 /\ OnTick(sh, act).shade = o.shade /\ OnTick(sh, act).doing = o.doing
                 /\ HearsAll(last, OnTick(sh, act).tx) = HearsAll(HearsAll(last, stop), o.tx)
<1>1. PICK on : on = Ticked(sh) /\ SoundShade(on)
  BY SoundTick
<1>2. PICK stop \in {<< >>, <<"My">>} : stop = TickTx(sh)
  BY SoundTick
<1>3. PICK o : o = NextLeg(on, act)
  OBVIOUS
<1>4. Yields(on, o) /\ (act = Idle => o = Done(on, << >>, Idle))
  BY <1>1, <1>3, NextLegTyped
<1>5. PICK plan \in Plans : plan = o.tx
  BY <1>4 DEF Yields
<1>6. OnTick(sh, act) = [o EXCEPT !.tx = stop \o @]
  BY <1>1, <1>2, <1>3 DEF OnTick
<1>7. PICK r : r = OnTick(sh, act)
  OBVIOUS
<1>8. r.shade = o.shade /\ r.doing = o.doing /\ r.tx = stop \o plan
  BY <1>4, <1>5, <1>6, <1>7 DEF Yields, Done
<1>9. /\ stop \in Plans /\ HearsAll(last, stop) \in Told
      /\ HearsAll(last, stop \o plan) = HearsAll(HearsAll(last, stop), plan)
  BY HearsStop, HearsTyped
<1>10. HearsAll(HearsAll(last, stop), plan) \in Told
  BY <1>9, HearsTyped
<1>11. act = Idle => o.doing = Idle
  BY <1>4 DEF Done
<1>12. SoundShade(o.shade) /\ o.doing \in Activities
  BY <1>4 DEF Yields
<1>13. HearsAll(last, r.tx) = HearsAll(HearsAll(last, stop), o.tx)
  BY <1>5, <1>8, <1>9
<1>14. \E st \in {<< >>, <<"My">>} : \E oo :
                 /\ st = TickTx(sh) /\ oo = NextLeg(Ticked(sh), act) /\ Yields(Ticked(sh), oo)
                 /\ r.shade = oo.shade /\ r.doing = oo.doing
                 /\ HearsAll(last, r.tx) = HearsAll(HearsAll(last, st), oo.tx)
  BY <1>1, <1>2, <1>3, <1>4, <1>8, <1>13
<1> QED BY <1>5, <1>7, <1>8, <1>9, <1>10, <1>11, <1>12, <1>14

\* A movement a moment later.
LEMMA LaterTyped == \A act \in Activities : Later(act) \in Activities /\ (act = Idle => Later(act) = Idle)
<1>1. SUFFICES ASSUME NEW act \in Activities
               PROVE  Later(act) \in Activities /\ (act = Idle => Later(act) = Idle)
  OBVIOUS
<1>0. \A w \in 0..MAX_TRAVEL : Less(w, 1) \in 0..MAX_TRAVEL
  BY ShadeAssumption DEF Less
<1>2. CASE act = Idle
  BY <1>2 DEF Later, Waiting, Idle
<1>3. CASE \E w \in 0..MAX_TRAVEL : act = Closing(w)
  <2>1. PICK w \in 0..MAX_TRAVEL : act = Closing(w)
    BY <1>3
  <2>2. Later(act) = Closing(Less(w, 1)) /\ act # Idle
    BY <2>1 DEF Later, Waiting, Closing, Idle
  <2> QED BY <2>2, <1>0 DEF Activities
<1>4. CASE \E w \in 0..MAX_TRAVEL : act = Separating(w)
  <2>1. PICK w \in 0..MAX_TRAVEL : act = Separating(w)
    BY <1>4
  <2>2. Later(act) = Separating(Less(w, 1)) /\ act # Idle
    BY <2>1 DEF Later, Waiting, Separating, Idle
  <2> QED BY <2>2, <1>0 DEF Activities
<1>5. CASE \E w \in 0..MAX_TRAVEL, l \in Limits, p \in Positions : act = Anchoring(w, l, p)
  <2>1. PICK w \in 0..MAX_TRAVEL, l \in Limits, p \in Positions : act = Anchoring(w, l, p)
    BY <1>5
  <2>2. Later(act) = Anchoring(Less(w, 1), l, p) /\ act # Idle
    BY <2>1 DEF Later, Waiting, Anchoring, Idle
  <2> QED BY <2>2, <1>0 DEF Activities
<1>6. CASE act \in [kind : {"timing"}, leg : Legs, ran : 0..(MAX_TRAVEL + 1)]
  <2>1. PICK n \in 0..(MAX_TRAVEL + 1) : n = Least(act.ran + 1, MAX_TRAVEL + 1)
    BY <1>6, ShadeAssumption DEF Least
  <2>2. Later(act) = [act EXCEPT !.ran = n] /\ act # Idle
    BY <1>6, <2>1 DEF Later, Waiting, Idle
  <2>3. [act EXCEPT !.ran = n] \in [kind : {"timing"}, leg : Legs, ran : 0..(MAX_TRAVEL + 1)]
    BY <1>6
  <2> QED BY <2>2, <2>3 DEF Activities
<1> QED BY <1>2, <1>3, <1>4, <1>5, <1>6 DEF Activities

\* A measured run of the table has a direction.
LEMMA TimingLeg == \A act \in Activities : act.kind = "timing" => act.leg \in Legs
BY DEF Activities, Idle, Closing, Separating, Anchoring

\* To do nothing is one of the movements of the table.
LEMMA IdleIsOne == Idle \in Activities
BY DEF Activities

\* A shade is added at rest, fully open.
LEMMA NewIsSound == \A cfg \in NewConfigs : SoundShade(NewShade(cfg))
<1>1. SUFFICES ASSUME NEW cfg \in NewConfigs PROVE SoundShade(NewShade(cfg))
  OBVIOUS
<1>2. cfg \in Configs /\ BandsFit(cfg) /\ 0 \in Positions /\ 0 \in 0..FULL
  BY ControllerAssumption, FullAssumption DEF Positions
<1>3. PICK m \in Motions : m = Resting(0)
  BY <1>2 DEF Resting, Motions
<1>4. [cfg |-> cfg, lift |-> m, fav |-> NoFav, armed |-> FALSE, doubt |-> 0] \in Shades
  BY <1>2 DEF Shades
<1> QED BY <1>2, <1>3, <1>4 DEF NewShade, SoundShade

TypeInv ==
    /\ TypedTables(shades, doing, told)
    /\ reply \in {"none", "done", "heard", "refused", "group refused", "gated"}
    /\ ticked \in BOOLEAN

\* The typed tables stay typed in every step.
LEMMA TypedStep ==
    ASSUME TypeInv, MembersThere, [Next]_vars
    PROVE  TypeInv'
<1> USE DEF TypeInv
<1>0. /\ TypedTables(Now.shades, Now.doing, Now.told)
      /\ Cardinality(Busy(doing)) <= MAX_ACTIVITIES /\ Idle \in Activities
      /\ shades = [i \in Ids |-> shades[i]] /\ doing \in [Ids -> Activities] /\ told \in [Ids -> Told]
      /\ \A id \in Present : id \in Ids /\ SoundShade(shades[id])
  <2>1. Now.shades = shades /\ Now.doing = doing /\ Now.told = told
    BY DEF Now
  <2>2. Idle \in Activities
    BY IdleIsOne
  <2>3. TypedTables(Now.shades, Now.doing, Now.told)
    BY <2>1
  <2>4. \A id \in Present : id \in Ids /\ SoundShade(shades[id])
    BY DEF TypedTables, Present
  <2> QED BY <2>2, <2>3, <2>4 DEF TypedTables
<1>1. CASE \E cmd \in Commands : CommandGroup(cmd)
  <2>1. PICK cmd \in Commands : CommandGroup(cmd)
    BY <1>1
  <2>2. KeptTyped(FanOut(cmd))
    BY ControllerAssumption, FanOutTyped
  <2>3. CASE Gated
    BY <2>1, <2>3 DEF CommandGroup, Gated
  <2>4. CASE AnswerGroup(FanOut(cmd))
    BY <2>1, <2>2, <2>4 DEF CommandGroup, AnswerGroup, KeptTyped, TypedTables
  <2> QED BY <2>1, <2>3, <2>4 DEF CommandGroup
<1>2. CASE \E cmd \in Commands, id \in Ids : CommandShade(id, cmd)
  <2>1. PICK cmd \in Commands, id \in Ids : CommandShade(id, cmd)
    BY <1>2
  <2>2. CASE Gated
    BY <2>1, <2>2 DEF CommandShade, Gated
  <2>3. CASE Answer(Apply(Now, id, cmd))
    <3>1. PICK n : n = Apply(Now, id, cmd)
      OBVIOUS
    <3>2. Now.shades[id] # Empty
      BY <2>1 DEF CommandShade, Present, Now
    <3>3. TypedTables(n.shades, n.doing, n.told)
      BY <1>0, <3>1, <3>2, ControllerAssumption, ApplyTyped
    <3> QED BY <2>1, <2>3, <3>1, <3>3 DEF CommandShade, Answer
  <2> QED BY <2>1, <2>2, <2>3 DEF CommandShade
<1>3. CASE \E id \in Ids : FinishCalibration(id)
  <2>1. PICK id \in Ids : FinishCalibration(id)
    BY <1>3
  <2>2. CASE UNCHANGED <<shades, doing>>
    BY <2>1, <2>2 DEF FinishCalibration
  <2>3. CASE /\ Plausible(shades[id], doing[id]) /\ reply' = "done"
             /\ shades' = [shades EXCEPT ![id] = Calibrated(@, doing[id])]
             /\ doing' = [doing EXCEPT ![id] = Idle]
    <3>1. doing[id].leg \in Legs
      BY <2>1, <1>0, TimingLeg DEF FinishCalibration
    <3>2. PICK sh : sh = Calibrated(shades[id], doing[id]) /\ SoundShade(sh)
      BY <2>1, <2>3, <3>1, <1>0, EditsTyped DEF FinishCalibration
    <3>3. Cardinality(Busy(doing')) <= MAX_ACTIVITIES
      BY <2>3, <1>0, NoneBegins
    <3>4. doing' \in [Ids -> Activities]
      BY <2>3, <1>0
    <3>5. shades' = [i \in Ids |-> shades'[i]] /\ \A i \in Ids : shades'[i] = IF i = id THEN sh ELSE shades[i]
      BY <2>3, <3>2, <1>0
    <3> QED BY <2>1, <2>3, <3>2, <3>3, <3>4, <3>5 DEF FinishCalibration, TypedTables
  <2> QED BY <2>1, <2>2, <2>3 DEF FinishCalibration
<1>4. CASE \E id \in Ids : CancelCalibration(id)
  <2>1. PICK id \in Ids : CancelCalibration(id)
    BY <1>4
  <2>2. Cardinality(Busy(doing')) <= MAX_ACTIVITIES
    BY <2>1, <1>0, NoneBegins DEF CancelCalibration
  <2>3. doing' \in [Ids -> Activities]
    BY <2>1, <1>0 DEF CancelCalibration
  <2> QED BY <2>1, <2>2, <2>3 DEF CancelCalibration, TypedTables
<1>5. CASE \E id \in Ids, frame \in Remotes : OnRxFrame(id, frame)
  <2>1. PICK id \in Ids, frame \in Frames : OnRxFrame(id, frame)
    BY <1>5, ControllerAssumption
  <2>2. PICK sh : sh = Overheard(shades[id], frame) /\ SoundShade(sh)
    BY <2>1, <1>0, OverheardTyped DEF OnRxFrame
  <2>3. Cardinality(Busy(doing')) <= MAX_ACTIVITIES
    BY <2>1, <1>0, NoneBegins DEF OnRxFrame
  <2>4. doing' \in [Ids -> Activities]
    BY <2>1, <1>0 DEF OnRxFrame
  <2>5. \A i \in Ids : shades'[i] = IF i = id THEN sh ELSE shades[i]
    BY <2>1, <2>2, <1>0 DEF OnRxFrame
  <2>6. told' \in [Ids -> Told]
    <3>1. \A t \in Told : Hears(t, frame) \in Told
      BY DEF Hears, Told, Frames
    <3>2. PICK t \in Told : t = IF frame = "My" /\ ~Moving(Advance(shades[id]).lift)
                                THEN "recall" ELSE Hears(told[id], frame)
      BY <3>1, <1>0 DEF Told
    <3>3. told' = [told EXCEPT ![id] = t]
      BY <2>1, <3>2 DEF OnRxFrame
    <3> QED BY <3>3, <1>0
  <2>7. shades' = [i \in Ids |-> shades'[i]]
    BY <2>1, <1>0 DEF OnRxFrame
  <2> QED BY <2>1, <2>2, <2>3, <2>4, <2>5, <2>6, <2>7 DEF OnRxFrame, TypedTables
<1>6. CASE \E id \in Editable, cfg \in NewConfigs : Reconfigured(id, cfg)
  <2>1. PICK id \in Ids, cfg \in NewConfigs : Reconfigured(id, cfg)
    BY <1>6, ControllerAssumption
  <2>2. PICK sh : sh = Reconfigure(shades[id], cfg) /\ SoundShade(sh)
    BY <2>1, <1>0, EditsTyped, ControllerAssumption DEF Reconfigured
  <2>3. \A i \in Ids : shades'[i] = IF i = id THEN sh ELSE shades[i]
    BY <2>1, <2>2, <1>0 DEF Reconfigured
  <2>4. shades' = [i \in Ids |-> shades'[i]]
    BY <2>1, <1>0 DEF Reconfigured
  <2> QED BY <2>1, <2>2, <2>3, <2>4 DEF Reconfigured, TypedTables
<1>7. CASE \E id \in Removable : RemoveShade(id)
  <2>1. PICK id \in Ids : RemoveShade(id)
    BY <1>7, ControllerAssumption
  <2>2. \A i \in Ids : shades'[i] = IF i = id THEN Empty ELSE shades[i]
    BY <2>1, <1>0 DEF RemoveShade
  <2>3. shades' = [i \in Ids |-> shades'[i]]
    BY <2>1, <1>0 DEF RemoveShade
  <2> QED BY <2>1, <2>2, <2>3 DEF RemoveShade, TypedTables
<1>8. CASE \E id \in Removable : AddShade(id)
  <2>1. PICK id \in Ids, cfg \in NewConfigs :
            AddShade(id) /\ shades' = [shades EXCEPT ![id] = NewShade(cfg)]
    BY <1>8, ControllerAssumption DEF AddShade
  <2>2. PICK sh : sh = NewShade(cfg) /\ SoundShade(sh)
    BY NewIsSound
  <2>3. \A i \in Ids : shades'[i] = IF i = id THEN sh ELSE shades[i]
    BY <2>1, <2>2, <1>0
  <2>4. shades' = [i \in Ids |-> shades'[i]]
    BY <2>1, <1>0
  <2>5. told' \in [Ids -> Told]
    BY <2>1, <1>0 DEF AddShade, Told
  <2> QED BY <2>1, <2>2, <2>3, <2>4, <2>5 DEF AddShade, TypedTables
<1>9. CASE Tick
  <2> DEFINE r == [id \in Present |-> OnTick(shades[id], doing[id])]
  <2>1. ASSUME NEW id \in Present
        PROVE  /\ SoundShade(r[id].shade) /\ r[id].doing \in Activities
               /\ doing[id] = Idle => r[id].doing = Idle
               /\ HearsAll(told[id], r[id].tx) \in Told
    <3>1. SoundShade(shades[id]) /\ doing[id] \in Activities /\ told[id] \in Told
      BY <1>0
    <3> QED BY <3>1, ClockTyped
  <2>2. Ticks(r) /\ reply' = "none" /\ ticked' = TRUE
    BY <1>9 DEF Tick
  <2> HIDE DEF r
  <2>3. doing' \in [Ids -> Activities]
    BY <2>1, <2>2, <1>0 DEF Ticks
  <2>4. \A id \in Ids : doing[id] = Idle => doing'[id] = Idle
    BY <2>1, <2>2, <1>0 DEF Ticks
  <2>5. Cardinality(Busy(doing')) <= MAX_ACTIVITIES
    BY <2>4, <1>0, NoneBegins
  <2>6. told' \in [Ids -> Told]
    BY <2>1, <2>2, <1>0 DEF Ticks
  <2>7. /\ shades' = [i \in Ids |-> shades'[i]]
        /\ \A i \in Ids : shades'[i] # Empty => SoundShade(shades'[i])
    BY <2>1, <2>2, <1>0 DEF Ticks
  <2> QED BY <2>2, <2>3, <2>5, <2>6, <2>7 DEF TypedTables
<1>10. CASE TimePasses
  <2>1. ASSUME NEW id \in Present PROVE SoundShade([shades[id] EXCEPT !.lift = Elapse(@)])
    BY <1>0, EditsTyped
  <2>2. /\ shades' = [i \in Ids |-> shades'[i]]
        /\ \A i \in Ids : shades'[i] # Empty => SoundShade(shades'[i])
    BY <1>10, <2>1 DEF TimePasses
  <2>3. doing' \in [Ids -> Activities] /\ \A id \in Ids : doing[id] = Idle => doing'[id] = Idle
    BY <1>10, <1>0, LaterTyped DEF TimePasses
  <2>4. Cardinality(Busy(doing')) <= MAX_ACTIVITIES
    BY <2>3, <1>0, NoneBegins
  <2> QED BY <1>10, <2>2, <2>3, <2>4, <1>0 DEF TimePasses, TypedTables
<1>11. CASE UNCHANGED vars
  BY <1>11 DEF vars
<1> QED BY <1>1, <1>2, <1>3, <1>4, <1>5, <1>6, <1>7, <1>8, <1>9, <1>10, <1>11
     DEF Next, People, Clock

\* A new shade is sound, and nobody is busy at first.
LEMMA TypedStart == ASSUME Init PROVE TypeInv
<1>2. /\ shades = [i \in Ids |-> shades[i]]
      /\ \A id \in Ids : SoundShade(shades[id])
  BY NewIsSound DEF Init
<1>3. doing \in [Ids -> Activities]
  BY DEF Init, Activities
<1>4. Cardinality(Busy(doing)) <= MAX_ACTIVITIES
  <2>1. Busy(doing) = {}
    BY DEF Init, Busy
  <2>2. Cardinality({}) = 0
    BY FS_EmptySet
  <2> QED BY <2>1, <2>2, ControllerAssumption
<1>5. told \in [Ids -> Told]
  BY DEF Init, Told
<1> QED BY <1>2, <1>3, <1>4, <1>5 DEF Init, TypeInv, TypedTables

\* The tables are typed in every reachable state.
THEOREM ControllerTypedInvariant == Spec => []TypeInv
<1>1. Init => TypeInv
  BY TypedStart
<1>2. ControllerInv /\ TypeInv /\ [Next]_vars => TypeInv'
  BY TypedStep DEF ControllerInv
<1> QED BY <1>1, <1>2, ControllerInvariant, PTL DEF Spec

\* The registry, the table of movements and the group keep their types.
THEOREM ControllerTypes == Spec => []TypeOK
<1>1. TypeInv /\ MembersThere => TypeOK
  <2>1. SUFFICES ASSUME TypeInv, MembersThere PROVE TypeOK
    OBVIOUS
  <2>2. shades \in [Ids -> Shades \cup {Empty}]
    <3>1. \A id \in Ids : shades[id] \in Shades \cup {Empty}
      BY <2>1 DEF TypeInv, TypedTables, SoundShade
    <3> QED BY <2>1, <3>1 DEF TypeInv, TypedTables
  <2> QED BY <2>1, <2>2 DEF TypeInv, TypedTables, MembersThere, TypeOK, Busy
<1>2. ControllerInv => MembersThere
  BY DEF ControllerInv
<1> QED BY <1>1, <1>2, ControllerInvariant, ControllerTypedInvariant, PTL

-----------------------------------------------------------------------------
(* Where an estimate goes                                                  *)

\* A motion that runs longer has come further.
LEMMA CoveredGrows ==
    ASSUME NEW m \in Motions, NEW span \in Nat, NEW a \in Nat, NEW b \in Nat, a <= b
    PROVE  /\ GoingDown(m) => Covered(m, span, a) <= Covered(m, span, b)
           /\ GoingUp(m) => Covered(m, span, a) >= Covered(m, span, b)
<1>1. m.start \in Nat /\ m.target \in Nat /\ m.pos \in Nat /\ FULL \in Nat \ {0}
  BY FullAssumption DEF Motions, Positions
<1>2. PICK behind \in Int : behind = (m.start * span) \div FULL
  <2>1. PICK s \in Nat : s = m.start
    BY <1>1
  <2>2. s * span \in Nat
    BY <2>1, ProductGrows
  <2>3. (s * span) \div FULL \in Nat
    BY <2>2, <1>1, QuotientGrows
  <2> QED BY <2>1, <2>3
<1>3. ASSUME NEW x \in Int, NEW y \in Int, x >= 0, x <= y, span # 0
      PROVE  (x * FULL) \div span <= (y * FULL) \div span
             /\ (x * FULL) \div span \in Int /\ (y * FULL) \div span \in Int
  <2>1. x \in Nat /\ y \in Nat
    BY <1>3
  <2>2. x * FULL \in Nat /\ y * FULL \in Nat /\ x * FULL <= y * FULL
    BY <2>1, <1>1, <1>3, ProductGrows
  <2> QED BY <2>2, <1>3, QuotientGrows
<1>4. span - behind >= 0 /\ behind >= 0
  <2>1. PICK s \in Nat : s = m.start /\ s <= FULL
    BY <1>1, FullAssumption DEF Motions, Positions
  <2>2. s * span \in Nat /\ s * span <= FULL * span /\ FULL * span = span * FULL
    BY <2>1, <1>1, ProductGrows
  <2>3. (s * span) \div FULL \in Nat /\ (s * span) \div FULL <= span
    BY <2>2, <1>1, QuotientGrows, QuotientBound
  <2> QED BY <2>1, <2>3, <1>2
<1>5. CASE span = 0
  BY <1>1, <1>5 DEF Covered
<1>6. CASE span # 0 /\ GoingDown(m)
  <2>1. PICK x \in Int, y \in Int : x = Least(behind + a, span) /\ y = Least(behind + b, span)
    BY DEF Least
  <2>2. x >= 0 /\ x <= y
    BY <2>1, <1>4 DEF Least
  <2>3. Covered(m, span, a) = (x * FULL) \div span /\ Covered(m, span, b) = (y * FULL) \div span
    BY <1>2, <1>6, <2>1 DEF Covered
  <2>4. ~GoingUp(m)
    BY <1>1, <1>6 DEF GoingUp, GoingDown
  <2> QED BY <2>2, <2>3, <2>4, <1>3, <1>6
<1>7. CASE span # 0 /\ ~GoingDown(m)
  <2>1. PICK x \in Int, y \in Int :
            x = Least(span - behind + a, span) /\ y = Least(span - behind + b, span)
    BY DEF Least
  <2>2. x >= 0 /\ x <= y
    BY <2>1, <1>4 DEF Least
  <2>3. /\ Covered(m, span, a) = FULL - (x * FULL) \div span
        /\ Covered(m, span, b) = FULL - (y * FULL) \div span
    BY <1>2, <1>7, <2>1 DEF Covered
  <2>4. (x * FULL) \div span <= (y * FULL) \div span
        /\ (x * FULL) \div span \in Int /\ (y * FULL) \div span \in Int
    BY <2>2, <1>3, <1>7
  <2> QED BY <2>3, <2>4, <1>1, <1>7
<1> QED BY <1>5, <1>6, <1>7

\* Two motions of one run: the same way, from one start to one target.
OneRun(m, n) ==
    /\ n.start = m.start /\ n.target = m.target
    /\ GoingDown(n) = GoingDown(m) /\ GoingUp(n) = GoingUp(m)

\* Two motions of one run take the same time over the same way.
LEMMA RunTimes ==
    ASSUME NEW m, NEW n, OneRun(m, n), NEW t
    PROVE  /\ Span(n, t) = Span(m, t) /\ Dead(n, t) = Dead(m, t)
           /\ \A span, ran : Covered(n, span, ran) = Covered(m, span, ran)
<1>1. Span(n, t) = Span(m, t)
  BY DEF OneRun, Span
<1>2. Dead(n, t) = Dead(m, t)
  BY DEF OneRun, Dead
<1>3. \A span, ran : Covered(n, span, ran) = Covered(m, span, ran)
  BY DEF OneRun, Covered
<1> QED BY <1>1, <1>2, <1>3

\* A motion that has advanced and has not arrived is where it is estimated to be.
LEMMA AdvancedRun ==
    ASSUME NEW m \in Motions, NEW t \in Configs, Moving(Advanced(m, t))
    PROVE  /\ Moving(m) /\ OneRun(m, Advanced(m, t))
           /\ Advanced(m, t).pos = Estimate(m, t) /\ Advanced(m, t).elapsed = m.elapsed
           /\ Estimate(Advanced(m, t), t) = Estimate(m, t)
<1>1. /\ m.pos \in Int /\ m.target \in Int
      /\ Estimate(m, t) \in Int
  BY AdvancedMotion, FullAssumption DEF Motions, Positions
<1>2. PICK n : n = Advanced(m, t)
  OBVIOUS
<1>3. n.target = m.target /\ n.start = m.start /\ n.elapsed = m.elapsed
  BY <1>2, AdvancedMotion
<1>4. Moving(m)
  BY <1>2 DEF Advanced
<1>5. n.pos = Landed(m, Estimate(m, t))
  BY <1>2, <1>4 DEF Advanced, Motions
<1>6. n.pos # m.target
  BY <1>2, <1>3 DEF Moving
<1>7. /\ n.pos = Estimate(m, t)
      /\ GoingDown(m) => n.pos < m.target
      /\ GoingUp(m) => n.pos > m.target
  BY <1>1, <1>5, <1>6 DEF Landed
<1>8. OneRun(m, n)
  BY <1>1, <1>3, <1>4, <1>7 DEF OneRun, GoingDown, GoingUp, Moving
<1>9. Estimate(n, t) = Estimate(m, t)
  BY <1>3, <1>8, RunTimes DEF Estimate
<1> QED BY <1>2, <1>3, <1>4, <1>7, <1>8, <1>9

\* The motor was stopped, and the estimate runs on for the last start lag.
Coasting(sh) ==
    /\ Remaining(sh.lift, sh.cfg) <= sh.cfg.lag
    /\ GoingDown(sh.lift) => sh.lift.pos <= Estimate(sh.lift, sh.cfg)
    /\ GoingUp(sh.lift) => sh.lift.pos >= Estimate(sh.lift, sh.cfg)

\* Later in a run, and nearer its target, less of it remains.
LEMMA RemainingShrinks ==
    ASSUME NEW m \in Motions, NEW n \in Motions, NEW t \in Configs, OneRun(m, n),
           n.elapsed >= m.elapsed,
           Apart(n.pos, n.target) <= Apart(m.pos, m.target)
    PROVE  Remaining(n, t) <= Remaining(m, t)
<1>1. PICK span \in Nat, dead \in Nat : span = Span(m, t) /\ dead = Dead(m, t)
  BY TimesOfMotion
<1>2. span = Span(n, t) /\ dead = Dead(n, t)
  BY <1>1, RunTimes
<1>3. PICK x \in Nat, y \in Nat : x = Apart(n.pos, n.target) /\ y = Apart(m.pos, m.target)
  BY FullAssumption DEF Apart, Motions, Positions
<1>4. FULL \in Nat \ {0} /\ m.elapsed \in Nat /\ n.elapsed \in Nat
  BY FullAssumption DEF Motions
<1>5. x * span \in Nat /\ y * span \in Nat /\ x * span <= y * span
  BY <1>3, ProductGrows
<1>6. /\ (x * span) \div FULL <= (y * span) \div FULL
      /\ (x * span) \div FULL \in Nat /\ (y * span) \div FULL \in Nat
  BY <1>4, <1>5, QuotientGrows
<1>7. Less(dead, n.elapsed) <= Less(dead, m.elapsed)
      /\ Less(dead, n.elapsed) \in Nat /\ Less(dead, m.elapsed) \in Nat
  BY <1>4 DEF Less
<1>8. /\ Remaining(n, t) = Less(dead, n.elapsed) + (x * span) \div FULL
      /\ Remaining(m, t) = Less(dead, m.elapsed) + (y * span) \div FULL
  BY <1>1, <1>2, <1>3 DEF Remaining
<1> QED BY <1>6, <1>7, <1>8

\* What remains of a motion is a natural number of units of time.
LEMMA RemainingTyped == \A m \in Motions, t \in Configs : Remaining(m, t) \in Nat
<1>1. SUFFICES ASSUME NEW m \in Motions, NEW t \in Configs PROVE Remaining(m, t) \in Nat
  OBVIOUS
<1>2. PICK span \in Nat, dead \in Nat : span = Span(m, t) /\ dead = Dead(m, t)
  BY TimesOfMotion
<1>3. PICK x \in Nat : x = Apart(m.pos, m.target)
  BY FullAssumption DEF Apart, Motions, Positions
<1>4. x * span \in Nat /\ FULL \in Nat \ {0} /\ m.elapsed \in Nat
  BY <1>3, ProductGrows, FullAssumption DEF Motions
<1>5. (x * span) \div FULL \in Nat /\ Less(dead, m.elapsed) \in Nat
  BY <1>4, QuotientGrows DEF Less
<1>6. Remaining(m, t) = Less(dead, m.elapsed) + (x * span) \div FULL
  BY <1>2, <1>3 DEF Remaining
<1> QED BY <1>5, <1>6

\* A coasting shade coasts on, as time passes and as its estimate advances.
LEMMA CoastsOn ==
    ASSUME NEW sh, SoundShade(sh), Moving(sh.lift), Coasting(sh), NEW n,
           \/ n = Elapse(sh.lift)
           \/ n = Advanced(sh.lift, sh.cfg) /\ Moving(n)
    PROVE  Coasting([sh EXCEPT !.lift = n])
<1> DEFINE m == sh.lift
           t == sh.cfg
<1>0. m \in Motions /\ t \in Configs /\ sh = [sh EXCEPT !.lift = m]
  BY DEF SoundShade, Shades
<1>1. PICK x : x = [sh EXCEPT !.lift = n]
  OBVIOUS
<1>2. x.lift = n /\ x.cfg = t
  BY <1>1 DEF SoundShade, Shades
<1>3. /\ Remaining(m, t) <= t.lag
      /\ GoingDown(m) => m.pos <= Estimate(m, t)
      /\ GoingUp(m) => m.pos >= Estimate(m, t)
  BY DEF Coasting
<1>4. Moving(m)
  OBVIOUS
<1>5. /\ m.pos \in Int /\ m.target \in Int /\ m.elapsed \in Nat /\ t.lag \in Nat
      /\ Estimate(m, t) \in Int
  BY <1>0, AdvancedMotion, FullAssumption DEF Motions, Positions, Configs
<1> HIDE DEF m, t
<1>6. CASE n = Elapse(m)
  <2>1. /\ n \in Motions /\ n.pos = m.pos /\ n.target = m.target /\ n.start = m.start
        /\ n.elapsed = m.elapsed + 1
    BY <1>0, <1>4, <1>6 DEF Elapse, Motions
  <2>2. OneRun(m, n)
    BY <2>1 DEF OneRun, GoingDown, GoingUp
  <2>3. Apart(n.pos, n.target) <= Apart(m.pos, m.target) /\ n.elapsed >= m.elapsed
    BY <2>1, <1>5 DEF Apart
  <2>4. Remaining(n, t) <= Remaining(m, t)
    BY <2>1, <2>2, <2>3, <1>0, RemainingShrinks
  <2>5. PICK span \in Nat, dead \in Nat : span = Span(m, t) /\ dead = Dead(m, t)
    BY <1>0, TimesOfMotion
  <2>6. span = Span(n, t) /\ dead = Dead(n, t)
    BY <2>2, <2>5, RunTimes
  <2>7. PICK a \in Nat, b \in Nat : a = Less(m.elapsed, dead) /\ b = Less(n.elapsed, dead)
    BY <2>1, <1>5 DEF Less
  <2>8. a <= b
    BY <2>1, <2>7, <1>5 DEF Less
  <2>9. /\ GoingDown(m) => Covered(m, span, a) <= Covered(m, span, b)
        /\ GoingUp(m) => Covered(m, span, a) >= Covered(m, span, b)
    BY <2>8, <1>0, CoveredGrows
  <2>10. Estimate(m, t) = Covered(m, span, a) /\ Estimate(n, t) = Covered(m, span, b)
    BY <2>2, <2>5, <2>6, <2>7, RunTimes DEF Estimate
  <2>11. Remaining(n, t) \in Int /\ Remaining(m, t) \in Int /\ Estimate(n, t) \in Int
    BY <2>1, <1>0, RemainingTyped, AdvancedMotion, FullAssumption DEF Positions
  <2>12. Remaining(n, t) <= t.lag
    BY <2>4, <2>11, <1>3, <1>5
  <2>13. /\ GoingDown(n) => n.pos <= Estimate(n, t)
         /\ GoingUp(n) => n.pos >= Estimate(n, t)
    BY <2>1, <2>2, <2>9, <2>10, <2>11, <1>3, <1>5 DEF OneRun
  <2> QED BY <2>12, <2>13, <1>1, <1>2 DEF Coasting
<1>7. CASE n = Advanced(m, t) /\ Moving(n)
  <2>1. /\ OneRun(m, n) /\ n.pos = Estimate(m, t) /\ n.elapsed = m.elapsed
        /\ Estimate(n, t) = Estimate(m, t) /\ n \in Motions
    BY <1>0, <1>7, AdvancedRun, AdvancedMotion
  <2>2. n.pos \in Int /\ n.target = m.target
    BY <2>1, FullAssumption DEF Motions, Positions, OneRun
  <2>3. Apart(n.pos, n.target) <= Apart(m.pos, m.target) /\ n.elapsed >= m.elapsed
    <3>1. CASE GoingDown(m)
      BY <3>1, <2>1, <2>2, <1>3, <1>5 DEF Apart, GoingDown, OneRun
    <3>2. CASE GoingUp(m)
      BY <3>2, <2>1, <2>2, <1>3, <1>5 DEF Apart, GoingUp, OneRun
    <3> QED BY <3>1, <3>2, <1>4, <1>5 DEF Moving, GoingDown, GoingUp
  <2>4. Remaining(n, t) <= Remaining(m, t)
    BY <2>1, <2>3, <1>0, RemainingShrinks
  <2>5. Remaining(n, t) \in Int /\ Remaining(m, t) \in Int
    BY <2>1, <1>0, RemainingTyped
  <2>6. Remaining(n, t) <= t.lag
    BY <2>4, <2>5, <1>3, <1>5
  <2>7. n.pos = Estimate(n, t)
    BY <2>1
  <2> QED BY <2>2, <2>6, <2>7, <1>1, <1>2 DEF Coasting
<1> QED BY <1>1, <1>6, <1>7 DEF m, t

-----------------------------------------------------------------------------
(* The estimate and what the motor was told                                *)

\* The motor was told to go the way of some frames, or left to coast.
Heeds(sh, t, frames) == t \in frames \cup {"recall"} \/ (t = "My" /\ Coasting(sh))

\* An estimate goes the way its motor was told to.
Steered(sh, t) ==
    /\ GoingUp(sh.lift) => Heeds(sh, t, {"Up", "StepUp"})
    /\ GoingDown(sh.lift) => Heeds(sh, t, {"Down", "StepDown"})

\* A shade whose slats part rests closed.
Held(sh, act) == act.kind = "separating" => ~Moving(sh.lift)

\* A shade at rest goes nowhere, and only its motion and its times matter.
LEMMA SteeredAlike ==
    ASSUME NEW sh, SoundShade(sh), NEW t
    PROVE  /\ ~Moving(sh.lift) => Steered(sh, t)
           /\ \A x : x.lift = sh.lift /\ x.cfg = sh.cfg => (Steered(sh, t) => Steered(x, t))
<1>1. sh.lift.pos \in Int /\ sh.lift.target \in Int
  BY FullAssumption DEF SoundShade, Shades, Motions, Positions
<1>2. ~Moving(sh.lift) => Steered(sh, t)
  BY <1>1 DEF Moving, GoingUp, GoingDown, Steered
<1>3. ASSUME NEW x, x.lift = sh.lift, x.cfg = sh.cfg, Steered(sh, t) PROVE Steered(x, t)
  BY <1>3 DEF Steered, Heeds, Coasting
<1> QED BY <1>2, <1>3

\* A pending stop is dropped, and the shade goes on as it went.
LEMMA AbandonLift ==
    ASSUME NEW sh, SoundShade(sh)
    PROVE  Abandon(sh).lift = sh.lift /\ Abandon(sh).cfg = sh.cfg /\ Abandon(sh).armed = FALSE
<1>1. \A d : AddDoubt(sh, d).lift = sh.lift /\ IsShade(AddDoubt(sh, d))
  BY DEF AddDoubt, SoundShade, Shades, IsShade
<1>2. PICK at : at = AddDoubt(sh, Apart(sh.lift.pos, sh.lift.target))
  OBVIOUS
<1>3. [at EXCEPT !.armed = FALSE].lift = at.lift /\ [at EXCEPT !.armed = FALSE].armed = FALSE
  BY <1>1, <1>2 DEF IsShade
<1>4. sh.armed \in BOOLEAN
  BY DEF SoundShade, Shades
<1>5. Abandon(sh) = IF sh.armed THEN [at EXCEPT !.armed = FALSE] ELSE sh
  BY <1>2 DEF Abandon
<1> QED BY <1>1, <1>2, <1>3, <1>4, <1>5, SoundMoves

\* A shade that is sent to a position, by a frame that way, goes that way.
LEMMA TowardSteers ==
    ASSUME NEW sh, SoundShade(sh), NEW p \in Positions, NEW t,
           p < sh.lift.pos => t \in {"Up", "StepUp", "recall"},
           p > sh.lift.pos => t \in {"Down", "StepDown", "recall"}
    PROVE  /\ Steered(Toward(sh, p), t)
           /\ Toward(sh, p).armed = sh.armed /\ Toward(sh, p).lift = SetTarget(sh.lift, p)
<1>1. /\ sh.lift \in Motions
      /\ Toward(sh, p).lift = SetTarget(sh.lift, p) /\ Toward(sh, p).armed = sh.armed
  BY DEF SoundShade, Shades, Toward
<1>2. SetTarget(sh.lift, p).pos = sh.lift.pos /\ SetTarget(sh.lift, p).target = p
  BY <1>1 DEF SetTarget, Motions
<1>3. GoingUp(SetTarget(sh.lift, p)) => t \in {"Up", "StepUp", "recall"}
  BY <1>2, FullAssumption, <1>1 DEF GoingUp, Motions, Positions
<1>4. GoingDown(SetTarget(sh.lift, p)) => t \in {"Down", "StepDown", "recall"}
  BY <1>2 DEF GoingDown
<1> QED BY <1>1, <1>3, <1>4 DEF Steered, Heeds

\* A shade that reached a limit rests there.
LEMMA LimitRests ==
    ASSUME NEW sh, SoundShade(sh), NEW p \in Positions
    PROVE  /\ ReachLimit(sh, p).lift = Resting(p) /\ ReachLimit(sh, p).armed = sh.armed
           /\ ~Moving(ReachLimit(sh, p).lift)
<1>1. PICK at : at = [sh EXCEPT !.lift = Resting(p)]
  OBVIOUS
<1>2. at.lift = Resting(p) /\ at.armed = sh.armed /\ IsShade(at)
  BY <1>1 DEF SoundShade, Shades, IsShade
<1>3. [at EXCEPT !.doubt = 0].lift = at.lift /\ [at EXCEPT !.doubt = 0].armed = at.armed
  BY <1>2 DEF IsShade
<1>4. ReachLimit(sh, p) = [[sh EXCEPT !.lift = Resting(p)] EXCEPT !.doubt = 0]
  BY Zenon DEF ReachLimit
<1>5. ~Moving(Resting(p))
  BY DEF Moving, Resting
<1> QED BY <1>1, <1>2, <1>3, <1>4, <1>5

\* An estimate that advances goes on as it went, or arrives.
LEMMA AdvanceSteers ==
    ASSUME NEW sh, SoundShade(sh), NEW t, Steered(sh, t)
    PROVE  /\ Steered(Advance(sh), t)
           /\ Advance(sh).lift = Advanced(sh.lift, sh.cfg) /\ Advance(sh).armed = sh.armed
           /\ Moving(Advance(sh).lift) => Moving(sh.lift)
<1>1. sh.lift \in Motions /\ sh.cfg \in Configs
  BY DEF SoundShade, Shades
<1>2. PICK n \in Motions : n = Advanced(sh.lift, sh.cfg)
  BY <1>1, AdvancedMotion
<1>3. PICK x : x = [sh EXCEPT !.lift = n] /\ x = Advance(sh)
  BY <1>2 DEF Advance
<1>4. x.lift = n /\ x.cfg = sh.cfg /\ x.armed = sh.armed /\ SoundShade(x)
  BY <1>2, <1>3, SoundTick DEF SoundShade, Shades
<1>5. CASE ~Moving(n)
  BY <1>2, <1>3, <1>4, <1>5, SteeredAlike
<1>6. CASE Moving(n)
  <2>1. Moving(sh.lift) /\ OneRun(sh.lift, n)
    BY <1>1, <1>2, <1>6, AdvancedRun
  <2>2. Coasting(sh) => Coasting(x)
    BY <2>1, <1>2, <1>3, <1>6, CoastsOn
  <2>3. Steered(x, t)
    BY <2>1, <2>2, <1>4 DEF Steered, Heeds, OneRun
  <2> QED BY <2>1, <2>3, <1>2, <1>3, <1>4
<1> QED BY <1>5, <1>6

\* So does one for which time passes.
LEMMA ElapseSteers ==
    ASSUME NEW sh, SoundShade(sh), NEW t, Steered(sh, t), NEW x, x = [sh EXCEPT !.lift = Elapse(@)]
    PROVE  /\ Steered(x, t) /\ x.armed = sh.armed
           /\ Moving(x.lift) => Moving(sh.lift)
<1>1. sh.lift \in Motions /\ sh.cfg \in Configs
  BY DEF SoundShade, Shades
<1>2. PICK n \in Motions : n = Elapse(sh.lift)
  BY <1>1, MotionsMove, FullAssumption DEF Motions
<1>3. x.lift = n /\ x.cfg = sh.cfg /\ x.armed = sh.armed /\ SoundShade(x)
  BY <1>2, EditsTyped DEF SoundShade, Shades
<1>4. OneRun(sh.lift, n) /\ Moving(n) = Moving(sh.lift)
  BY <1>1, <1>2 DEF Elapse, OneRun, Motions, GoingDown, GoingUp, Moving
<1>5. CASE ~Moving(n)
  BY <1>3, <1>4, <1>5, SteeredAlike
<1>6. CASE Moving(n)
  <2>1. x = [sh EXCEPT !.lift = n]
    BY <1>2
  <2>3. Moving(sh.lift)
    BY <1>4, <1>6
  <2>2. Coasting(sh) => Coasting(x)
    BY <2>1, <2>3, <1>2, CoastsOn
  <2> QED BY <2>2, <1>3, <1>4 DEF Steered, Heeds, OneRun
<1> QED BY <1>5, <1>6

\* What a tick makes of a shade that goes the way its motor was told: it goes on,
\* coasts because the stop was sent a start lag ahead, or has arrived.
LEMMA TickSteers ==
    ASSUME NEW sh, SoundShade(sh), NEW t, Steered(sh, t)
    PROVE  /\ Steered(Ticked(sh), HearsAll(t, TickTx(sh)))
           /\ Moving(Ticked(sh).lift) => Moving(sh.lift)
           /\ Ticked(sh).armed => sh.armed /\ TickTx(sh) = << >>
           /\ TickTx(sh) # << >> => sh.armed
<1>0. sh.lift \in Motions /\ sh.cfg \in Configs /\ sh.armed \in BOOLEAN
  BY DEF SoundShade, Shades
<1>1. PICK m \in Motions : m = Advanced(sh.lift, sh.cfg)
  BY <1>0, AdvancedMotion
<1>2. PICK on : on = Advance(sh)
  OBVIOUS
<1>3. /\ SoundShade(on) /\ on.cfg = sh.cfg /\ on.lift = m /\ on.armed = sh.armed
      /\ on = [sh EXCEPT !.lift = m] /\ (Moving(m) => Moving(sh.lift))
      /\ Steered(on, t)
  BY <1>1, <1>2, SoundTick, AdvanceSteers DEF Advance
<1>4. PICK due \in BOOLEAN : due = Due(sh, m)
  BY DEF Due
<1>5. PICK off : off = Disarm(on, due)
  OBVIOUS
<1>6. /\ SoundShade(off) /\ off.cfg = sh.cfg /\ off.lift = m
      /\ off.armed = (sh.armed /\ ~due)
  <2>1. PICK b \in BOOLEAN : b = (on.armed /\ ~due)
    OBVIOUS
  <2>2. off = [on EXCEPT !.armed = b]
    BY <2>1, <1>5, Zenon DEF Disarm
  <2>3. SoundShade([on EXCEPT !.armed = b])
    BY <1>3, SoundPart
  <2>4. off.armed = b /\ off.lift = on.lift /\ off.cfg = on.cfg
    BY <2>2, <1>3 DEF SoundShade, Shades
  <2>5. b = (sh.armed /\ ~due)
    BY <2>1, <1>3
  <2> QED BY <2>2, <2>3, <2>4, <2>5, <1>3
<1>7. Ticked(sh) = IF Arrived(sh, m) THEN Arrive(off) ELSE off
  <2>1. off = Disarm([sh EXCEPT !.lift = m], Due(sh, m))
    BY <1>3, <1>4, <1>5
  <2> QED BY <2>1, <1>1, Zenon DEF Ticked, TickedTo
<1>8. TickTx(sh) = IF due /\ sh.lift.target \notin Limits THEN <<"My">> ELSE << >>
  BY <1>1, <1>4, Zenon DEF TickTx, StopTx
<1>9. due => sh.armed
  BY <1>4 DEF Due
<1>10. Arrive(off).armed = off.armed
  <2>1. \A d : AddDoubt(off, d).armed = off.armed
    BY <1>6 DEF AddDoubt, SoundShade, Shades
  <2>2. ReachLimit(off, m.pos).armed = off.armed
    BY <1>6, LimitRests DEF Motions
  <2> QED BY <2>1, <2>2, <1>6 DEF Arrive, ChargeArrival
<1>11. Ticked(sh).armed => sh.armed /\ ~due
  BY <1>6, <1>7, <1>10
<1>12. CASE Moving(m)
  <2>1. Ticked(sh) = off
    BY <1>7, <1>12 DEF Arrived
  <2>2. Steered(off, t)
    BY <1>3, <1>6, SteeredAlike
  <2>3. CASE TickTx(sh) = << >>
    BY <2>1, <2>2, <2>3, <1>3, <1>6, <1>8, <1>9, <1>11, HearsTwo
  <2>4. CASE TickTx(sh) = <<"My">> /\ due
    <3>1. Remaining(m, sh.cfg) <= sh.cfg.lag
      BY <1>4, <1>12, <2>4 DEF Due, Arrived
    <3>2. m.pos = Estimate(m, sh.cfg)
      BY <1>0, <1>1, <1>12, AdvancedRun
    <3>7. PICK pos \in Int : pos = m.pos
      BY FullAssumption DEF Motions, Positions
    <3>8. pos <= pos /\ pos >= pos
      OBVIOUS
    <3>9. m.pos <= Estimate(m, sh.cfg) /\ m.pos >= Estimate(m, sh.cfg)
      BY <3>2, <3>7, <3>8, Zenon
    <3>3. Coasting(off)
      BY <3>1, <3>9, <1>6, Zenon DEF Coasting
    <3>4. HearsAll(t, TickTx(sh)) = Hears(t, "My")
      BY <2>4, HearsTwo
    <3>5. Hears(t, "My") \in {"My", "recall"}
      BY DEF Hears
    <3>6. Steered(off, HearsAll(t, TickTx(sh)))
      BY <3>3, <3>4, <3>5 DEF Steered, Heeds
    <3> QED BY <2>1, <3>6, <1>3, <1>6, <1>8, <1>9, <1>11, <1>12
  <2> QED BY <2>3, <2>4, <1>8
<1>13. CASE ~Moving(m)
  <2>1. SoundShade(Ticked(sh))
    BY SoundTick
  <2>2. ~Moving(Ticked(sh).lift)
    <3>1. \A d : AddDoubt(off, d).lift = off.lift
      BY <1>6 DEF AddDoubt, SoundShade, Shades
    <3>2. ~Moving(ReachLimit(off, m.pos).lift)
      BY <1>6, LimitRests DEF Motions
    <3>3. ~Moving(Arrive(off).lift)
      BY <3>1, <3>2, <1>6, <1>13 DEF Arrive, ChargeArrival
    <3> QED BY <3>3, <1>6, <1>7, <1>13
  <2>3. Steered(Ticked(sh), HearsAll(t, TickTx(sh)))
    BY <2>1, <2>2, SteeredAlike
  <2> QED BY <2>2, <2>3, <1>8, <1>9, <1>11
<1> QED BY <1>12, <1>13

-----------------------------------------------------------------------------
(* What people ask of a shade                                              *)

\* What the clock will continue was begun: a stop ends a run up or down, slats part
\* after a run down, and an anchored seek turns at the limit it was sent to.
Begun(sh, act, t) ==
    /\ sh.armed => t \in {"Up", "Down"}
    /\ act.kind = "closing" => t = "Down"
    /\ act.kind = "separating" => t = "Up"
    /\ act.kind = "anchoring" => t = IF act.limit = 0 THEN "Up" ELSE "Down"

\* Of any shade, whatever its motor was told, a tick keeps the stop or sends it.
LEMMA TickStops ==
    ASSUME NEW sh, SoundShade(sh)
    PROVE  /\ Moving(Ticked(sh).lift) => Moving(sh.lift)
           /\ Ticked(sh).armed => sh.armed /\ TickTx(sh) = << >>
           /\ TickTx(sh) # << >> => sh.armed
<1>1. Steered(sh, "recall")
  BY DEF Steered, Heeds
<1> QED BY <1>1, TickSteers

\* What a command yields keeps the estimate and the movement with the motor.
Leads(sh, t, o) ==
    /\ Steered(sh, t) => Steered(o.shade, HearsAll(t, o.tx))
    /\ o.doing.kind # "separating"
    /\ (sh.armed => t \in {"Up", "Down"}) => Begun(o.shade, o.doing, HearsAll(t, o.tx))

\* What the motor makes of each frame on its own.
LEMMA HearsOne ==
    \A t : /\ HearsAll(t, << >>) = t
           /\ \A f \in {"Up", "Down", "StepUp", "StepDown"} : HearsAll(t, <<f>>) = f
           /\ HearsAll(t, <<"Prog">>) = t
           /\ HearsAll(t, <<"My">>) = IF t \in {"My", "nothing"} THEN "recall" ELSE "My"
<1> SUFFICES ASSUME NEW t
             PROVE  /\ HearsAll(t, << >>) = t
                    /\ \A f \in {"Up", "Down", "StepUp", "StepDown"} : HearsAll(t, <<f>>) = f
                    /\ HearsAll(t, <<"Prog">>) = t
                    /\ HearsAll(t, <<"My">>) = IF t \in {"My", "nothing"} THEN "recall" ELSE "My"
  OBVIOUS
<1>1. HearsAll(t, << >>) = t
  BY HearsTwo
<1>2. \A f \in {"Up", "Down", "StepUp", "StepDown"} : Hears(t, f) = f
  BY DEF Hears
<1>3. Hears(t, "Prog") = t /\ Hears(t, "My") = IF t \in {"My", "nothing"} THEN "recall" ELSE "My"
  BY DEF Hears
<1>4. \A f : HearsAll(t, <<f>>) = Hears(t, f)
  BY HearsTwo
<1> QED BY <1>1, <1>2, <1>3, <1>4

\* Nothing is sent, and the shade goes on.
LEMMA NothingLeads ==
    ASSUME NEW sh, SoundShade(sh), NEW t, NEW x, x.lift = sh.lift, x.cfg = sh.cfg, x.armed = sh.armed
    PROVE  Leads(sh, t, Done(x, << >>, Idle))
<1>1. PICK o : o = Done(x, << >>, Idle)
  OBVIOUS
<1>2. o.shade = x /\ o.tx = << >> /\ o.doing = Idle
  BY <1>1 DEF Done
<1>3. HearsAll(t, o.tx) = t
  BY <1>2, HearsOne
<1>4. Steered(sh, t) => Steered(x, t)
  BY SteeredAlike
<1>5. Idle.kind = "idle"
  BY DEF Idle
<1> QED BY <1>1, <1>2, <1>3, <1>4, <1>5 DEF Leads, Begun

\* A seek sends the frame of the way it takes.
LEMMA SeekLeads ==
    ASSUME NEW sh, SoundShade(sh), NEW p \in Positions, NEW t
    PROVE  /\ Leads(sh, t, Seek(sh, p))
           /\ HearsAll(t, Seek(sh, p).tx) = IF sh.lift.pos = p THEN t
                                            ELSE IF p > sh.lift.pos THEN "Down" ELSE "Up"
           /\ Seek(sh, p).doing = Idle
<1>0. sh.lift.pos \in Int /\ p \in Int
  BY FullAssumption DEF SoundShade, Shades, Motions, Positions
<1>1. CASE sh.lift.pos = p
  <2>1. Seek(sh, p) = Done(sh, << >>, Idle)
    BY <1>1 DEF Seek
  <2>2. Leads(sh, t, Seek(sh, p))
    BY <2>1, NothingLeads
  <2>3. Seek(sh, p).tx = << >> /\ Seek(sh, p).doing = Idle
    BY <2>1 DEF Done
  <2> QED BY <2>2, <2>3, <1>1, HearsOne
<1>2. CASE sh.lift.pos # p
  <2>1. PICK f \in {"Up", "Down"} : f = IF p > sh.lift.pos THEN "Down" ELSE "Up"
    OBVIOUS
  <2>2. PICK to : to = Toward(sh, p) /\ SoundShade(to)
    BY SoundMoves
  <2>3. Steered(to, f)
    BY <2>1, <2>2, <1>0, TowardSteers
  <2>4. PICK on : on = [to EXCEPT !.armed = TRUE]
    OBVIOUS
  <2>5. on.lift = to.lift /\ on.cfg = to.cfg
    BY <2>2, <2>4 DEF SoundShade, Shades
  <2>6. Steered(on, f)
    BY <2>2, <2>3, <2>5, SteeredAlike
  <2>7. Seek(sh, p) = Done(on, <<f>>, Idle)
    BY <2>1, <2>2, <2>4, <1>2 DEF Seek
  <2>8. PICK o : o = Seek(sh, p) /\ o.shade = on /\ o.tx = <<f>> /\ o.doing = Idle
    BY <2>7 DEF Done
  <2>9. HearsAll(t, o.tx) = f
    BY <2>8, HearsOne
  <2>10. Idle.kind = "idle"
    BY DEF Idle
  <2>11. Leads(sh, t, o)
    BY <2>6, <2>8, <2>9, <2>10 DEF Leads, Begun
  <2> QED BY <2>1, <2>8, <2>9, <2>11, <1>2
<1> QED BY <1>1, <1>2

\* So does one that goes by way of a limit, and says which in its movement.
LEMMA SeekReliablyLeads ==
    ASSUME NEW sh, SoundShade(sh), NEW p \in Positions, NEW t
    PROVE  Leads(sh, t, SeekReliably(sh, p))
<1>0. sh.lift.pos \in 0..FULL /\ FULL \in Nat \ {0} /\ 0 \in Positions /\ FULL \in Positions
  BY FullAssumption DEF SoundShade, Shades, Motions, Positions
<1>1. CASE ~Routes(sh, p)
  BY <1>1, SeekLeads DEF SeekReliably
<1>2. CASE Routes(sh, p)
  <2>1. PICK open : open = ViaOpen(sh.cfg, p)
    OBVIOUS
  <2>2. PICK limit \in Positions : limit = IF open THEN 0 ELSE FULL
    BY <1>0
  <2>3. PICK f \in {"Up", "Down"} : f = IF open THEN "Up" ELSE "Down"
    OBVIOUS
  <2>4. PICK to : to = Toward(sh, limit) /\ SoundShade(to)
    BY SoundMoves
  <2>5. Steered(to, f)
    BY <2>2, <2>3, <2>4, <1>0, TowardSteers
  <2>6. PICK on : on = [to EXCEPT !.armed = FALSE]
    OBVIOUS
  <2>7. on.lift = to.lift /\ on.cfg = to.cfg /\ on.armed = FALSE
    BY <2>4, <2>6 DEF SoundShade, Shades
  <2>8. Steered(on, f)
    BY <2>4, <2>5, <2>7, SteeredAlike
  <2>9. PICK w : w = IF open THEN sh.cfg.up ELSE sh.cfg.down
    OBVIOUS
  <2>10. SeekReliably(sh, p) = Done(on, <<f>>, Anchoring(w, limit, p))
    BY <2>1, <2>2, <2>3, <2>4, <2>6, <2>9, <1>2, Zenon DEF SeekReliably
  <2>11. PICK o : /\ o = SeekReliably(sh, p) /\ o.shade = on /\ o.tx = <<f>>
                  /\ o.doing = Anchoring(w, limit, p)
    BY <2>10 DEF Done
  <2>12. HearsAll(t, o.tx) = f
    BY <2>11, HearsOne
  <2>13. o.doing.kind = "anchoring" /\ o.doing.limit = limit
    BY <2>11 DEF Anchoring
  <2>14. f = IF limit = 0 THEN "Up" ELSE "Down"
    BY <2>2, <2>3, <1>0
  <2> QED BY <2>7, <2>8, <2>11, <2>12, <2>13, <2>14 DEF Leads, Begun
<1> QED BY <1>1, <1>2

\* A press of My, a step, and a run to a limit.
LEMMA PressLeads == ASSUME NEW sh, SoundShade(sh), NEW t PROVE Leads(sh, t, PressMy(sh))
<1>1. CASE Moving(sh.lift)
  <2>1. PICK gone : gone = Abandon(sh)
    OBVIOUS
  <2>2. SoundShade(gone) /\ gone.armed = FALSE /\ gone.cfg = sh.cfg /\ gone.lift = sh.lift
    BY <2>1, SoundMoves, AbandonLift
  <2>3. gone.lift \in Motions /\ gone.cfg \in Configs
    BY <2>2 DEF SoundShade, Shades
  <2>4. PICK m \in Motions : m = Halt(gone.lift, gone.cfg)
    BY <2>3, MotionsMove, FullAssumption DEF Motions
  <2>5. ~Moving(m)
    BY <2>3, <2>4 DEF Moving, Halt, HaltAt, Motions
  <2>6. PICK x : x = [gone EXCEPT !.lift = m] /\ SoundShade(x)
    BY <2>2, SoundPart
  <2>7. x.lift = m /\ x.armed = FALSE
    BY <2>2, <2>6 DEF SoundShade, Shades
  <2>8. \A h : Steered(x, h)
    BY <2>5, <2>6, <2>7, SteeredAlike
  <2>9. PressMy(sh) = Done(x, <<"My">>, Idle)
    <3>1. PressMy(sh) = IF Moving(sh.lift) THEN Done([gone EXCEPT !.lift = m], <<"My">>, Idle)
                        ELSE IF sh.fav # NoFav THEN SeekReliably(sh, sh.fav)
                        ELSE Done(sh, << >>, Idle)
      <4>1. gone.cfg = sh.cfg
        BY <2>2
      <4> QED BY <4>1, <2>1, <2>4, Zenon DEF PressMy
    <3> QED BY <3>1, <2>6, <1>1
  <2>10. PressMy(sh).shade = x /\ PressMy(sh).doing.kind = "idle"
    BY <2>9 DEF Done, Idle
  <2> QED BY <2>7, <2>8, <2>10 DEF Leads, Begun
<1>2. CASE ~Moving(sh.lift) /\ sh.fav # NoFav
  <2>1. sh.fav \in Positions
    BY <1>2 DEF SoundShade, Shades
  <2> QED BY <2>1, <1>2, SeekReliablyLeads DEF PressMy
<1>3. CASE ~Moving(sh.lift) /\ sh.fav = NoFav
  BY <1>3, NothingLeads DEF PressMy
<1> QED BY <1>1, <1>2, <1>3

\* A step aims above or below where the shade is.
LEMMA StepAims ==
    ASSUME NEW sh, SoundShade(sh), NEW up \in BOOLEAN
    PROVE  \E p \in Positions :
              /\ StepTarget(sh, up) = Toward(sh, p)
              /\ up => p <= sh.lift.pos
              /\ ~up => p >= sh.lift.pos
<1>1. sh.cfg \in Configs /\ sh.lift.pos \in Positions /\ FULL \in Nat \ {0}
  BY FullAssumption DEF SoundShade, Shades, Motions
<1>2. PICK travel \in Nat \ {0} : travel = IF up THEN sh.cfg.up ELSE sh.cfg.down
  BY <1>1, ShadeAssumption DEF Configs
<1>3. FULL * STEP_TRAVEL \in Nat
  BY <1>1, ShadeAssumption
<1>4. (FULL * STEP_TRAVEL) \div travel \in Nat
  BY <1>2, <1>3, QuotientGrows
<1>5. PICK step \in Nat : step = Least((FULL * STEP_TRAVEL) \div travel, FULL)
  BY <1>4, <1>1 DEF Least
<1>6. PICK p \in Positions :
          /\ p = IF up THEN Less(sh.lift.pos, step) ELSE Least(sh.lift.pos + step, FULL)
          /\ up => p <= sh.lift.pos
          /\ ~up => p >= sh.lift.pos
  BY <1>1 DEF Less, Least, Positions
<1>7. StepTarget(sh, up) = Toward(sh, p)
  BY <1>2, <1>5, <1>6, Zenon DEF StepTarget
<1> QED BY <1>6, <1>7

\* A step moves the estimate the way of its frame.
LEMMA StepLeads ==
    ASSUME NEW sh, SoundShade(sh), NEW up \in BOOLEAN, NEW t
    PROVE  Leads(sh, t, Step(sh, up))
<1>1. PICK f \in {"StepUp", "StepDown"} : f = IF up THEN "StepUp" ELSE "StepDown"
  OBVIOUS
<1>2. CASE ~Carries(sh.cfg, f)
  <2>1. Step(sh, up) = Done(sh, << >>, Idle)
    BY <1>1, <1>2, Zenon DEF Step
  <2> QED BY <2>1, NothingLeads
<1>3. CASE Carries(sh.cfg, f)
  <2>1. PICK gone : gone = Abandon(sh) /\ SoundShade(gone) /\ gone.armed = FALSE
    BY SoundMoves, AbandonLift
  <2>2. PICK p \in Positions :
            /\ StepTarget(gone, up) = Toward(gone, p)
            /\ up => p <= gone.lift.pos
            /\ ~up => p >= gone.lift.pos
    BY <2>1, StepAims
  <2>3. gone.lift.pos \in Int /\ p \in Int
    BY <2>1, FullAssumption DEF SoundShade, Shades, Motions, Positions
  <2>4. Steered(Toward(gone, p), f) /\ Toward(gone, p).armed = FALSE
    BY <2>1, <2>2, <2>3, <1>1, TowardSteers
  <2>5. Step(sh, up) = Done(Toward(gone, p), <<f>>, Idle)
    BY <2>1, <2>2, <1>1, <1>3, Zenon DEF Step
  <2>6. PICK o : /\ o = Step(sh, up) /\ o.shade = Toward(gone, p) /\ o.tx = <<f>>
                 /\ o.doing.kind = "idle"
    BY <2>5 DEF Done, Idle
  <2>7. HearsAll(t, o.tx) = f
    BY <2>6, HearsOne
  <2> QED BY <2>4, <2>6, <2>7 DEF Leads, Begun
<1> QED BY <1>2, <1>3

\* A run to a limit drops the stop that was pending, and the table has its movement.
LEMMA RunLeads ==
    ASSUME NEW sh, SoundShade(sh), NEW leg \in Legs, NEW act, NEW t,
           act.kind \in {"idle", "timing"} \/ (act.kind = "closing" /\ leg = "Down")
    PROVE  Leads(sh, t, Run(sh, leg, act))
<1>1. PICK gone : gone = Abandon(sh) /\ SoundShade(gone) /\ gone.armed = FALSE
  BY SoundMoves, AbandonLift
<1>2. PICK p \in Positions : p = Limit(leg)
  BY FullAssumption DEF Limit, Positions
<1>3. gone.lift.pos \in 0..FULL /\ FULL \in Nat
  BY <1>1, FullAssumption DEF SoundShade, Shades, Motions, Positions
<1>4. Steered(Toward(gone, p), leg) /\ Toward(gone, p).armed = FALSE
  BY <1>1, <1>2, <1>3, TowardSteers DEF Limit, Legs
<1>7. Run(sh, leg, act) = Done(Toward(gone, p), <<leg>>, act)
  BY <1>1, <1>2, Zenon DEF Run
<1>5. PICK o : /\ o = Run(sh, leg, act) /\ o.shade = Toward(gone, p) /\ o.tx = <<leg>>
               /\ o.doing = act
  BY <1>7 DEF Done
<1>6. HearsAll(t, o.tx) = leg
  BY <1>5, HearsOne DEF Legs
<1> QED BY <1>4, <1>5, <1>6 DEF Leads, Begun

\* Whatever is asked.
LEMMA ObeyLeads ==
    ASSUME NEW sh, SoundShade(sh), NEW cmd \in ShadeCommands, NEW t
    PROVE  Leads(sh, t, Obey(sh, cmd))
<1>1. CASE cmd.kind \in {"Up", "Down"}
  <2>1. Obey(sh, cmd) = Run(sh, cmd.kind, Idle)
    BY <1>1 DEF Obey, Legs
  <2>2. Idle.kind = "idle" /\ cmd.kind \in Legs
    BY <1>1 DEF Idle, Legs
  <2> QED BY <2>1, <2>2, RunLeads
<1>2. CASE cmd.kind = "Vent"
  <2>1. Obey(sh, cmd) = Run(sh, "Down", Closing(sh.cfg.down))
    BY <1>2 DEF Obey, Legs
  <2>2. PICK act : act = Closing(sh.cfg.down)
    OBVIOUS
  <2>4. act.kind = "closing"
    BY <2>2 DEF Closing
  <2>3. Leads(sh, t, Run(sh, "Down", act))
    BY <2>4, RunLeads DEF Legs
  <2> QED BY <2>1, <2>2, <2>3
<1>3. CASE cmd.kind = "My"
  BY <1>3, PressLeads DEF Obey, Legs
<1>4. CASE cmd.kind = "GoTo"
  <2>1. Obey(sh, cmd) = SeekReliably(sh, cmd.pos) /\ cmd.pos \in Positions
    BY <1>4 DEF Obey, Legs, ShadeCommands
  <2> QED BY <2>1, SeekReliablyLeads
<1>5. CASE cmd.kind \in {"StepUp", "StepDown"}
  <2>1. Obey(sh, cmd) = Step(sh, cmd.kind = "StepUp")
    BY <1>5, Zenon DEF Obey, Legs
  <2>2. (cmd.kind = "StepUp") \in BOOLEAN
    OBVIOUS
  <2> QED BY <2>1, <2>2, StepLeads
<1>6. CASE cmd.kind = "SetMy"
  <2>1. PICK x : x = [sh EXCEPT !.fav = cmd.pos]
    OBVIOUS
  <2>2. x.lift = sh.lift /\ x.cfg = sh.cfg /\ x.armed = sh.armed
    BY <2>1 DEF SoundShade, Shades
  <2>3. Obey(sh, cmd) = Done(x, << >>, Idle)
    BY <2>1, <1>6 DEF Obey, Legs
  <2> QED BY <2>2, <2>3, NothingLeads
<1>7. CASE cmd.kind = "Pair"
  <2>1. PICK gone : gone = Abandon(sh)
    OBVIOUS
  <2>2. gone.lift = sh.lift /\ gone.cfg = sh.cfg /\ gone.armed = FALSE
    BY <2>1, AbandonLift
  <2>3. Obey(sh, cmd) = Done(gone, <<"Prog">>, Idle)
    BY <2>1, <1>7 DEF Obey, Legs
  <2>4. PICK o : /\ o = Obey(sh, cmd) /\ o.shade = gone /\ o.tx = <<"Prog">>
                 /\ o.doing.kind = "idle"
    BY <2>3 DEF Done, Idle
  <2>5. HearsAll(t, o.tx) = t
    BY <2>4, HearsOne
  <2>6. Steered(sh, t) => Steered(gone, t)
    BY <2>2, SteeredAlike
  <2> QED BY <2>2, <2>4, <2>5, <2>6 DEF Leads, Begun
<1>8. CASE cmd.kind = "Calibrate"
  <2>1. Obey(sh, cmd) = Run(sh, cmd.leg, Timing(cmd.leg)) /\ cmd.leg \in Legs
    BY <1>8 DEF Obey, ShadeCommands, Legs
  <2>2. PICK act : act = Timing(cmd.leg)
    OBVIOUS
  <2>4. act.kind = "timing"
    BY <2>2 DEF Timing
  <2>3. Leads(sh, t, Run(sh, cmd.leg, act))
    BY <2>1, <2>4, RunLeads
  <2> QED BY <2>1, <2>2, <2>3
<1> QED BY <1>1, <1>2, <1>3, <1>4, <1>5, <1>6, <1>7, <1>8 DEF ShadeCommands

\* A command is obeyed after what the tick would have done by now.
LEMMA HandleLeads ==
    ASSUME NEW sh, SoundShade(sh), NEW cmd \in ShadeCommands, NEW t
    PROVE  Leads(sh, t, Handle(sh, cmd))
<1>1. PICK on : on = Ticked(sh) /\ SoundShade(on)
  BY SoundTick
<1>2. PICK stop \in {<< >>, <<"My">>} : stop = TickTx(sh)
  BY SoundTick
<1>3. PICK o : o = Obey(on, cmd) /\ Yields(on, o)
  BY <1>1, ObeyTyped
<1>4. PICK plan \in Plans : plan = o.tx
  BY <1>3 DEF Yields
<1>5. PICK r : r = Handle(sh, cmd)
  OBVIOUS
<1>6. r = [o EXCEPT !.tx = stop \o @]
  BY <1>1, <1>2, <1>3, <1>5 DEF Handle
<1>7. r.shade = o.shade /\ r.doing = o.doing /\ r.tx = stop \o plan
  BY <1>3, <1>4, <1>6 DEF Yields, Done
<1>8. PICK u : u = HearsAll(t, stop)
  OBVIOUS
<1>9. HearsAll(t, r.tx) = HearsAll(u, o.tx)
  <2>1. HearsAll(t, stop \o plan) = HearsAll(HearsAll(t, stop), plan)
    BY HearsStop
  <2> QED BY <2>1, <1>4, <1>7, <1>8, Zenon
<1>10. Leads(on, u, o)
  BY <1>1, <1>3, ObeyLeads
<1>11. Steered(sh, t) => Steered(on, u)
  BY <1>1, <1>2, <1>8, TickSteers
<1>12. on.armed => sh.armed /\ u = t
  <2>1. Ticked(sh).armed => sh.armed /\ TickTx(sh) = << >>
    BY TickStops
  <2> QED BY <2>1, <1>1, <1>2, <1>8, HearsOne
<1> QED BY <1>5, <1>7, <1>9, <1>10, <1>11, <1>12 DEF Leads

-----------------------------------------------------------------------------
(* What the clock does to a shade                                          *)

\* The next leg of a movement continues what was begun.
LEMMA NextLegLeads ==
    ASSUME NEW sh, SoundShade(sh), NEW act \in Activities, NEW t, NEW o, o = NextLeg(sh, act),
           Held(sh, act)
    PROVE  /\ Steered(sh, t) => Steered(o.shade, HearsAll(t, o.tx))
           /\ Held(o.shade, o.doing)
           /\ Begun(sh, act, t) /\ (sh.armed => act = Idle) => Begun(o.shade, o.doing, HearsAll(t, o.tx))
           /\ Begun(sh, act, t) /\ HearsAll(t, o.tx) # t => <<t, HearsAll(t, o.tx)>> \in Continues
           /\ act = Idle => HearsAll(t, o.tx) = t
<1>0. FULL \in Positions /\ 0 \in Positions /\ FULL \in Nat \ {0}
  BY FullAssumption DEF Positions
<1>1. CASE NextLeg(sh, act) = Done(sh, << >>, act)
  <2>1. o.shade = sh /\ o.tx = << >> /\ o.doing = act
    BY <1>1 DEF Done
  <2>2. HearsAll(t, o.tx) = t
    BY <2>1, HearsOne
  <2> QED BY <2>1, <2>2
<1>2. CASE ~(Waiting(act) /\ act.wait > 0) /\ act.kind = "closing"
  <2>1. PICK w : w = sh.cfg.lag + sh.cfg.vent
    OBVIOUS
  <2>2. NextLeg(sh, act) = Done(ReachLimit(sh, FULL), <<"Up">>, Separating(w))
    BY <1>2, <2>1 DEF NextLeg
  <2>3. PICK x : x = ReachLimit(sh, FULL) /\ SoundShade(x) /\ ~Moving(x.lift) /\ x.armed = sh.armed
    BY <1>0, LimitRests, SoundMoves
  <2>4. o.shade = x /\ o.tx = <<"Up">> /\ o.doing = Separating(w)
    BY <2>2, <2>3 DEF Done
  <2>5. HearsAll(t, o.tx) = "Up"
    BY <2>4, HearsOne
  <2>6. o.doing.kind = "separating"
    BY <2>4 DEF Separating
  <2>7. Steered(x, "Up") /\ act # Idle
    BY <2>3, <1>2, SteeredAlike DEF Idle
  <2> QED BY <2>3, <2>4, <2>5, <2>6, <2>7, <1>2 DEF Held, Begun, Continues
<1>3. CASE ~(Waiting(act) /\ act.wait > 0) /\ act.kind = "separating"
  <2>1. NextLeg(sh, act) = Done(sh, <<"My">>, Idle)
    BY <1>3 DEF NextLeg
  <2>2. o.shade = sh /\ o.tx = <<"My">> /\ o.doing = Idle /\ Idle.kind = "idle"
    BY <2>1 DEF Done, Idle
  <2>3. ~Moving(sh.lift)
    BY <1>3 DEF Held
  <2>4. Steered(sh, HearsAll(t, o.tx)) /\ act # Idle
    BY <2>3, <1>3, SteeredAlike DEF Idle
  <2>5. t = "Up" => HearsAll(t, o.tx) = "My"
    BY <2>2, HearsOne
  <2> QED BY <2>2, <2>4, <2>5, <1>3 DEF Held, Begun, Continues
<1>4. CASE ~(Waiting(act) /\ act.wait > 0) /\ act.kind = "anchoring"
  <2>1. act.limit \in Limits /\ act.limit \in Positions /\ act.target \in Positions
    <3>1. PICK w \in 0..MAX_TRAVEL, l \in Limits, p \in Positions : act = Anchoring(w, l, p)
      BY <1>4 DEF Activities, Idle, Closing, Separating, Anchoring
    <3> QED BY <3>1, <1>0 DEF Anchoring, Limits
  <2>2. PICK at : /\ at = ReachLimit(sh, act.limit) /\ SoundShade(at) /\ ~Moving(at.lift)
                  /\ at.lift = Resting(act.limit) /\ at.armed = sh.armed
    BY <2>1, LimitRests, SoundMoves
  <2>3. at.lift.pos = act.limit
    BY <2>2 DEF Resting
  <2>4. o = Seek(at, act.target)
    BY <1>4, <2>2 DEF NextLeg
  <2>5. /\ Leads(at, t, o) /\ o.doing = Idle
        /\ HearsAll(t, o.tx) = IF act.limit = act.target THEN t
                               ELSE IF act.target > act.limit THEN "Down" ELSE "Up"
    BY <2>1, <2>2, <2>3, <2>4, SeekLeads
  <2>6. Steered(at, t) /\ act # Idle
    BY <2>2, <1>4, SteeredAlike DEF Idle
  <2>7. Begun(sh, act, t) /\ HearsAll(t, o.tx) # t => <<t, HearsAll(t, o.tx)>> \in Continues
    BY <2>1, <2>5, <1>0, <1>4 DEF Begun, Continues, Limits, Positions
  <2>8. Held(o.shade, o.doing)
    BY <2>5 DEF Leads, Held
  <2>9. Begun(sh, act, t) => Begun(o.shade, o.doing, HearsAll(t, o.tx))
    BY <2>2, <2>5 DEF Leads, Begun
  <2> QED BY <2>5, <2>6, <2>7, <2>8, <2>9 DEF Leads
<1>5. CASE Waiting(act) /\ act.wait > 0
  BY <1>1, <1>5 DEF NextLeg
<1>6. CASE ~(Waiting(act) /\ act.wait > 0) /\ act.kind \notin {"closing", "separating", "anchoring"}
  BY <1>1, <1>6 DEF NextLeg
<1> QED BY <1>2, <1>3, <1>4, <1>5, <1>6

\* A tick of a shade with its movement.
LEMMA ClockLeads ==
    ASSUME NEW sh, SoundShade(sh), NEW act \in Activities, NEW t \in Told, Held(sh, act),
           sh.armed => act = Idle, NEW r, r = OnTick(sh, act), NEW u, u = HearsAll(t, r.tx)
    PROVE  /\ Steered(sh, t) => Steered(r.shade, u)
           /\ Held(r.shade, r.doing)
           /\ Begun(sh, act, t) => Begun(r.shade, r.doing, u)
           /\ Begun(sh, act, t) /\ u # t => <<t, u>> \in Continues
<1>0. PICK stop \in {<< >>, <<"My">>} : \E o :
          /\ stop = TickTx(sh) /\ o = NextLeg(Ticked(sh), act)
          /\ r.shade = o.shade /\ r.doing = o.doing
          /\ HearsAll(t, r.tx) = HearsAll(HearsAll(t, stop), o.tx)
  BY ClockTyped
<1>1. PICK on : on = Ticked(sh) /\ SoundShade(on)
  BY SoundTick
<1>2. PICK o :
          /\ stop = TickTx(sh) /\ o = NextLeg(Ticked(sh), act)
          /\ r.shade = o.shade /\ r.doing = o.doing
          /\ HearsAll(t, r.tx) = HearsAll(HearsAll(t, stop), o.tx)
  BY <1>0
<1>3. PICK h : h = HearsAll(t, stop)
  OBVIOUS
<1>4. /\ on.armed => sh.armed /\ h = t
      /\ h # t => sh.armed /\ stop = <<"My">>
      /\ Moving(on.lift) => Moving(sh.lift)
  BY <1>1, <1>2, <1>3, TickStops, HearsOne
<1>5. Steered(sh, t) => Steered(on, h)
  BY <1>1, <1>2, <1>3, TickSteers
<1>6. Held(on, act) /\ (on.armed => act = Idle)
  BY <1>4 DEF Held
<1>7. /\ Steered(on, h) => Steered(o.shade, u)
      /\ Held(o.shade, o.doing)
      /\ Begun(on, act, h) => Begun(o.shade, o.doing, u)
      /\ Begun(on, act, h) /\ u # h => <<h, u>> \in Continues
      /\ act = Idle => u = h
  BY <1>1, <1>2, <1>3, <1>6, NextLegLeads
<1>8. Begun(sh, act, t) => Begun(on, act, h)
  <2>1. act # Idle => h = t
    BY <1>4
  <2>2. Idle.kind = "idle"
    BY DEF Idle
  <2> QED BY <2>1, <2>2, <1>4 DEF Begun
<1>9. Begun(sh, act, t) /\ h # t => <<t, h>> \in Continues /\ act = Idle
  <2>1. SUFFICES ASSUME Begun(sh, act, t), h # t PROVE <<t, h>> \in Continues /\ act = Idle
    OBVIOUS
  <2>2. t \in {"Up", "Down"} /\ stop = <<"My">> /\ act = Idle
    BY <2>1, <1>4 DEF Begun
  <2>3. h = "My"
    BY <2>2, <1>3, HearsOne
  <2> QED BY <2>2, <2>3 DEF Continues
<1> QED BY <1>2, <1>5, <1>7, <1>8, <1>9

-----------------------------------------------------------------------------
(* Remotes and edits                                                       *)

\* What a motor is told by its wall remote: a My finds it at rest, or stops it.
Overhears(sh, frame, t) ==
    IF frame = "My" /\ ~Moving(Advance(sh).lift) THEN "recall" ELSE Hears(t, frame)

\* The estimate follows a frame that the motor has already.
LEMMA OverheardLeads ==
    ASSUME NEW sh, SoundShade(sh), NEW frame \in Frames, NEW t
    PROVE  /\ Steered(sh, t) => Steered(Overheard(sh, frame), Overhears(sh, frame, t))
           /\ Overheard(sh, frame).armed = FALSE
<1>1. PICK on : on = Advance(sh) /\ SoundShade(on)
  BY SoundTick
<1>2. PICK own : own = Abandon(on)
  OBVIOUS
<1>3. SoundShade(own) /\ own.lift = on.lift /\ own.cfg = on.cfg /\ own.armed = FALSE
  BY <1>1, <1>2, SoundMoves, AbandonLift
<1>4. PICK new : new = Overheard(sh, frame)
  OBVIOUS
<1>5. new = Follow(own, frame)
  BY <1>1, <1>2, <1>4 DEF Overheard
<1>6. Steered(sh, t) => Steered(own, t)
  BY <1>1, <1>3, AdvanceSteers, SteeredAlike
<1>7. own.lift \in Motions /\ own.cfg \in Configs /\ own.lift.pos \in 0..FULL /\ FULL \in Nat
  BY <1>3, FullAssumption DEF SoundShade, Shades, Motions, Positions
<1>8. PICK u : u = Overhears(sh, frame, t)
  OBVIOUS
<1>9. u = IF frame = "My" /\ ~Moving(own.lift) THEN "recall" ELSE Hears(t, frame)
  BY <1>1, <1>3, <1>8, SMTT(60) DEF Overhears
<1>10. CASE frame \in {"Up", "Down"}
  <2>1. PICK p \in Positions : p = Limit(frame)
    BY <1>7, FullAssumption DEF Limit, Positions
  <2>2. new = Toward(own, p)
    BY <2>1, <1>5, <1>10 DEF Follow, Legs
  <2>3. u = frame
    BY <1>9, <1>10 DEF Hears
  <2>4. Steered(Toward(own, p), frame) /\ Toward(own, p).armed = FALSE
    BY <2>1, <1>3, <1>7, <1>10, TowardSteers DEF Limit
  <2> QED BY <2>2, <2>3, <2>4, <1>4, <1>8, Zenon
<1>11. CASE frame = "My" /\ Moving(own.lift)
  <2>1. PICK m \in Motions : m = Halt(own.lift, own.cfg)
    BY <1>7, MotionsMove, FullAssumption DEF Motions
  <2>2. ~Moving(m)
    BY <2>1, <1>7 DEF Moving, Halt, HaltAt, Motions
  <2>3. new = [own EXCEPT !.lift = Halt(own.lift, own.cfg)]
    BY <1>5, <1>11 DEF Follow, Legs
  <2>4. new = [own EXCEPT !.lift = m]
    BY <2>1, <2>3
  <2>5. new.lift = m /\ new.armed = FALSE /\ SoundShade(new)
    BY <2>4, <1>3, SoundPart DEF SoundShade, Shades
  <2> QED BY <2>2, <2>5, <1>4, <1>8, SteeredAlike
<1>12. CASE frame = "My" /\ ~Moving(own.lift) /\ own.fav # NoFav
  <2>1. own.fav \in Positions
    BY <1>3, <1>12 DEF SoundShade, Shades
  <2>2. new = Toward(own, own.fav)
    BY <1>5, <1>12 DEF Follow, Legs
  <2>3. Steered(Toward(own, own.fav), "recall") /\ Toward(own, own.fav).armed = FALSE
    BY <2>1, <1>3, TowardSteers
  <2> QED BY <2>2, <2>3, <1>4, <1>8, <1>9, <1>12
<1>13. CASE frame = "My" /\ ~Moving(own.lift) /\ own.fav = NoFav
  <2>1. new = own
    BY <1>5, <1>13, SMTT(60) DEF Follow, Legs
  <2> QED BY <2>1, <1>3, <1>4, <1>8, <1>13, SteeredAlike
<1>14. CASE frame \in {"StepUp", "StepDown"}
  <2>1. PICK up \in BOOLEAN : up = (frame = "StepUp")
    OBVIOUS
  <2>2. new = StepTarget(own, frame = "StepUp")
    BY <1>5, <1>14, Zenon DEF Follow, Legs
  <2>3. PICK p \in Positions :
            /\ StepTarget(own, up) = Toward(own, p)
            /\ up => p <= own.lift.pos
            /\ ~up => p >= own.lift.pos
    BY <1>3, StepAims
  <2>4. u = frame
    BY <1>9, <1>14 DEF Hears
  <2>5. p \in Int
    BY <2>3, <1>7 DEF Positions
  <2>6. p \in Positions /\ own.lift.pos \in Int
    BY <2>3, <1>7
  <2>7. Steered(Toward(own, p), frame) /\ Toward(own, p).armed = FALSE
    <3>1. CASE frame = "StepUp"
      <4>1. p <= own.lift.pos
        BY <3>1, <2>1, <2>3
      <4>2. ~(p > own.lift.pos)
        BY <4>1, <2>5, <2>6
      <4>3. Steered(Toward(own, p), "StepUp") /\ Toward(own, p).armed = own.armed
        BY <4>2, <2>6, <1>3, TowardSteers
      <4> QED BY <3>1, <4>3, <1>3
    <3>2. CASE frame = "StepDown"
      <4>1. p >= own.lift.pos
        BY <3>2, <2>1, <2>3
      <4>2. ~(p < own.lift.pos)
        BY <4>1, <2>5, <2>6
      <4>3. Steered(Toward(own, p), "StepDown") /\ Toward(own, p).armed = own.armed
        BY <4>2, <2>6, <1>3, TowardSteers
      <4> QED BY <3>2, <4>3, <1>3
    <3> QED BY <3>1, <3>2, <1>14
  <2> QED BY <2>1, <2>2, <2>3, <2>4, <2>7, <1>4, <1>8, Zenon
<1>15. CASE frame = "Prog"
  <2>1. new = own /\ u = t
    BY <1>5, <1>9, <1>15 DEF Follow, Legs, Hears
  <2> QED BY <2>1, <1>3, <1>4, <1>6, <1>8
<1> QED BY <1>10, <1>11, <1>12, <1>13, <1>14, <1>15 DEF Frames

\* An edit re-anchors a motion, which goes on as it went.
LEMMA ReconfigureLeads ==
    ASSUME NEW sh, SoundShade(sh), NEW cfg \in Configs, BandsFit(cfg), NEW t
    PROVE  LET new == Reconfigure(sh, cfg)
           IN  /\ Steered(sh, t) /\ ~(t = "My" /\ Moving(sh.lift)) => Steered(new, t)
               /\ new.armed = sh.armed /\ (Moving(new.lift) => Moving(sh.lift))
<1>1. sh.lift \in Motions /\ sh.cfg \in Configs
  BY DEF SoundShade, Shades
<1>2. PICK m \in Motions : m = Advanced(sh.lift, sh.cfg)
  BY <1>1, AdvancedMotion
<1>3. PICK n \in Motions : n = ReanchorAt(sh.lift, m.pos)
  <2>1. ReanchorAt(sh.lift, m.pos) \in Motions
    BY <1>1, <1>2, MotionsMove, FullAssumption DEF Reanchor, Motions
  <2> QED BY <2>1
<1>4. n.pos = m.pos /\ n.target = sh.lift.target
  BY <1>1, <1>3 DEF ReanchorAt, Motions
<1>5. m.target = sh.lift.target
  BY <1>1, <1>2, AdvancedMotion
<1>6. PICK new : new = Reconfigure(sh, cfg)
  OBVIOUS
<1>7. new.lift = n /\ new.cfg = cfg /\ new.armed = sh.armed /\ SoundShade(new)
  <2>1. Reconfigure(sh, cfg) = [[sh EXCEPT !.lift = Reanchor(sh.lift, sh.cfg)] EXCEPT !.cfg = cfg]
    BY Zenon DEF Reconfigure
  <2>2. n = Reanchor(sh.lift, sh.cfg)
    BY <1>2, <1>3 DEF Reanchor
  <2>3. PICK at : at = [sh EXCEPT !.lift = n]
    OBVIOUS
  <2>4. at.lift = n /\ at.armed = sh.armed /\ IsShade(at)
    BY <2>3 DEF SoundShade, Shades, IsShade
  <2>5. new = [at EXCEPT !.cfg = cfg]
    BY <2>1, <2>2, <2>3, <1>6
  <2>6. new.lift = n /\ new.cfg = cfg /\ new.armed = sh.armed
    BY <2>4, <2>5 DEF IsShade
  <2>7. SoundShade(new)
    BY <1>6, EditsTyped
  <2> QED BY <2>6, <2>7
<1>8. CASE ~Moving(m)
  <2>1. ~Moving(n)
    BY <1>4, <1>5, <1>8 DEF Moving
  <2> QED BY <2>1, <1>6, <1>7, SteeredAlike
<1>9. CASE Moving(m)
  <2>1. Moving(sh.lift) /\ OneRun(sh.lift, m)
    BY <1>1, <1>2, <1>9, AdvancedRun
  <2>2. GoingDown(n) = GoingDown(m) /\ GoingUp(n) = GoingUp(m)
    BY <1>4, <1>5 DEF GoingDown, GoingUp
  <2>3. Steered(sh, t) /\ t # "My" => Steered(new, t)
    BY <2>1, <2>2, <1>7 DEF Steered, Heeds, OneRun
  <2> QED BY <2>1, <2>3, <1>6, <1>7
<1> QED BY <1>8, <1>9

\* A measured shade is where its motor stopped.
LEMMA CalibratedLeads ==
    ASSUME NEW sh, SoundShade(sh), NEW run, run.leg \in Legs, Plausible(sh, run)
    PROVE  /\ \A t : Steered(Calibrated(sh, run), t)
           /\ Calibrated(sh, run).armed = sh.armed /\ ~Moving(Calibrated(sh, run).lift)
<1>1. PICK ran \in 1..MAX_TRAVEL : ran = run.ran
  BY DEF Plausible
<1>2. PICK c : c = Measured(sh.cfg, run)
  OBVIOUS
<1>3. c \in Configs /\ BandsFit(c)
  <2>1. sh.cfg \in Configs
    BY DEF SoundShade, Shades
  <2>2. [sh.cfg EXCEPT !.up = ran, !.upSource = "measured"] \in Configs
    BY <2>1 DEF Configs, Sources
  <2>3. [sh.cfg EXCEPT !.down = ran, !.downSource = "measured"] \in Configs
    BY <2>1 DEF Configs, Sources
  <2> QED BY <1>1, <1>2, <2>2, <2>3 DEF Measured, Plausible
<1>4. PICK at : at = [sh EXCEPT !.cfg = c] /\ SoundShade(at)
  BY <1>3, SoundPart
<1>5. at.armed = sh.armed
  BY <1>4 DEF SoundShade, Shades
<1>6. PICK p \in Positions : p = Limit(run.leg)
  BY FullAssumption DEF Limit, Positions
<1>7. Calibrated(sh, run) = ReachLimit(at, p)
  BY <1>2, <1>4, <1>6 DEF Calibrated
<1>8. SoundShade(ReachLimit(at, p)) /\ ~Moving(ReachLimit(at, p).lift)
      /\ ReachLimit(at, p).armed = at.armed
  BY <1>4, SoundMoves, LimitRests
<1> QED BY <1>5, <1>7, <1>8, SteeredAlike

-----------------------------------------------------------------------------
(* The estimates and the motors of the whole registry                      *)

HeldEach(registry, table) ==
    \A id \in Ids : registry[id] # Empty => Held(registry[id], table[id])

SteeredEach(registry, heard) ==
    \A id \in Ids : registry[id] # Empty => Steered(registry[id], heard[id])

BegunEach(registry, table, heard) ==
    \A id \in Ids : registry[id] # Empty => Begun(registry[id], table[id], heard[id])

\* What holds of every shade in one state of the controller holds in another.
LedTo(s, n) ==
    /\ HeldEach(s.shades, s.doing) => HeldEach(n.shades, n.doing)
    /\ SteeredEach(s.shades, s.told) => SteeredEach(n.shades, n.told)
    /\ BegunEach(s.shades, s.doing, s.told) => BegunEach(n.shades, n.doing, n.told)

\* A command that is stored with its movement leads its shade, and no other.
LEMMA StoredLeads ==
    ASSUME NEW s, TypedTables(s.shades, s.doing, s.told), NEW id \in Ids,
           s.shades[id] # Empty, NEW r, Leads(s.shades[id], s.told[id], r),
           NEW n, n = Stored(s, id, r), n.ok
    PROVE  LedTo(s, n)
<1>1. Fits(s.doing, id, r.doing)
  BY DEF Stored
<1>2. PICK u : u = HearsAll(s.told[id], r.tx)
  OBVIOUS
<1>3. /\ n.shades = [s.shades EXCEPT ![id] = r.shade]
      /\ n.doing = [s.doing EXCEPT ![id] = r.doing]
      /\ n.told = [s.told EXCEPT ![id] = u]
  BY <1>1, <1>2 DEF Stored
<1>4. ASSUME NEW i \in Ids
      PROVE  /\ n.shades[i] = IF i = id THEN r.shade ELSE s.shades[i]
             /\ n.doing[i] = IF i = id THEN r.doing ELSE s.doing[i]
             /\ n.told[i] = IF i = id THEN u ELSE s.told[i]
  BY <1>3 DEF TypedTables
<1>5. HeldEach(s.shades, s.doing) => HeldEach(n.shades, n.doing)
  BY <1>4 DEF HeldEach, Held, Leads
<1>6. SteeredEach(s.shades, s.told) => SteeredEach(n.shades, n.told)
  BY <1>2, <1>4 DEF SteeredEach, Leads
<1>7. BegunEach(s.shades, s.doing, s.told) => BegunEach(n.shades, n.doing, n.told)
  <2>1. Begun(s.shades[id], s.doing[id], s.told[id]) => Begun(r.shade, r.doing, u)
    BY <1>2 DEF Leads, Begun
  <2> QED BY <1>4, <2>1 DEF BegunEach
<1> QED BY <1>5, <1>6, <1>7 DEF LedTo

\* A command leads the shade it is for.
LEMMA ApplyLeads ==
    ASSUME NEW s, TypedTables(s.shades, s.doing, s.told), NEW id \in Ids,
           s.shades[id] # Empty, NEW cmd \in ShadeCommands,
           NEW n, n = Apply(s, id, cmd), n.ok
    PROVE  LedTo(s, n)
<1>1. PICK r : r = Handle(s.shades[id], cmd)
  OBVIOUS
<1>2. Leads(s.shades[id], s.told[id], r)
  BY <1>1, HandleLeads DEF TypedTables
<1>3. n = Stored(s, id, r)
  BY <1>1 DEF Apply
<1> QED BY <1>2, <1>3, StoredLeads

\* A fan-out that reaches its end leads every member.
LEMMA FanOutLeads ==
    ASSUME TypedTables(shades, doing, told), MembersThere, NEW cmd \in ShadeCommands,
           FanOut(cmd).ok
    PROVE  LedTo(Now, FanOut(cmd))
<1> DEFINE after[n \in 0..Len(members)] ==
              IF n = 0 THEN Now ELSE Then(after[n - 1], members[n], cmd)
           led(s) == KeptTyped(s) /\ (s.ok => LedTo(Now, s))
           bad == {n \in 0..Len(members) : ~led(after[n])}
<1>0. Len(members) \in Nat /\ DOMAIN members = 1..Len(members)
  BY DEF MembersThere
<1>1. after = [n \in 0..Len(members) |->
                  IF n = 0 THEN Now ELSE Then(after[n - 1], members[n], cmd)]
  BY <1>0, FanOutExists, Zenon
<1>2. FanOut(cmd) = after[Len(members)]
  BY DEF FanOut
<1> HIDE DEF after
<1>3. bad = {}
  <2>1. SUFFICES ASSUME bad # {} PROVE FALSE
    OBVIOUS
  <2>2. bad \in SUBSET Nat
    BY <1>0
  <2>3. PICK n \in bad : \A j \in bad : n <= j
    BY <2>1, <2>2, Lowest
  <2>4. n # 0
    <3>1. after[0] = Now
      BY <1>0, <1>1
    <3>2. KeptTyped(Now) /\ LedTo(Now, Now)
      BY DEF KeptTyped, Now, Present, LedTo
    <3> QED BY <2>3, <3>1, <3>2
  <2>5. n \in 1..Len(members) /\ n - 1 \in 0..Len(members)
    BY <2>3, <2>4, <1>0
  <2>6. led(after[n - 1])
    BY <2>3, <2>5
  <2>7. after[n] = Then(after[n - 1], members[n], cmd)
    BY <2>5, <1>1
  <2>8. members[n] \in Present /\ members[n] \in Ids
    BY <2>5, <1>0 DEF MembersThere, Present
  <2>9. PICK s : s = after[n - 1]
    OBVIOUS
  <2>10. CASE s.ok
    <3>1. PICK o : o = after[n] /\ o = Apply(s, members[n], cmd)
      BY <2>7, <2>9, <2>10 DEF Then
    <3>2. s.shades[members[n]] # Empty /\ TypedTables(s.shades, s.doing, s.told)
      BY <2>6, <2>8, <2>9 DEF KeptTyped
    <3>3. KeptTyped(o)
      BY <2>6, <2>8, <2>9, <3>1, <3>2, ApplyTyped DEF KeptTyped, Present
    <3>4. o.ok => LedTo(s, o)
      BY <2>8, <3>1, <3>2, ApplyLeads
    <3>5. o.ok => LedTo(Now, o)
      BY <3>4, <2>6, <2>9, <2>10 DEF LedTo
    <3> QED BY <2>3, <3>1, <3>3, <3>5
  <2>11. CASE ~s.ok
    BY <2>3, <2>6, <2>7, <2>9, <2>11 DEF Then
  <2> QED BY <2>10, <2>11
<1>4. led(after[Len(members)])
  BY <1>0, <1>3
<1> QED BY <1>2, <1>4

(***************************************************************************)
(* Where the estimate and the motor may part: a refused command has acted  *)
(* on the shade and its frames are dropped; an edit lengthens what is left *)
(* of a motion that its motor was stopped in; an id is given again while   *)
(* its last shade's movement is still in the table.                        *)
(***************************************************************************)
NothingDropped == reply' \in {"refused", "group refused"} => UNCHANGED <<shades, doing>>

NoneEditedCoasting ==
    \A id \in Present : told[id] = "My" /\ Moving(shades[id].lift) =>
        ~\E cfg \in NewConfigs : Reconfigured(id, cfg)

NoneReplaced == \A id \in Ids : AddShade(id) => ~Waiting(doing[id])

\* What a step does to every shade.
LedOn ==
    /\ HeldEach(shades, doing)'
    /\ SteeredEach(shades, told) /\ NoneEditedCoasting => SteeredEach(shades, told)'
    /\ BegunEach(shades, doing, told) /\ NoneReplaced => BegunEach(shades, doing, told)'

\* A step that touches one shade, for better, leads them all.
LEMMA OneLeads ==
    ASSUME HeldEach(shades, doing), NEW id \in Ids, NEW sh, NEW act, NEW t,
           \A i \in Ids : /\ shades'[i] = IF i = id THEN sh ELSE shades[i]
                          /\ doing'[i] = IF i = id THEN act ELSE doing[i]
                          /\ told'[i] = IF i = id THEN t ELSE told[i],
           sh # Empty => /\ Held(sh, act)
                         /\ SteeredEach(shades, told) /\ NoneEditedCoasting => Steered(sh, t)
                         /\ BegunEach(shades, doing, told) /\ NoneReplaced => Begun(sh, act, t)
    PROVE  LedOn
<1>1. HeldEach(shades, doing)'
  BY DEF HeldEach
<1>2. SteeredEach(shades, told) /\ NoneEditedCoasting => SteeredEach(shades, told)'
  BY DEF SteeredEach
<1>3. BegunEach(shades, doing, told) /\ NoneReplaced => BegunEach(shades, doing, told)'
  BY DEF BegunEach
<1> QED BY <1>1, <1>2, <1>3 DEF LedOn

\* A step that leaves the shades, their movements and their motors alone.
LEMMA NothingParts ==
    ASSUME HeldEach(shades, doing), UNCHANGED <<shades, doing, told>>
    PROVE  LedOn
BY DEF LedOn, HeldEach, SteeredEach, BegunEach

\* Every command leads the shades it reaches, unless frames of it are dropped.
LEMMA CommandsLead ==
    ASSUME TypeInv, MembersThere, HeldEach(shades, doing), NothingDropped, NEW cmd \in Commands,
           CommandGroup(cmd) \/ \E id \in Ids : CommandShade(id, cmd)
    PROVE  LedOn
<1>0. cmd \in ShadeCommands /\ TypedTables(shades, doing, told)
  BY ControllerAssumption DEF TypeInv
<1>1. CASE Gated
  BY <1>1, NothingParts DEF Gated
<1>2. CASE reply' \in {"refused", "group refused"}
  <2>1. UNCHANGED <<shades, doing>>
    BY <1>2 DEF NothingDropped
  <2>2. told' = told
    <3>1. CASE CommandGroup(cmd)
      BY <1>2, <3>1 DEF CommandGroup, AnswerGroup, Gated
    <3>2. CASE \E id \in Ids : CommandShade(id, cmd)
      <4>1. PICK id \in Ids : CommandShade(id, cmd)
        BY <3>2
      <4>2. ~Apply(Now, id, cmd).ok => Apply(Now, id, cmd).told = told
        BY DEF Apply, Stored, Now
      <4> QED BY <1>2, <4>1, <4>2 DEF CommandShade, Answer, Gated
    <3> QED BY <3>1, <3>2
  <2> QED BY <2>1, <2>2, NothingParts
<1>3. ASSUME NEW n, n.ok, shades' = n.shades, doing' = n.doing, told' = n.told, LedTo(Now, n)
      PROVE  LedOn
  <2>1. Now.shades = shades /\ Now.doing = doing /\ Now.told = told
    BY DEF Now
  <2>2. HeldEach(shades, doing)' = HeldEach(n.shades, n.doing)
    BY <1>3 DEF HeldEach
  <2>3. SteeredEach(shades, told)' = SteeredEach(n.shades, n.told)
    BY <1>3 DEF SteeredEach
  <2>4. BegunEach(shades, doing, told)' = BegunEach(n.shades, n.doing, n.told)
    BY <1>3 DEF BegunEach
  <2> QED BY <2>1, <2>2, <2>3, <2>4, <1>3 DEF LedTo, LedOn
<1>4. CASE CommandGroup(cmd) /\ ~Gated /\ reply' # "group refused"
  <2>1. AnswerGroup(FanOut(cmd))
    BY <1>4 DEF CommandGroup
  <2>2. PICK n : n = FanOut(cmd)
    OBVIOUS
  <2>3. n.ok /\ shades' = n.shades /\ doing' = n.doing /\ told' = n.told
    BY <1>4, <2>1, <2>2 DEF AnswerGroup
  <2>4. LedTo(Now, n)
    BY <1>0, <2>2, <2>3, FanOutLeads
  <2> QED BY <2>3, <2>4, <1>3
<1>5. CASE (\E id \in Ids : CommandShade(id, cmd)) /\ ~Gated /\ reply' # "refused"
  <2>1. PICK id \in Ids : CommandShade(id, cmd)
    BY <1>5
  <2>2. Answer(Apply(Now, id, cmd)) /\ id \in Present
    BY <1>5, <2>1 DEF CommandShade
  <2>3. PICK n : n = Apply(Now, id, cmd)
    OBVIOUS
  <2>4. n.ok /\ shades' = n.shades /\ doing' = n.doing /\ told' = n.told
    BY <1>5, <2>2, <2>3 DEF Answer
  <2>5. Now.shades[id] # Empty /\ TypedTables(Now.shades, Now.doing, Now.told)
    BY <1>0, <2>2 DEF Now, Present
  <2>6. LedTo(Now, n)
    BY <1>0, <2>3, <2>4, <2>5, ApplyLeads
  <2> QED BY <2>4, <2>6, <1>3
<1> QED BY <1>1, <1>2, <1>4, <1>5

\* An edit, a removal, and a shade that is added to the registry.
LEMMA EditsLead ==
    ASSUME TypeInv, ControllerInv, HeldEach(shades, doing), NEW id \in Ids,
           \/ \E cfg \in NewConfigs : Reconfigured(id, cfg)
           \/ RemoveShade(id) \/ AddShade(id)
    PROVE  LedOn
<1>0. /\ shades = [i \in Ids |-> shades[i]]
      /\ \A i \in Ids : shades[i] # Empty => SoundShade(shades[i])
      /\ doing \in [Ids -> Activities] /\ told \in [Ids -> Told]
  BY DEF TypeInv, TypedTables
<1>1. CASE \E cfg \in NewConfigs : Reconfigured(id, cfg)
  <2>1. PICK cfg \in NewConfigs : Reconfigured(id, cfg)
    BY <1>1
  <2>2. SoundShade(shades[id]) /\ cfg \in Configs /\ BandsFit(cfg) /\ id \in Present
    BY <2>1, <1>0, ControllerAssumption DEF Reconfigured, Present
  <2>3. PICK new : new = Reconfigure(shades[id], cfg)
    OBVIOUS
  <2>4. /\ Steered(shades[id], told[id]) /\ ~(told[id] = "My" /\ Moving(shades[id].lift))
                => Steered(new, told[id])
        /\ new.armed = shades[id].armed /\ (Moving(new.lift) => Moving(shades[id].lift))
    BY <2>2, <2>3, ReconfigureLeads
  <2>5. Held(shades[id], doing[id]) => Held(new, doing[id])
    BY <2>4 DEF Held
  <2>6. Begun(shades[id], doing[id], told[id]) => Begun(new, doing[id], told[id])
    BY <2>4 DEF Begun
  <2>7. NoneEditedCoasting => ~(told[id] = "My" /\ Moving(shades[id].lift))
    BY <2>1, <2>2 DEF NoneEditedCoasting
  <2>8. \A i \in Ids : /\ shades'[i] = IF i = id THEN new ELSE shades[i]
                       /\ doing'[i] = IF i = id THEN doing[id] ELSE doing[i]
                       /\ told'[i] = IF i = id THEN told[id] ELSE told[i]
    BY <2>1, <2>3, <1>0 DEF Reconfigured
  <2>9. shades[id] # Empty
    BY <2>2 DEF Present
  <2>10. /\ Held(new, doing[id])
         /\ SteeredEach(shades, told) /\ NoneEditedCoasting => Steered(new, told[id])
         /\ BegunEach(shades, doing, told) => Begun(new, doing[id], told[id])
    BY <2>4, <2>5, <2>6, <2>7, <2>9 DEF HeldEach, SteeredEach, BegunEach
  <2> QED BY <2>8, <2>10, OneLeads
<1>2. CASE RemoveShade(id)
  <2>1. \A i \in Ids : /\ shades'[i] = IF i = id THEN Empty ELSE shades[i]
                       /\ doing'[i] = IF i = id THEN doing[id] ELSE doing[i]
                       /\ told'[i] = IF i = id THEN told[id] ELSE told[i]
    BY <1>2, <1>0 DEF RemoveShade
  <2> QED BY <2>1, OneLeads
<1>3. CASE AddShade(id)
  <2>1. PICK cfg \in NewConfigs : shades' = [shades EXCEPT ![id] = NewShade(cfg)]
    BY <1>3 DEF AddShade
  <2>2. PICK new : new = NewShade(cfg)
    OBVIOUS
  <2>3. SoundShade(new) /\ new.armed = FALSE /\ ~Moving(new.lift)
    BY <2>2, NewIsSound DEF NewShade, Resting, Moving
  <2>4. Held(new, doing[id]) /\ Steered(new, "nothing")
    BY <2>3, SteeredAlike DEF Held
  <2>5. ~Waiting(doing[id]) => Begun(new, doing[id], "nothing")
    BY <2>3 DEF Begun, Waiting
  <2>6. \A i \in Ids : /\ shades'[i] = IF i = id THEN new ELSE shades[i]
                       /\ doing'[i] = IF i = id THEN doing[id] ELSE doing[i]
                       /\ told'[i] = IF i = id THEN "nothing" ELSE told[i]
    BY <1>3, <2>1, <2>2, <1>0 DEF AddShade
  <2>7. NoneReplaced => ~Waiting(doing[id])
    BY <1>3 DEF NoneReplaced
  <2> QED BY <2>4, <2>5, <2>6, <2>7, OneLeads
<1> QED BY <1>1, <1>2, <1>3

\* The end of a calibration, and a frame of a wall remote.
LEMMA EndingsLead ==
    ASSUME TypeInv, ControllerInv, HeldEach(shades, doing), NEW id \in Ids,
           \/ FinishCalibration(id) \/ CancelCalibration(id)
           \/ \E frame \in Remotes : OnRxFrame(id, frame)
    PROVE  LedOn
<1>0. /\ shades = [i \in Ids |-> shades[i]]
      /\ \A i \in Ids : shades[i] # Empty => SoundShade(shades[i])
      /\ doing \in [Ids -> Activities] /\ told \in [Ids -> Told]
      /\ \A i \in Ids : shades[i] # Empty /\ shades[i].armed => doing[i] = Idle
  BY DEF TypeInv, TypedTables, ControllerInv, OnePlanEach
<1>1. Idle.kind = "idle"
  BY DEF Idle
<1>2. CASE FinishCalibration(id)
  <2>1. SoundShade(shades[id]) /\ shades[id] # Empty /\ doing[id].leg \in Legs
    BY <1>0, <1>2, TimingLeg DEF FinishCalibration, Present
  <2>2. CASE UNCHANGED <<shades, doing>>
    BY <1>2, <2>2, NothingParts DEF FinishCalibration
  <2>3. CASE /\ Plausible(shades[id], doing[id])
             /\ shades' = [shades EXCEPT ![id] = Calibrated(@, doing[id])]
             /\ doing' = [doing EXCEPT ![id] = Idle]
    <3>1. PICK new : new = Calibrated(shades[id], doing[id])
      OBVIOUS
    <3>2. Steered(new, told[id]) /\ new.armed = shades[id].armed
      BY <2>1, <2>3, <3>1, CalibratedLeads
    <3>3. ~shades[id].armed
      BY <1>0, <1>1, <1>2, <2>1 DEF FinishCalibration
    <3>4. Held(new, Idle) /\ Begun(new, Idle, told[id])
      BY <1>1, <3>2, <3>3 DEF Held, Begun
    <3>5. \A i \in Ids : /\ shades'[i] = IF i = id THEN new ELSE shades[i]
                         /\ doing'[i] = IF i = id THEN Idle ELSE doing[i]
                         /\ told'[i] = IF i = id THEN told[id] ELSE told[i]
      BY <1>0, <1>2, <2>3, <3>1 DEF FinishCalibration
    <3> QED BY <3>2, <3>4, <3>5, OneLeads
  <2> QED BY <1>2, <2>2, <2>3 DEF FinishCalibration
<1>3. CASE CancelCalibration(id)
  <2>1. \A i \in Ids : /\ shades'[i] = IF i = id THEN shades[id] ELSE shades[i]
                       /\ doing'[i] = IF i = id THEN Idle ELSE doing[i]
                       /\ told'[i] = IF i = id THEN told[id] ELSE told[i]
    BY <1>0, <1>3 DEF CancelCalibration
  <2>2. shades[id] # Empty => ~shades[id].armed \/ doing[id] = Idle
    BY <1>0
  <2>3. /\ Held(shades[id], Idle)
        /\ Begun(shades[id], doing[id], told[id]) => Begun(shades[id], Idle, told[id])
    BY <1>1 DEF Held, Begun
  <2> QED BY <2>1, <2>3, OneLeads DEF SteeredEach, BegunEach
<1>4. CASE \E frame \in Remotes : OnRxFrame(id, frame)
  <2>1. PICK frame \in Frames : OnRxFrame(id, frame)
    BY <1>4, ControllerAssumption
  <2>2. SoundShade(shades[id]) /\ shades[id] # Empty
    BY <2>1, <1>0 DEF OnRxFrame, Present
  <2>3. PICK new, t : new = Overheard(shades[id], frame) /\ t = Overhears(shades[id], frame, told[id])
    OBVIOUS
  <2>4. (Steered(shades[id], told[id]) => Steered(new, t)) /\ new.armed = FALSE
    BY <2>2, <2>3, OverheardLeads
  <2>5. Held(new, Idle) /\ Begun(new, Idle, t)
    BY <1>1, <2>4 DEF Held, Begun
  <2>6. \A i \in Ids : /\ shades'[i] = IF i = id THEN new ELSE shades[i]
                       /\ doing'[i] = IF i = id THEN Idle ELSE doing[i]
                       /\ told'[i] = IF i = id THEN t ELSE told[i]
    BY <2>1, <2>3, <1>0 DEF OnRxFrame, Overhears
  <2>7. SteeredEach(shades, told) => Steered(new, t)
    BY <2>2, <2>4 DEF SteeredEach
  <2> QED BY <2>5, <2>6, <2>7, OneLeads
<1> QED BY <1>2, <1>3, <1>4

\* A moment later the same movements wait, for the same limits.
LEMMA LaterAlike ==
    ASSUME NEW act \in Activities
    PROVE  /\ Later(act).kind = act.kind
           /\ act.kind = "anchoring" => Later(act).limit = act.limit
BY DEF Activities, Later, Waiting, Idle, Closing, Separating, Anchoring

\* A unit of time leads every shade where it was led.
LEMMA TimeLeads ==
    ASSUME TypeInv, HeldEach(shades, doing), TimePasses
    PROVE  LedOn
<1>0. /\ \A i \in Ids : shades[i] # Empty => SoundShade(shades[i])
      /\ doing \in [Ids -> Activities] /\ told' = told
  BY DEF TypeInv, TypedTables, TimePasses
<1>1. ASSUME NEW i \in Ids, shades'[i] # Empty
      PROVE  /\ shades[i] # Empty /\ Held(shades'[i], doing'[i])
             /\ Steered(shades[i], told[i]) => Steered(shades'[i], told[i])
             /\ Begun(shades[i], doing[i], told[i]) => Begun(shades'[i], doing'[i], told[i])
  <2>1. PICK x : x = [shades[i] EXCEPT !.lift = Elapse(@)]
    OBVIOUS
  <2>2. /\ shades'[i] = IF i \in Present THEN x ELSE Empty
        /\ doing'[i] = Later(doing[i])
    BY <2>1 DEF TimePasses
  <2>3. shades[i] # Empty /\ SoundShade(shades[i]) /\ shades'[i] = x
    BY <1>0, <1>1, <2>2 DEF Present
  <2>4. Steered(shades[i], "recall")
    BY DEF Steered, Heeds
  <2>5. x.armed = shades[i].armed /\ (Moving(x.lift) => Moving(shades[i].lift))
    BY <2>1, <2>3, <2>4, ElapseSteers
  <2>6. Steered(shades[i], told[i]) => Steered(x, told[i])
    BY <2>1, <2>3, ElapseSteers
  <2>7. /\ doing'[i].kind = doing[i].kind
        /\ doing[i].kind = "anchoring" => doing'[i].limit = doing[i].limit
    BY <1>0, <2>2, LaterAlike
  <2>8. Held(shades[i], doing[i])
    BY <2>3 DEF HeldEach
  <2>9. Held(x, doing'[i])
    BY <2>5, <2>7, <2>8 DEF Held
  <2>10. Begun(shades[i], doing[i], told[i]) => Begun(x, doing'[i], told[i])
    BY <2>5, <2>7 DEF Begun
  <2> QED BY <2>3, <2>6, <2>9, <2>10
<1>2. HeldEach(shades, doing)'
  BY <1>1 DEF HeldEach
<1>3. SteeredEach(shades, told) => SteeredEach(shades, told)'
  BY <1>0, <1>1 DEF SteeredEach
<1>4. BegunEach(shades, doing, told) => BegunEach(shades, doing, told)'
  BY <1>0, <1>1 DEF BegunEach
<1> QED BY <1>2, <1>3, <1>4 DEF LedOn

\* A tick leads every shade, and what it sends continues what was begun.
LEMMA TickLeads ==
    ASSUME TypeInv, ControllerInv, HeldEach(shades, doing), Tick
    PROVE  /\ LedOn
           /\ BegunEach(shades, doing, told) =>
                \A id \in Ids : told'[id] # told[id] => <<told[id], told'[id]>> \in Continues
<1>0. /\ \A i \in Ids : shades[i] # Empty => SoundShade(shades[i])
      /\ doing \in [Ids -> Activities] /\ told \in [Ids -> Told]
      /\ \A i \in Ids : shades[i] # Empty /\ shades[i].armed => doing[i] = Idle
  BY DEF TypeInv, TypedTables, ControllerInv, OnePlanEach
<1>1. ASSUME NEW i \in Ids, i \in Present
      PROVE  /\ Held(shades'[i], doing'[i])
             /\ Steered(shades[i], told[i]) => Steered(shades'[i], told'[i])
             /\ Begun(shades[i], doing[i], told[i]) => Begun(shades'[i], doing'[i], told'[i])
             /\ Begun(shades[i], doing[i], told[i]) /\ told'[i] # told[i]
                    => <<told[i], told'[i]>> \in Continues
  <2>1. PICK r : r = OnTick(shades[i], doing[i])
    OBVIOUS
  <2>2. PICK u : u = HearsAll(told[i], r.tx)
    OBVIOUS
  <2>3. shades'[i] = r.shade /\ doing'[i] = r.doing /\ told'[i] = u
    BY <1>1, <2>1, <2>2 DEF Tick, Ticks
  <2>4. shades[i] # Empty /\ SoundShade(shades[i]) /\ Held(shades[i], doing[i])
    BY <1>0, <1>1 DEF Present, HeldEach
  <2>5. doing[i] \in Activities /\ told[i] \in Told /\ (shades[i].armed => doing[i] = Idle)
    BY <1>0, <2>4
  <2>6. /\ Steered(shades[i], told[i]) => Steered(r.shade, u)
        /\ Held(r.shade, r.doing)
        /\ Begun(shades[i], doing[i], told[i]) => Begun(r.shade, r.doing, u)
        /\ Begun(shades[i], doing[i], told[i]) /\ u # told[i] => <<told[i], u>> \in Continues
    BY <2>1, <2>2, <2>4, <2>5, ClockLeads
  <2> QED BY <2>3, <2>6
<1>2. ASSUME NEW i \in Ids, i \notin Present
      PROVE  shades'[i] = Empty /\ told'[i] = told[i]
  BY <1>2 DEF Tick, Ticks
<1>3. HeldEach(shades, doing)'
  BY <1>1, <1>2 DEF HeldEach
<1>4. SteeredEach(shades, told) => SteeredEach(shades, told)'
  BY <1>1, <1>2 DEF SteeredEach, Present
<1>5. BegunEach(shades, doing, told) => BegunEach(shades, doing, told)'
  BY <1>1, <1>2 DEF BegunEach, Present
<1>6. BegunEach(shades, doing, told) =>
          \A id \in Ids : told'[id] # told[id] => <<told[id], told'[id]>> \in Continues
  BY <1>1, <1>2 DEF BegunEach, Present
<1> QED BY <1>3, <1>4, <1>5, <1>6 DEF LedOn

\* Every step leads every shade, but for what is named.
LEMMA EveryStepLeads ==
    ASSUME TypeInv, ControllerInv, HeldEach(shades, doing), NothingDropped, [Next]_vars
    PROVE  LedOn
<1>1. CASE \E cmd \in Commands : CommandGroup(cmd) \/ \E id \in Ids : CommandShade(id, cmd)
  BY <1>1, CommandsLead DEF ControllerInv
<1>2. CASE \/ \E id \in Ids : FinishCalibration(id) \/ CancelCalibration(id)
           \/ \E id \in Ids, frame \in Remotes : OnRxFrame(id, frame)
  BY <1>2, EndingsLead
<1>3. CASE \/ \E id \in Editable, cfg \in NewConfigs : Reconfigured(id, cfg)
           \/ \E id \in Removable : RemoveShade(id) \/ AddShade(id)
  BY <1>3, EditsLead, ControllerAssumption
<1>4. CASE Clock
  BY <1>4, TickLeads, TimeLeads DEF Clock
<1>5. CASE UNCHANGED vars
  BY <1>5, NothingParts DEF vars
<1> QED BY <1>1, <1>2, <1>3, <1>4, <1>5 DEF Next, People

\* At first every shade is at rest and nobody has been told anything.
LEMMA AtRestAtFirst ==
    ASSUME Init
    PROVE  /\ HeldEach(shades, doing) /\ SteeredEach(shades, told)
           /\ BegunEach(shades, doing, told)
<1>1. ASSUME NEW id \in Ids
      PROVE  /\ Held(shades[id], doing[id]) /\ Steered(shades[id], told[id])
             /\ Begun(shades[id], doing[id], told[id])
  <2>1. PICK cfg \in NewConfigs : shades[id] = NewShade(cfg)
    BY DEF Init
  <2>2. SoundShade(shades[id]) /\ shades[id].armed = FALSE /\ ~Moving(shades[id].lift)
    BY <2>1, NewIsSound DEF NewShade, Resting, Moving
  <2>3. doing[id].kind = "idle"
    BY DEF Init, Idle
  <2> QED BY <2>2, <2>3, SteeredAlike DEF Held, Begun
<1> QED BY <1>1 DEF HeldEach, SteeredEach, BegunEach

(***************************************************************************)
(* An estimate runs only where its motor was sent, as long as no command   *)
(* is refused after the shade has acted on it and no shade is reconfigured *)
(* while it coasts.                                                        *)
(***************************************************************************)
THEOREM EstimatesFollow ==
    Spec /\ [][NothingDropped /\ NoneEditedCoasting]_vars => []EstimateIsCommanded
<1> DEFINE Inv == HeldEach(shades, doing) /\ SteeredEach(shades, told)
<1>1. Init => Inv
  BY AtRestAtFirst
<1>2. TypeInv /\ ControllerInv /\ Inv /\ [Next]_vars /\ [NothingDropped /\ NoneEditedCoasting]_vars
        => Inv'
  <2> SUFFICES ASSUME TypeInv, ControllerInv, Inv, [Next]_vars,
                      [NothingDropped /\ NoneEditedCoasting]_vars
               PROVE  Inv'
    OBVIOUS
  <2>1. CASE UNCHANGED vars
    BY <2>1 DEF vars, HeldEach, SteeredEach
  <2>2. CASE NothingDropped /\ NoneEditedCoasting
    BY <2>2, EveryStepLeads DEF LedOn
  <2> QED BY <2>1, <2>2
<1>3. Inv => EstimateIsCommanded
  BY DEF SteeredEach, Steered, Heeds, Coasting, EstimateIsCommanded, Follows, Present
<1> HIDE DEF Inv
<1> QED BY <1>1, <1>2, <1>3, ControllerInvariant, ControllerTypedInvariant, PTL DEF Spec

(***************************************************************************)
(* The clock sends only what continues a run that the motor was told to    *)
(* make, as long as no command is refused after its shade has acted on it  *)
(* and no id is given again with a movement of its last shade pending.     *)
(***************************************************************************)
THEOREM ClockContinues ==
    Spec /\ [][NothingDropped /\ NoneReplaced]_vars => ClockOnlyContinues
<1> DEFINE Inv == HeldEach(shades, doing) /\ BegunEach(shades, doing, told)
<1>1. Init => Inv
  BY AtRestAtFirst
<1>2. TypeInv /\ ControllerInv /\ Inv /\ [Next]_vars /\ [NothingDropped /\ NoneReplaced]_vars
        => Inv'
  <2> SUFFICES ASSUME TypeInv, ControllerInv, Inv, [Next]_vars, [NothingDropped /\ NoneReplaced]_vars
               PROVE  Inv'
    OBVIOUS
  <2>1. CASE UNCHANGED vars
    BY <2>1 DEF vars, HeldEach, BegunEach
  <2>2. CASE NothingDropped /\ NoneReplaced
    BY <2>2, EveryStepLeads DEF LedOn
  <2> QED BY <2>1, <2>2
<1>3. TypeInv /\ ControllerInv /\ Inv =>
        [Tick => \A id \in Ids : told'[id] # told[id] => <<told[id], told'[id]>> \in Continues]_vars
  BY TickLeads
<1> HIDE DEF Inv
<1> QED BY <1>1, <1>2, <1>3, ControllerInvariant, ControllerTypedInvariant, PTL
     DEF Spec, ClockOnlyContinues
=============================================================================
