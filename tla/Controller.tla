----------------------------- MODULE Controller -----------------------------
(***************************************************************************)
(* The facade the state task drives: somfy-domain/src/controller.rs, over  *)
(* the registry of shades and the small table of multi-step movements.     *)
(*                                                                         *)
(* Time moves one unit at a time and the state task ticks once in each;    *)
(* commands, edits and overheard frames come in anywhere between.  told is *)
(* what each motor was last told, by this controller or a wall remote, if  *)
(* every planned frame reaches it (TransmitPath follows the frames).       *)
(***************************************************************************)
EXTENDS Shade, FiniteSets, SequencesExt

CONSTANTS Ids,             \* ids the registry may hand out
          MAX_ACTIVITIES,  \* entries of the table of movements
          Commands,        \* the commands people give
          Remotes,         \* the frames their wall remotes send
          NewConfigs,      \* the configurations of added and edited shades
          Removable,       \* ids of shades people remove and add again
          Editable         \* ids of shades people reconfigure

ASSUME ControllerAssumption ==
    /\ Ids \subseteq Nat /\ IsFiniteSet(Ids) /\ MAX_ACTIVITIES \in Nat
    /\ Commands \subseteq ShadeCommands
    /\ Remotes \subseteq Frames
    /\ NewConfigs \subseteq Configs /\ \A c \in NewConfigs : BandsFit(c)
    /\ Removable \subseteq Ids /\ Editable \subseteq Ids

VARIABLES shades,   \* the registry
          doing,    \* the table of movements, Idle where it has no entry
          members,  \* the shades of a group, in order
          told,     \* what each motor was last told
          reply,    \* what people were answered, "none" when the clock acted last
          ticked    \* the state task has ticked in this unit of time

vars == <<shades, doing, members, told, reply, ticked>>

Empty == [slot |-> "empty"]
Present == {id \in Ids : shades[id] # Empty}

Told == Frames \cup {"nothing", "recall"}

\* Types; the table of movements never holds more than its places, and no shade
\* is in the group twice.
TypeOK ==
    /\ shades \in [Ids -> Shades \cup {Empty}]
    /\ doing \in [Ids -> Activities]
    /\ Cardinality({id \in Ids : doing[id] # Idle}) <= MAX_ACTIVITIES
    /\ members \in Seq(Ids) /\ IsInjective(members)
    /\ told \in [Ids -> Told]
    /\ reply \in {"none", "done", "heard", "refused", "group refused", "gated"}
    /\ ticked \in BOOLEAN

Init ==
    /\ shades \in [Ids -> {NewShade(c) : c \in NewConfigs}]
    /\ doing = [id \in Ids |-> Idle]
    /\ members = SetToSeq(Ids)
    /\ told = [id \in Ids |-> "nothing"]
    /\ reply = "none" /\ ticked = TRUE

-----------------------------------------------------------------------------
(***************************************************************************)
(* The motor.  Prog moves nothing, and a My that finds a motor stopped is  *)
(* not a stop: the motor goes to the favourite it holds.                   *)
(***************************************************************************)
Hears(last, frame) ==
    CASE frame = "Prog" -> last
      [] frame = "My" /\ last \in {"My", "nothing"} -> "recall"
      [] OTHER -> frame

HearsAll(last, frames) ==
    LET heard[n \in 0..Len(frames)] ==
            IF n = 0 THEN last ELSE Hears(heard[n - 1], frames[n])
    IN  heard[Len(frames)]

\* Mutant: the table is not bounded.
FitsAlways(table, id, act) == TRUE

\* The table takes a new entry only where it has room.
Fits(table, id, act) ==
    \/ act = Idle \/ table[id] # Idle
    \/ Cardinality({i \in Ids : table[i] # Idle}) < MAX_ACTIVITIES

\* A state of the controller, for a fan-out that goes through several.
Now == [shades |-> shades, doing |-> doing, told |-> told, ok |-> TRUE]

(***************************************************************************)
(* The shade has acted.  If its movement does not fit in the table, the    *)
(* frames are dropped and the shade stays as it acted.                     *)
(***************************************************************************)
Stored(s, id, r) ==
    LET ok == Fits(s.doing, id, r.doing)
    IN  [shades |-> [s.shades EXCEPT ![id] = r.shade],
         doing |-> IF ok THEN [s.doing EXCEPT ![id] = r.doing] ELSE s.doing,
         told |-> IF ok THEN [s.told EXCEPT ![id] = HearsAll(@, r.tx)] ELSE s.told,
         ok |-> ok]

Apply(s, id, cmd) == Stored(s, id, Handle(s.shades[id], cmd))

Gate(sh, cmd) ==
    \/ cmd.kind = "Vent" /\ sh.cfg.vent = 0
    \/ cmd.kind = "StepUp" /\ ~Carries(sh.cfg, "StepUp")

Answer(s) ==
    /\ shades' = s.shades /\ doing' = s.doing /\ told' = s.told
    /\ reply' = IF s.ok THEN "done" ELSE "refused"

\* The error carries no frames out, not even those of the members before.
AnswerGroup(s) ==
    /\ shades' = s.shades /\ doing' = s.doing
    /\ told' = IF s.ok THEN s.told ELSE told
    /\ reply' = IF s.ok THEN "done" ELSE "group refused"

Gated == reply' = "gated" /\ UNCHANGED <<shades, doing, told>>

CommandShade(id, cmd) ==
    /\ id \in Present
    /\ IF Gate(shades[id], cmd) THEN Gated ELSE Answer(Apply(Now, id, cmd))
    /\ UNCHANGED <<members, ticked>>

\* Mutant: each member passes its gate when its turn comes.
CommandGroupGatesEach(cmd) ==
    LET after[n \in 0..Len(members)] ==
            IF n = 0 THEN Now
            ELSE IF ~after[n - 1].ok THEN after[n - 1]
            ELSE IF Gate(shades[members[n]], cmd) THEN [after[n - 1] EXCEPT !.ok = FALSE]
            ELSE Apply(after[n - 1], members[n], cmd)
    IN  /\ cmd.kind \notin {"Pair", "Calibrate"}
        /\ AnswerGroup(after[Len(members)])
        /\ UNCHANGED <<members, ticked>>

\* Members are commanded in turn; the first refusal ends the fan-out.
Then(s, id, cmd) == IF s.ok THEN Apply(s, id, cmd) ELSE s

FanOut(cmd) ==
    LET after[n \in 0..Len(members)] ==
            IF n = 0 THEN Now ELSE Then(after[n - 1], members[n], cmd)
    IN  after[Len(members)]

\* The whole group passes the gates before any of it moves.
CommandGroup(cmd) ==
    /\ cmd.kind \notin {"Pair", "Calibrate"}
    /\ IF \E i \in DOMAIN members : Gate(shades[members[i]], cmd) THEN Gated
       ELSE AnswerGroup(FanOut(cmd))
    /\ UNCHANGED <<members, ticked>>

\* An implausible measurement leaves the run going.
FinishCalibration(id) ==
    /\ id \in Present /\ doing[id].kind = "timing"
    /\ IF Plausible(shades[id], doing[id])
       THEN /\ shades' = [shades EXCEPT ![id] = Calibrated(@, doing[id])]
            /\ doing' = [doing EXCEPT ![id] = Idle]
            /\ reply' = "done"
       ELSE reply' = "refused" /\ UNCHANGED <<shades, doing>>
    /\ UNCHANGED <<members, told, ticked>>

\* Nothing is sent: the shade runs on.
CancelCalibration(id) ==
    /\ doing[id].kind = "timing"
    /\ doing' = [doing EXCEPT ![id] = Idle]
    /\ reply' = "done"
    /\ UNCHANGED <<shades, members, told, ticked>>

\* A frame of a linked remote; one that was heard already is dropped before.
OnRxFrame(id, frame) ==
    /\ id \in Present
    /\ shades' = [shades EXCEPT ![id] = Overheard(@, frame)]
    /\ doing' = [doing EXCEPT ![id] = Idle]
    /\ told' = [told EXCEPT ![id] =
                    IF frame = "My" /\ ~Moving(Advance(shades[id]).lift)
                    THEN "recall" ELSE Hears(@, frame)]
    /\ reply' = "heard"
    /\ UNCHANGED <<members, ticked>>

\* Every shade ticks, and the movement it is part-way through goes on.
Ticks(r) ==
    /\ shades' = [id \in Ids |-> IF id \in Present THEN r[id].shade ELSE Empty]
    /\ doing' = [id \in Ids |-> IF id \in Present THEN r[id].doing ELSE doing[id]]
    /\ told' = [id \in Ids |-> IF id \in Present THEN HearsAll(told[id], r[id].tx)
                                                  ELSE told[id]]

Tick ==
    /\ ~ticked /\ ticked' = TRUE
    /\ Ticks([id \in Present |-> OnTick(shades[id], doing[id])])
    /\ reply' = "none"
    /\ UNCHANGED members

TimePasses ==
    /\ ticked /\ ticked' = FALSE
    /\ shades' = [id \in Ids |-> IF id \in Present
                                 THEN [shades[id] EXCEPT !.lift = Elapse(@)] ELSE Empty]
    /\ doing' = [id \in Ids |-> Later(doing[id])]
    /\ reply' = "none"
    /\ UNCHANGED <<members, told>>

-----------------------------------------------------------------------------
(* The registry, edited behind the controller's back                       *)

Reconfigured(id, cfg) ==
    /\ id \in Present
    /\ shades' = [shades EXCEPT ![id] = Reconfigure(@, cfg)]
    /\ reply' = "done"
    /\ UNCHANGED <<doing, members, told, ticked>>

\* The shade leaves the registry and its groups; the table is not told.
RemoveShade(id) ==
    /\ id \in Present
    /\ shades' = [shades EXCEPT ![id] = Empty]
    /\ \/ id \notin ToSet(members) /\ UNCHANGED members
       \/ \E i \in DOMAIN members : members[i] = id /\ members' = RemoveAt(members, i)
    /\ reply' = "done"
    /\ UNCHANGED <<doing, told, ticked>>

\* The lowest free slot is used again, for another shade and another motor.
AddShade(id) ==
    /\ id \notin Present /\ \A i \in Ids : i < id => i \in Present
    /\ \E cfg \in NewConfigs : shades' = [shades EXCEPT ![id] = NewShade(cfg)]
    /\ told' = [told EXCEPT ![id] = "nothing"]
    /\ reply' = "done"
    /\ UNCHANGED <<doing, members, ticked>>

People ==
    \/ \E cmd \in Commands : CommandGroup(cmd) \/ \E id \in Ids : CommandShade(id, cmd)
    \/ \E id \in Ids : FinishCalibration(id) \/ CancelCalibration(id)
    \/ \E id \in Ids, frame \in Remotes : OnRxFrame(id, frame)
    \/ \E id \in Editable, cfg \in NewConfigs : Reconfigured(id, cfg)
    \/ \E id \in Removable : RemoveShade(id) \/ AddShade(id)

Clock == Tick \/ TimePasses

Next == People \/ Clock

Spec == Init /\ [][Next]_vars

(***************************************************************************)
(* The ticker is an arm of the state task's select that cannot be starved: *)
(* time passes and the task ticks, again and again.  Tick is enabled while *)
(* ~ticked and TimePasses while ticked, so this is weak fairness of both,  *)
(* in a form that TLC evaluates fast.                                      *)
(***************************************************************************)
FairSpec == Spec /\ []<>ticked /\ []<>(~ticked)

-----------------------------------------------------------------------------
(* Properties                                                              *)

(***************************************************************************)
(* "A shade cannot be half-way through a vent and half-way through a       *)
(* re-anchoring seek" (shade.rs): an armed stop and a movement in the      *)
(* table are never both pending, so that the clock has one plan a shade.   *)
(***************************************************************************)
OneMovement == \A id \in Present : shades[id].armed => doing[id] = Idle

(***************************************************************************)
(* The estimate moves only as the motor was told to: in the direction of   *)
(* the last frame, or for the last start lag after a stop.  A press that   *)
(* changed the one and not the other would leave them apart for good.      *)
(***************************************************************************)
Follows(id, directions) ==
    \/ told[id] \in directions \cup {"recall"}
    \/ told[id] = "My" /\ Remaining(shades[id].lift, shades[id].cfg) <= shades[id].cfg.lag

\* No estimate runs where the motor was not sent.
EstimateIsCommanded ==
    \A id \in Present :
        /\ GoingUp(shades[id].lift) => Follows(id, {"Up", "StepUp"})
        /\ GoingDown(shades[id].lift) => Follows(id, {"Down", "StepDown"})

(***************************************************************************)
(* What the clock sends continues a run the motor was told to make: a vent *)
(* goes up after going down, a seek turns at its limit, and a stop is sent *)
(* to a motor that was sent up or down and not stopped since, so that it   *)
(* never recalls a favourite.                                              *)
(***************************************************************************)
Continues == {<<"Down", "Up">>, <<"Up", "Down">>, <<"Up", "My">>, <<"Down", "My">>}

\* A tick sends nothing that does not continue what people started.
ClockOnlyContinues ==
    [][Tick => \A id \in Ids : told'[id] # told[id] => <<told[id], told'[id]>> \in Continues]_vars

(***************************************************************************)
(* When people leave a shade alone, what it was part-way through ends: the *)
(* stop of a seek is sent, a vent separates, an anchored seek arrives.     *)
(***************************************************************************)
Settled(id) == id \in Present => ~shades[id].armed /\ ~Waiting(doing[id])

\* Left alone, every shade settles.
SequencesEnd == <>[](reply = "none") => <>[](\A id \in Ids : Settled(id))

\* "Refused with nothing on the queue" (controller.rs): no motor hears of it.
RefusedSendsNothing ==
    [][reply' \in {"refused", "group refused", "gated"} => told' = told]_vars

(***************************************************************************)
(* "... before any of it moves" (controller.rs): a group command that some *)
(* member cannot carry, or whose band is unmeasured, changes no member.    *)
(***************************************************************************)
GatedMovesNothing ==
    [][\A cmd \in Commands : CommandGroup(cmd) /\ (\E id \in Present :
            id \in ToSet(members) /\ Gate(shades[id], cmd)) => UNCHANGED <<shades, doing, told>>]_vars

\* A refusal of either kind leaves no motor half commanded.
RefusalsAreWhole == RefusedSendsNothing /\ GatedMovesNothing

(***************************************************************************)
(* What comments and tests say that the code does not keep.                *)
(***************************************************************************)

\* controller.rs: "no partial fan-out".
NoPartialFanOut == [][reply' = "group refused" => doing' = doing]_vars

\* shade.rs: "A stop halts whatever is in flight".
StopHalts ==
    [][\A id \in Ids : CommandShade(id, [kind |-> "My"]) /\ Waiting(doing[id])
            => told'[id] = "My"]_vars

\* shade.rs: a reconfiguration keeps "any move it is making honest": the stop
\* of a seek is still ahead of it.
StopStillAhead == \A id \in Present : shades[id].armed => Moving(shades[id].lift)

\* controller.rs: "what `id` is doing": a shade nobody commanded does nothing.
NewShadeAtRest == \A id \in Present : told[id] = "nothing" => ~Waiting(doing[id])
=============================================================================
