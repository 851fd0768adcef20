-------------------------------- MODULE Shade --------------------------------
(***************************************************************************)
(* One shade: somfy-domain/src/shade.rs.                                   *)
(*                                                                         *)
(* A shade is its configuration, its estimated lift, the favourite         *)
(* position, whether a stop is to be sent on arrival, and how doubtful the *)
(* estimate is.  A step of a shade yields the shade, the frames it plans   *)
(* and the multi-step movement it is now part-way through; where those     *)
(* movements live is Controller's business.                                *)
(***************************************************************************)
EXTENDS Motion, Sequences

CONSTANTS ROUTE,        \* ROUTE_VIA_LIMIT_RAW
          ERROR,        \* relative_error_raw of each source of a travel time
          STEP_TRAVEL,  \* STEP_TRAVEL_MS
          MAX_TRAVEL    \* MAX_TRAVEL_TIME_MS

Sources == {"factory", "operator", "measured"}

ASSUME ShadeAssumption ==
    /\ ROUTE \in 1..FULL
    /\ ERROR \in [Sources -> 0..FULL]
    /\ STEP_TRAVEL \in Nat \ {0}
    /\ MAX_TRAVEL \in Nat \ {0}

NoFav == -1
Frames == {"Up", "Down", "My", "StepUp", "StepDown", "Prog"}
Legs == {"Up", "Down"}

Configs == [up : 1..MAX_TRAVEL, down : 1..MAX_TRAVEL, lag : Nat, vent : Nat, close : Nat,
            upSource : Sources, downSource : Sources, narrow : BOOLEAN]

\* checked_bands: the lag and a band leave something of a traverse.
BandsFit(cfg) == cfg.lag + cfg.vent < cfg.up /\ cfg.lag + cfg.close < cfg.down

Shades == [cfg : Configs, lift : Motions, fav : Positions \cup {NoFav},
           armed : BOOLEAN, doubt : 0..FULL]

NewShade(cfg) ==
    [cfg |-> cfg, lift |-> Resting(0), fav |-> NoFav, armed |-> FALSE, doubt |-> 0]

(***************************************************************************)
(* What a shade may be part-way through.  A deadline is how long from now. *)
(***************************************************************************)
Idle == [kind |-> "idle"]
Closing(w) == [kind |-> "closing", wait |-> w]
Separating(w) == [kind |-> "separating", wait |-> w]
Anchoring(w, limit, p) == [kind |-> "anchoring", wait |-> w, limit |-> limit, target |-> p]
Timing(leg) == [kind |-> "timing", leg |-> leg, ran |-> 0]

Waiting(act) == act.kind \in {"closing", "separating", "anchoring"}

Activities ==
    {Idle} \cup {Closing(w) : w \in 0..MAX_TRAVEL}
           \cup {Separating(w) : w \in 0..MAX_TRAVEL}
           \cup {Anchoring(w, l, p) : w \in 0..MAX_TRAVEL, l \in Limits, p \in Positions}
           \cup [kind : {"timing"}, leg : Legs, ran : 0..(MAX_TRAVEL + 1)]

Later(act) ==
    CASE Waiting(act) -> [act EXCEPT !.wait = Less(@, 1)]
      [] act.kind = "timing" -> [act EXCEPT !.ran = Least(@ + 1, MAX_TRAVEL + 1)]
      [] OTHER -> act

Limit(leg) == IF leg = "Up" THEN 0 ELSE FULL

Done(sh, tx, act) == [shade |-> sh, tx |-> tx, doing |-> act]

-----------------------------------------------------------------------------

AddDoubt(sh, d) == [sh EXCEPT !.doubt = Least(@ + d, FULL)]

\* The pending stop is dropped, and the distance it was for is charged.
Abandon(sh) ==
    IF sh.armed THEN [AddDoubt(sh, Apart(sh.lift.pos, sh.lift.target)) EXCEPT !.armed = FALSE]
                ELSE sh

Toward(sh, p) == [sh EXCEPT !.lift = SetTarget(@, p)]

ReachLimit(sh, p) == [sh EXCEPT !.lift = Resting(p), !.doubt = 0]

ChargeArrival(sh) ==
    LET m == sh.lift
        source == IF m.target > m.start THEN sh.cfg.downSource ELSE sh.cfg.upSource
    IN  AddDoubt(sh, (Apart(m.pos, m.start) * ERROR[source]) \div FULL)

(***************************************************************************)
(* tick: the estimate advances; an armed stop goes out a start lag before  *)
(* the target, unless the target is a limit, where the motor stops itself. *)
(***************************************************************************)
Advance(sh) == [sh EXCEPT !.lift = Advanced(@, sh.cfg)]

\* With m the advanced motion of sh: did it arrive, is its stop due now?
Arrived(sh, m) == Moving(sh.lift) /\ ~Moving(m)

Due(sh, m) ==
    /\ sh.armed
    /\ \/ Arrived(sh, m)
       \/ Moving(m) /\ Remaining(m, sh.cfg) <= sh.cfg.lag

StopTx(sh, m) == IF Due(sh, m) /\ sh.lift.target \notin Limits THEN <<"My">> ELSE << >>

TickTx(sh) == StopTx(sh, Advanced(sh.lift, sh.cfg))

\* Mutant: the flag survives the stop.
DisarmNever(sh, due) == sh

\* Mutant: the flag survives a limit.
DisarmIfSent(sh, due) == [sh EXCEPT !.armed = @ /\ (due => sh.lift.target \in Limits)]

Disarm(sh, due) == [sh EXCEPT !.armed = @ /\ ~due]

Arrive(sh) ==
    IF sh.lift.pos \in Limits THEN ReachLimit(sh, sh.lift.pos) ELSE ChargeArrival(sh)

TickedTo(sh, m) ==
    LET on == Disarm([sh EXCEPT !.lift = m], Due(sh, m))
    IN  IF Arrived(sh, m) THEN Arrive(on) ELSE on

Ticked(sh) == TickedTo(sh, Advanced(sh.lift, sh.cfg))

-----------------------------------------------------------------------------
\* Start toward p and arm the stop; a seek of the present position is nothing.
Seek(sh, p) ==
    IF sh.lift.pos = p THEN Done(sh, << >>, Idle)
    ELSE Done([Toward(sh, p) EXCEPT !.armed = TRUE],
              IF p > sh.lift.pos THEN <<"Down">> ELSE <<"Up">>, Idle)

Routes(sh, p) ==
    /\ sh.doubt >= ROUTE
    /\ p \notin Limits
    /\ sh.cfg.upSource # "factory" /\ sh.cfg.downSource # "factory"

ViaOpen(cfg, p) ==
    cfg.up + (cfg.down * p) \div FULL <= cfg.down + (cfg.up * (FULL - p)) \div FULL

\* Mutant: the stop of an earlier seek stays armed on the way to the limit.
SeekReliablyStaysArmed(sh, p) ==
    IF ~Routes(sh, p) THEN Seek(sh, p)
    ELSE LET open == ViaOpen(sh.cfg, p)
             limit == IF open THEN 0 ELSE FULL
         IN  Done(Toward(sh, limit),
                  IF open THEN <<"Up">> ELSE <<"Down">>,
                  Anchoring(IF open THEN sh.cfg.up ELSE sh.cfg.down, limit, p))

\* A doubtful estimate is anchored at a limit first.
SeekReliably(sh, p) ==
    IF ~Routes(sh, p) THEN Seek(sh, p)
    ELSE LET open == ViaOpen(sh.cfg, p)
             limit == IF open THEN 0 ELSE FULL
         IN  Done([Toward(sh, limit) EXCEPT !.armed = FALSE],
                  IF open THEN <<"Up">> ELSE <<"Down">>,
                  Anchoring(IF open THEN sh.cfg.up ELSE sh.cfg.down, limit, p))

\* The estimate moves one step; no stop is armed.
StepTarget(sh, up) ==
    LET travel == IF up THEN sh.cfg.up ELSE sh.cfg.down
        step == Least((FULL * STEP_TRAVEL) \div travel, FULL)
    IN  Toward(sh, IF up THEN Less(sh.lift.pos, step) ELSE Least(sh.lift.pos + step, FULL))

\* A frame of the narrow width has no StepUp.
Carries(cfg, frame) == ~(cfg.narrow /\ frame = "StepUp")

Step(sh, up) ==
    LET frame == IF up THEN "StepUp" ELSE "StepDown"
    IN  IF ~Carries(sh.cfg, frame) THEN Done(sh, << >>, Idle)
        ELSE Done(StepTarget(Abandon(sh), up), <<frame>>, Idle)

\* Mutant: the frame goes out and the estimate runs on.
PressMyRunsOn(sh) ==
    IF Moving(sh.lift) THEN Done(Abandon(sh), <<"My">>, Idle)
    ELSE IF sh.fav # NoFav THEN SeekReliably(sh, sh.fav)
    ELSE Done(sh, << >>, Idle)

\* My stops a shade thought to move, and recalls the favourite of one at rest.
PressMy(sh) ==
    IF Moving(sh.lift)
    THEN LET gone == Abandon(sh)
         IN  Done([gone EXCEPT !.lift = Halt(@, sh.cfg)], <<"My">>, Idle)
    ELSE IF sh.fav # NoFav THEN SeekReliably(sh, sh.fav)
    ELSE Done(sh, << >>, Idle)

Run(sh, leg, act) == Done(Toward(Abandon(sh), Limit(leg)), <<leg>>, act)

\* ShadeCommand, and the run that an operator times.
ShadeCommands ==
    [kind : {"Up", "Down", "Vent", "My", "StepUp", "StepDown", "Pair"}]
    \cup [kind : {"GoTo"}, pos : Positions]
    \cup [kind : {"SetMy"}, pos : Positions \cup {NoFav}]
    \cup [kind : {"Calibrate"}, leg : Legs]

\* handle, once the shade is synchronised with the clock
Obey(sh, cmd) ==
    CASE cmd.kind \in Legs -> Run(sh, cmd.kind, Idle)
      [] cmd.kind = "Vent" -> Run(sh, "Down", Closing(sh.cfg.down))
      [] cmd.kind = "My" -> PressMy(sh)
      [] cmd.kind = "GoTo" -> SeekReliably(sh, cmd.pos)
      [] cmd.kind \in {"StepUp", "StepDown"} -> Step(sh, cmd.kind = "StepUp")
      [] cmd.kind = "SetMy" -> Done([sh EXCEPT !.fav = cmd.pos], << >>, Idle)
      [] cmd.kind = "Pair" -> Done(Abandon(sh), <<"Prog">>, Idle)
      [] cmd.kind = "Calibrate" -> Run(sh, cmd.leg, Timing(cmd.leg))

\* Every command first does what the tick would have done by now.
Handle(sh, cmd) ==
    [Obey(Ticked(sh), cmd) EXCEPT !.tx = TickTx(sh) \o @]

(***************************************************************************)
(* advance: a movement whose wait is over takes its next leg.              *)
(***************************************************************************)
NextLeg(sh, act) ==
    IF Waiting(act) /\ act.wait > 0 THEN Done(sh, << >>, act)
    ELSE CASE act.kind = "closing" ->
                  Done(ReachLimit(sh, FULL), <<"Up">>, Separating(sh.cfg.lag + sh.cfg.vent))
           [] act.kind = "separating" -> Done(sh, <<"My">>, Idle)
           [] act.kind = "anchoring" -> Seek(ReachLimit(sh, act.limit), act.target)
           [] OTHER -> Done(sh, << >>, act)

OnTick(sh, act) ==
    [NextLeg(Ticked(sh), act) EXCEPT !.tx = TickTx(sh) \o @]

\* A wall remote's frame: the motor has it already, only the estimate follows.
Follow(own, frame) ==
    CASE frame \in Legs -> Toward(own, Limit(frame))
      [] frame = "My" /\ Moving(own.lift) -> [own EXCEPT !.lift = Halt(@, own.cfg)]
      [] frame = "My" /\ ~Moving(own.lift) /\ own.fav # NoFav -> Toward(own, own.fav)
      [] frame \in {"StepUp", "StepDown"} -> StepTarget(own, frame = "StepUp")
      [] OTHER -> own

Overheard(sh, frame) == Follow(Abandon(Advance(sh)), frame)

\* A new configuration keeps the address and what was reported of the pairing.
Reconfigure(sh, cfg) ==
    [sh EXCEPT !.lift = Reanchor(@, sh.cfg), !.cfg = cfg]

\* The measured time is stored, and the shade is where its motor stopped.
Measured(cfg, run) ==
    IF run.leg = "Up" THEN [cfg EXCEPT !.up = run.ran, !.upSource = "measured"]
                      ELSE [cfg EXCEPT !.down = run.ran, !.downSource = "measured"]

Plausible(sh, run) ==
    run.ran \in 1..MAX_TRAVEL /\ BandsFit(Measured(sh.cfg, run))

Calibrated(sh, run) ==
    ReachLimit([sh EXCEPT !.cfg = Measured(@, run)], Limit(run.leg))
=============================================================================
