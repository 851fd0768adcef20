------------------------------- MODULE Motion -------------------------------
(***************************************************************************)
(* Dead reckoning of one axis: somfy-domain/src/motion.rs.                 *)
(*                                                                         *)
(* A motion is where the axis is thought to be, where it was sent, where   *)
(* it set out from and how long ago.  The position is computed from the    *)
(* start and the time, never integrated, in the code's integer arithmetic. *)
(* Positions run from 0 (open) to FULL (closed).  A travel profile t gives *)
(* the time of a whole traverse up and down, and the parts of it in which  *)
(* the curtain does not move: the start lag and one band each way.         *)
(***************************************************************************)
EXTENDS Integers

CONSTANT FULL  \* Pos::FULL, 10 000 in the code

ASSUME FullAssumption == FULL \in Nat \ {0}

Positions == 0..FULL
Limits == {0, FULL}

Motions == [pos : Positions, target : Positions, start : Positions, elapsed : Nat]

Resting(p) == [pos |-> p, target |-> p, start |-> p, elapsed |-> 0]

GoingDown(m) == m.pos < m.target
GoingUp(m) == m.pos > m.target
Moving(m) == m.pos # m.target

\* u64 saturating_sub, abs_diff and min
Less(a, b) == IF a > b THEN a - b ELSE 0
Apart(a, b) == IF a > b THEN a - b ELSE b - a
Least(a, b) == IF a < b THEN a ELSE b

\* Time passes.  The clock of a motion is read only while it moves.
Elapse(m) == [m EXCEPT !.elapsed = IF Moving(m) THEN @ + 1 ELSE 0]

SetTarget(m, p) == [m EXCEPT !.target = p, !.start = m.pos, !.elapsed = 0]

\* The part of a traverse that moves the curtain.
Span(m, t) == IF GoingDown(m) THEN Less(Less(t.down, t.lag), t.close)
                              ELSE Less(Less(t.up, t.lag), t.vent)

\* The time before the curtain moves: from the closed limit, slats part first.
Dead(m, t) == t.lag + IF GoingUp(m) /\ m.start = FULL THEN t.vent ELSE 0

\* Where a run of ran time units, of the span of a traverse, has come to.
Covered(m, span, ran) ==
    LET behind == (m.start * span) \div FULL
    IN  IF span = 0 THEN m.target
        ELSE IF GoingDown(m)
             THEN (Least(behind + ran, span) * FULL) \div span
             ELSE FULL - (Least(span - behind + ran, span) * FULL) \div span

Estimate(m, t) == Covered(m, Span(m, t), Less(m.elapsed, Dead(m, t)))

\* A motion that reaches or crosses its target is there.
Landed(m, p) ==
    IF \/ GoingDown(m) /\ p >= m.target
       \/ GoingUp(m) /\ p <= m.target
    THEN m.target ELSE p

Advanced(m, t) ==
    IF Moving(m) THEN [m EXCEPT !.pos = Landed(m, Estimate(m, t))] ELSE m

\* Milliseconds to the target, for a motion that moves.
Remaining(m, t) ==
    Less(Dead(m, t), m.elapsed) + (Apart(m.pos, m.target) * Span(m, t)) \div FULL

HaltAt(m, p) == [m EXCEPT !.pos = p, !.target = p, !.start = p]
Halt(m, t) == HaltAt(m, Advanced(m, t).pos)

ReanchorAt(m, p) == [m EXCEPT !.pos = p, !.start = p, !.elapsed = 0]
Reanchor(m, t) == ReanchorAt(m, Advanced(m, t).pos)
=============================================================================
