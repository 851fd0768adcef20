--------------------------- MODULE CommandLimiter ---------------------------
(***************************************************************************)
(* How often a shade may be commanded: somfy-tasks/src/limit.rs, consulted *)
(* by StateMachine::apply for every command of either transport.           *)
(*                                                                         *)
(* A bucket per shade is one number, the second at which its allowance is  *)
(* whole again; a command pushes it REFILL seconds on, and is refused      *)
(* while it is more than (BURST - 1) * REFILL ahead.  window and since are *)
(* an observer's: any moment, and the commands admitted after it.          *)
(***************************************************************************)
EXTENDS Integers

CONSTANTS Ids,     \* shades
          BURST,   \* commands back to back
          REFILL,  \* REFILL_INTERVAL_S
          MS,      \* milliseconds in a second
          MAX_S,   \* u32::MAX, where the schedule saturates
          MaxNow,  \* bound: the clock of a run, in milliseconds
          MaxSince \* bound: the commands an observer counts

ASSUME LimiterAssumption ==
    /\ BURST \in Nat \ {0} /\ REFILL \in Nat \ {0}
    /\ MS \in Nat \ {0} /\ MAX_S \in Nat /\ MaxNow \in Nat /\ MaxSince \in Nat

VARIABLES now,        \* milliseconds since boot
          exhausted,  \* exhausted_at_s
          offer,      \* the last refusal: who asked, and when to ask again
          window,     \* the second an observer began to count
          since       \* commands admitted since, for each shade

vars == <<now, exhausted, offer, window, since>>

Larger(a, b) == IF a > b THEN a ELSE b
Capped(s) == IF s > MAX_S THEN MAX_S ELSE s

Seconds(ms) == Capped(ms \div MS)

TOLERANCE == (BURST - 1) * REFILL

\* How long, in seconds, until a shade may be commanded; 0 if it may be now.
WaitFor(id) ==
    LET ahead == Larger(exhausted[id], Seconds(now)) - Seconds(now)
    IN  IF ahead > TOLERANCE THEN ahead - TOLERANCE ELSE 0

NoOffer == [who |-> {}, at |-> 0]

\* Types, and counts that stay in their bounds.
TypeOK ==
    /\ now \in 0..MaxNow
    /\ exhausted \in [Ids -> 0..MAX_S]
    /\ offer \in [who : SUBSET Ids, at : Nat]
    /\ window \in 0..Seconds(now)
    /\ since \in [Ids -> 0..MaxSince]

Init ==
    /\ now = 0
    /\ exhausted = [id \in Ids |-> 0]
    /\ offer = NoOffer
    /\ window = 0 /\ since = [id \in Ids |-> 0]

-----------------------------------------------------------------------------
\* Mutant: the schedule is pushed on from where it was, not from now at least.
ChargeLags(id) == Capped(exhausted[id] + REFILL)

\* The schedule of a shade after one more command.
Charge(id) == Capped(Larger(exhausted[id], Seconds(now)) + REFILL)

Admit(who) ==
    /\ \A id \in who : WaitFor(id) = 0 /\ since[id] < MaxSince
    /\ exhausted' = [id \in Ids |-> IF id \in who THEN Charge(id) ELSE exhausted[id]]
    /\ since' = [id \in Ids |-> IF id \in who THEN since[id] + 1 ELSE since[id]]
    /\ offer' = NoOffer
    /\ UNCHANGED <<now, window>>

\* The longest wait of any member is answered, and nobody is charged.
Refuse(who) ==
    /\ \E id \in who :
        /\ WaitFor(id) > 0
        /\ \A other \in who : WaitFor(other) <= WaitFor(id)
        /\ offer' = [who |-> who, at |-> now + WaitFor(id) * MS]
    /\ UNCHANGED <<now, exhausted, window, since>>

\* One shade, or the members of a group; an empty group is admitted.
Command == \E who \in SUBSET Ids : Admit(who) \/ Refuse(who)

TimePasses ==
    /\ now < MaxNow /\ now' = now + 1
    /\ UNCHANGED <<exhausted, offer, window, since>>

\* The observer starts to count again.
Observe ==
    /\ window' = Seconds(now)
    /\ since' = [id \in Ids |-> 0]
    /\ UNCHANGED <<now, exhausted, offer>>

Next == Command \/ TimePasses \/ Observe

Spec == Init /\ [][Next]_vars

-----------------------------------------------------------------------------
(* Properties                                                              *)

(***************************************************************************)
(* limit.rs: the flash wear a command loop can cause is bounded.  In any   *)
(* window a shade is given at most BURST commands and one more for every   *)
(* REFILL seconds of it, until the 32-bit schedule saturates.              *)
(***************************************************************************)
Unsaturated == Seconds(now) + BURST * REFILL < MAX_S

\* In every window, no more than the burst and what was refilled during it.
RateBounded ==
    Unsaturated => \A id \in Ids :
        since[id] * REFILL <= BURST * REFILL + (Seconds(now) - window)

(***************************************************************************)
(* "Try again after the delay" (TooSoon): whoever waits as long as he was  *)
(* told, and finds no other command admitted meanwhile, is admitted.       *)
(***************************************************************************)
RetryIsAdmitted == now >= offer.at => \A id \in offer.who : WaitFor(id) = 0

\* limit.rs: the flash is spared and nobody is kept waiting for longer than told.
LimiterSafe == TypeOK /\ RateBounded /\ RetryIsAdmitted
=============================================================================
