---- MODULE RxDeduper ----
(* The repeats of a press made one event (somfy-rts dedupe.rs): a small map  *)
(* of the pairs of address and code heard last, each with the time it was    *)
(* let through, on a clock that wraps.                                       *)
EXTENDS Integers, SequencesExt

CONSTANTS Pairs,      \* addresses with rolling codes
          REMEMBERED, \* pairs remembered: 8 in the code
          WINDOW,     \* how long a pair is one press
          MODULUS,    \* of the clock: 2^32 in the code
          MAX_TIME,   \* bound of the model on the time that passes
          MAX_HEARD   \* and on the frames heard

VARIABLES seen,    \* the pairs remembered and the clock when each was let through
          now_ms,  \* the clock
          passed,  \* the time since the start, which does not wrap
          heard    \* every frame: the pair, the time, and whether it was let through

dedupeVars == <<seen, now_ms, passed, heard>>

DedupeInit == /\ seen = <<>>
              /\ now_ms \in 0..(MODULUS - 1)
              /\ passed = 0
              /\ heard = <<>>

\* Mutant: the clock does not wrap.
SinceUnwrapped(t) == IF now_ms >= t THEN now_ms - t ELSE 0

Since(t) == (now_ms - t) % MODULUS

Repeated(pair) == pair \in DOMAIN seen /\ Since(seen[pair]) < WINDOW

(* Who makes room: the pair let through longest ago, one of those if several.*)
Oldest == {p \in DOMAIN seen : \A q \in DOMAIN seen : Since(seen[q]) <= Since(seen[p])}

Remember(kept, pair) ==
    seen' = [p \in kept \cup {pair} |-> IF p = pair THEN now_ms ELSE seen[p]]

Passed(pair) ==
    \/ /\ pair \in DOMAIN seen \/ Cardinality(DOMAIN seen) < REMEMBERED
       /\ Remember(DOMAIN seen, pair)
    \/ /\ pair \notin DOMAIN seen /\ Cardinality(DOMAIN seen) = REMEMBERED
       /\ \E oldest \in Oldest : Remember(DOMAIN seen \ {oldest}, pair)

Accept(pair) ==
    /\ heard' = Append(heard, [pair |-> pair, at |-> passed, through |-> ~Repeated(pair)])
    /\ IF Repeated(pair) THEN UNCHANGED seen ELSE Passed(pair)
    /\ UNCHANGED <<now_ms, passed>>

Later ==
    /\ passed < MAX_TIME
    /\ now_ms' = (now_ms + 1) % MODULUS
    /\ passed' = passed + 1
    /\ UNCHANGED <<seen, heard>>

\* heard is cut for the model's sake: nothing in the code keeps it.
DedupeNext == (\E pair \in Pairs : Len(heard) < MAX_HEARD /\ Accept(pair)) \/ Later

DedupeSpec == DedupeInit /\ [][DedupeNext]_dedupeVars

(* ---- Properties. -------------------------------------------------------- *)

(* The values of the variables; the map never holds more than it has room    *)
(* for.                                                                      *)
DedupeTypeOK ==
    /\ DOMAIN seen \subseteq Pairs /\ Cardinality(DOMAIN seen) <= REMEMBERED
    /\ \A p \in DOMAIN seen : seen[p] \in 0..(MODULUS - 1)
    /\ now_ms \in 0..(MODULUS - 1) /\ passed \in 0..MAX_TIME

OthersSince(i, j) ==
    {heard[k].pair : k \in {k \in 1..(j - 1) : heard[k].through /\ heard[k].at >= heard[i].at}}
        \ {heard[i].pair}

(* A press is one event: a pair is not let through twice within the window,  *)
(* across a wrap of the clock or not, unless so many others came since, or    *)
(* with it, that the map had no room for it (RxDeduper::accept,              *)
(* evict_oldest).                                                            *)
OneEventAPress ==
    \A i, j \in DOMAIN heard :
        i < j /\ heard[i].pair = heard[j].pair /\ heard[i].through /\ heard[j].through =>
            \/ heard[j].at - heard[i].at >= WINDOW
            \/ Cardinality(OthersSince(i, j)) >= REMEMBERED

(* Nothing is taken for a repeat that is not one: a frame is dropped only if *)
(* its pair was let through less than a window ago.                          *)
OnlyRepeatsDropped ==
    \A j \in DOMAIN heard :
        ~heard[j].through =>
            \E i \in 1..(j - 1) : /\ heard[i].pair = heard[j].pair /\ heard[i].through
                                  /\ heard[j].at - heard[i].at < WINDOW

(* A press is one event, and two presses are two, across a wrap of the clock.*)
DedupeSafe == DedupeTypeOK /\ OneEventAPress /\ OnlyRepeatsDropped
====
