---------------------------- MODULE TransmitPath ----------------------------
(***************************************************************************)
(* From a planned frame to a motor: the state task's dispatch              *)
(* (somfy-tasks/src/state.rs), transmit (somfy-store/src/transmit.rs), the *)
(* bounded channel to the radio task (somfy-tasks/src/queue.rs), the radio *)
(* task's burst (somfy-tasks/src/radio.rs), and the motor that listens.    *)
(*                                                                         *)
(* The store is CodeStore, which FlashStore implements.  The tasks share   *)
(* one cooperative executor and dispatch never awaits, so the radio task   *)
(* moves only between dispatches; power may fail at any step.              *)
(***************************************************************************)
EXTENDS Integers, Sequences

CONSTANTS Addrs,     \* remote addresses, one motor each
          CODES,     \* modulus of the rolling code (2^16)
          DEPTH,     \* TRANSMIT_QUEUE_DEPTH
          REPEATS,   \* repeat frames after the first of a burst
          WINDOW,    \* how far ahead a motor accepts a code
          MaxBatch   \* bound: frames one command plans

ASSUME PathAssumption ==
    /\ CODES \in Nat /\ CODES >= 2
    /\ DEPTH \in Nat \ {0}
    /\ REPEATS \in Nat
    /\ WINDOW \in 1..(CODES - 1)
    /\ MaxBatch \in Nat \ {0}

Codes == 0..(CODES - 1)

VARIABLES durable, call, reply,  \* the store (CodeStore)
          planned,  \* addresses of the frames dispatch has still to send
          ticket,   \* the frame whose successor code is being committed
          queue,    \* the transmit channel
          air,      \* the burst the radio task is sending
          heard     \* the last code each motor accepted

vars == <<durable, call, reply, planned, ticket, queue, air, heard>>

Store == INSTANCE CodeStore

NoCode == Store!NoCode
NoFrame == [addr |-> "none"]
Frames == [addr : Addrs, code : Codes]
Silent == [left |-> -1]

\* u16 wrapping_add(1), and wrapping_sub: how far code d is ahead of code c
NextCode(c) == IF c = CODES - 1 THEN 0 ELSE c + 1
Distance(c, d) == IF c <= d THEN d - c ELSE d - c + CODES

\* Types, and a channel never over its depth.
TypeOK ==
    /\ Store!StoreTypeOK
    /\ planned \in Seq(Addrs)
    /\ ticket \in {NoFrame} \cup Frames
    /\ queue \in Seq(Frames) /\ Len(queue) <= DEPTH
    /\ air \in {Silent} \cup [frame : Frames, left : 0..REPEATS]
    /\ heard \in [Addrs -> Codes]

(***************************************************************************)
(* Some addresses are seeded; the store holds the code after the one their *)
(* motor heard last, which is what pairing or an import leaves.            *)
(***************************************************************************)
Init ==
    /\ heard \in [Addrs -> Codes]
    /\ durable \in {d \in [Addrs -> Codes \cup {NoCode}] :
                       \A a \in Addrs : d[a] \in {NextCode(heard[a]), NoCode}}
    /\ call = Store!NoCall /\ reply = "none"
    /\ planned = << >> /\ ticket = NoFrame
    /\ queue = << >> /\ air = Silent

-----------------------------------------------------------------------------
(* The state task                                                          *)

\* A command, an edit or a tick leaves frames to send.
Command ==
    /\ planned = << >>
    /\ \E n \in 1..MaxBatch : planned' \in [1..n -> Addrs]
    /\ UNCHANGED <<durable, call, reply, ticket, queue, air, heard>>

\* Mutant: the frame is tried again instead of the next one.
SkipFrameRetries ==
    /\ planned # << >> /\ ticket = NoFrame
    /\ Store!Refuse
    /\ UNCHANGED <<planned, ticket, queue, air, heard>>

\* NoStoredCode, or a store that cannot be read: the next frame is tried.
SkipFrame ==
    /\ planned # << >> /\ ticket = NoFrame
    /\ Store!Refuse
    /\ planned' = Tail(planned)
    /\ UNCHANGED <<ticket, queue, air, heard>>

(***************************************************************************)
(* load, next_frame: the frame carries the stored code and its successor   *)
(* is handed to commit.  The guard on Distance is a bound: a motor that    *)
(* missed a whole turn of the counter cannot tell old codes from new.      *)
(***************************************************************************)
StartCommit ==
    /\ planned # << >> /\ ticket = NoFrame
    /\ LET a == Head(planned)
           code == durable[a]
       IN  /\ code # NoCode
           /\ Distance(heard[a], code) < CODES - 1
           /\ ticket' = [addr |-> a, code |-> code]
           /\ Store!Begin(a, NextCode(code))
    /\ UNCHANGED <<planned, queue, air, heard>>

CommitLands ==
    /\ Store!Land
    /\ UNCHANGED <<planned, ticket, queue, air, heard>>

(***************************************************************************)
(* commit returned Ok: the ticket is spent on try_send.  A full queue ends *)
(* the dispatch, and the code already committed is skipped.                *)
(***************************************************************************)
Enqueue ==
    /\ ticket # NoFrame
    /\ Store!Succeed
    /\ ticket' = NoFrame
    /\ IF Len(queue) < DEPTH
       THEN queue' = Append(queue, ticket) /\ planned' = Tail(planned)
       ELSE queue' = queue /\ planned' = << >>
    /\ UNCHANGED <<air, heard>>

\* Mutant: a commit error is ignored and the frame is sent all the same.
CommitFailsButSends ==
    /\ ticket # NoFrame /\ Len(queue) < DEPTH
    /\ Store!Fail
    /\ ticket' = NoFrame
    /\ queue' = Append(queue, ticket)
    /\ planned' = Tail(planned)
    /\ UNCHANGED <<air, heard>>

\* commit returned an error, whether or not the record landed: no frame.
CommitFails ==
    /\ ticket # NoFrame
    /\ Store!Fail
    /\ ticket' = NoFrame
    /\ planned' = Tail(planned)
    /\ UNCHANGED <<queue, air, heard>>

-----------------------------------------------------------------------------
(* The radio task and the motor                                            *)

\* receive().await: the next request becomes a burst of REPEATS + 1 frames.
Take ==
    /\ planned = << >> /\ air = Silent
    /\ queue # << >>
    /\ air' = [frame |-> Head(queue), left |-> REPEATS]
    /\ queue' = Tail(queue)
    /\ UNCHANGED <<durable, call, reply, planned, ticket, heard>>

\* A motor accepts a code a little ahead of the last one it accepted.
Accepts(a, code) == Distance(heard[a], code) \in 1..WINDOW

\* One frame of the burst goes out; the motor may be out of earshot.
SendFrame ==
    /\ planned = << >> /\ air # Silent
    /\ air' = IF air.left = 0 THEN Silent ELSE [air EXCEPT !.left = @ - 1]
    /\ \/ UNCHANGED heard
       \/ /\ Accepts(air.frame.addr, air.frame.code)
          /\ heard' = [heard EXCEPT ![air.frame.addr] = air.frame.code]
    /\ UNCHANGED <<durable, call, reply, planned, ticket, queue>>

\* Mutant: a failed burst is started over.
BurstFailsRetries ==
    /\ planned = << >> /\ air # Silent
    /\ air' = [air EXCEPT !.left = REPEATS]
    /\ UNCHANGED <<durable, call, reply, planned, ticket, queue, heard>>

\* The transmitter fails, or the frame cannot be encoded: the burst ends.
BurstFails ==
    /\ planned = << >> /\ air # Silent
    /\ air' = Silent
    /\ UNCHANGED <<durable, call, reply, planned, ticket, queue, heard>>

-----------------------------------------------------------------------------
\* Everything but the store is in memory.
PowerCut ==
    /\ Store!PowerCut
    /\ planned' = << >> /\ ticket' = NoFrame
    /\ queue' = << >> /\ air' = Silent
    /\ UNCHANGED heard

StateTask == SkipFrame \/ StartCommit \/ CommitLands \/ Enqueue \/ CommitFails
RadioTask == Take \/ SendFrame \/ BurstFails

Next == Command \/ StateTask \/ RadioTask \/ PowerCut

Spec == Init /\ [][Next]_vars

(***************************************************************************)
(* The executor polls every woken task, and the state task yields after a  *)
(* dispatch that sent anything (firmware/src/tasks.rs): between dispatches *)
(* the radio task gets its turn, however many commands keep arriving.      *)
(***************************************************************************)
Fairness == WF_vars(StateTask) /\ SF_vars(RadioTask)

FairSpec == Spec /\ Fairness

-----------------------------------------------------------------------------
(* Properties                                                              *)

(***************************************************************************)
(* transmit.rs, "commit, then and only then queue": every code waiting in  *)
(* the channel is one the motor has not accepted yet and the store has     *)
(* already moved past, so that no cut, at any step, can make the           *)
(* controller send it again.                                               *)
(***************************************************************************)
Spent(f) == Distance(heard[f.addr], f.code) < Distance(heard[f.addr], durable[f.addr])
Fresh(f) == Distance(heard[f.addr], f.code) > 0

\* No frame waits whose code the store has not moved past.
PersistedBeforeQueued ==
    \A i \in 1..Len(queue) :
        durable[queue[i].addr] # NoCode /\ Fresh(queue[i]) /\ Spent(queue[i])

\* The same of the burst on the air, whose code the motor may have accepted
\* from an earlier frame of that burst.
PersistedBeforeSent ==
    air # Silent => durable[air.frame.addr] # NoCode /\ Spent(air.frame)

(***************************************************************************)
(* One motor's frames leave in the order their codes were drawn: a later   *)
(* one overtaking an earlier would make the earlier a replay.              *)
(***************************************************************************)
Before(f, g) == f.addr = g.addr =>
    Distance(heard[f.addr], f.code) < Distance(heard[f.addr], g.code)

\* Neither the channel nor the burst puts a later code before an earlier one.
CodesInOrder ==
    /\ \A i, j \in 1..Len(queue) : i < j => Before(queue[i], queue[j])
    /\ air # Silent => \A i \in 1..Len(queue) : Before(air.frame, queue[i])

\* transmit.rs: the store is ahead of the channel and the air, and both are in order.
TransmitSafe == TypeOK /\ PersistedBeforeQueued /\ PersistedBeforeSent /\ CodesInOrder

(***************************************************************************)
(* dispatch: a frame that cannot be sent (no stored code, a failing store, *)
(* a full queue) holds up neither the others nor the state task.           *)
(***************************************************************************)
DispatchEnds == planned # << >> ~> planned = << >>

\* A full channel is a third of a second of backlog, not a dead end.
QueueDrains == Len(queue) = DEPTH ~> Len(queue) < DEPTH
=============================================================================
