--------------------------- MODULE OutboundProofs ---------------------------
(***************************************************************************)
(* What goes out, to the motors and to the broker.                         *)
(*                                                                         *)
(* First persist-before-transmit, for every number of addresses, code      *)
(* width, queue depth and burst length. Then the broker session: that what *)
(* the broker keeps is what the table holds, once the session has heard    *)
(* everything and said everything, for every number of slots, namespaces   *)
(* and places in the two queues between the session and the state task.    *)
(*                                                                         *)
(* The second rests on an invariant that follows an edit all the way: what *)
(* the session will believe once it is told the events that wait (Belief), *)
(* what the broker will keep once the plan is done (HereOK, GoneOK,        *)
(* StaleOK), and what the state task will be answered (AcksOK).            *)
(***************************************************************************)
EXTENDS TransmitPath, BrokerSession, FiniteSetTheorems, SequenceTheorems,
        WellFoundedInduction, TLAPS

-----------------------------------------------------------------------------
(* The inductive invariant                                                 *)

\* The ticket is the frame whose successor the store is committing.
TicketMatchesCall ==
    \/ ticket = NoFrame /\ call = Store!NoCall
    \/ /\ ticket # NoFrame /\ ticket \in Frames /\ planned # << >>
       /\ call = [addr |-> ticket.addr, code |-> NextCode(ticket.code)]
       /\ durable[ticket.addr] \in {ticket.code, NextCode(ticket.code)}
       /\ Fresh(ticket)
       /\ Distance(heard[ticket.addr], ticket.code) < CODES - 1

\* A stored code is ahead of its motor.
StoreAhead ==
    \A a \in Addrs : durable[a] # NoCode => Distance(heard[a], durable[a]) > 0

\* The frame being committed is behind no frame already sent on its way.
TicketLast ==
    ticket # NoFrame =>
        /\ \A i \in 1..Len(queue) : Before(queue[i], ticket)
        /\ air # Silent => Before(air.frame, ticket)

PathInv ==
    /\ TypeOK
    /\ TicketMatchesCall /\ StoreAhead /\ TicketLast
    /\ PersistedBeforeQueued /\ PersistedBeforeSent /\ CodesInOrder

-----------------------------------------------------------------------------
(* The wrapping counter                                                    *)

\* Distances are codes, and only equal codes are at distance 0.
LEMMA DistanceType ==
    ASSUME NEW c \in Codes, NEW d \in Codes
    PROVE  /\ Distance(c, d) \in Codes
           /\ Distance(c, d) = 0 <=> c = d
  BY PathAssumption DEF Codes, Distance

\* The next code is another code, one ahead, across the wrap too.
LEMMA NextCodeType ==
    ASSUME NEW c \in Codes
    PROVE  NextCode(c) \in Codes /\ NextCode(c) # c /\ Distance(c, NextCode(c)) = 1
  BY PathAssumption DEF Codes, NextCode, Distance

\* Short of a whole counter, the next code is one further ahead.
LEMMA DistanceNext ==
    ASSUME NEW h \in Codes, NEW c \in Codes, Distance(h, c) < CODES - 1
    PROVE  Distance(h, NextCode(c)) = Distance(h, c) + 1
  BY PathAssumption DEF Codes, NextCode, Distance

\* Of two codes ahead of a motor, the nearer is behind the farther.
LEMMA DistanceShift ==
    ASSUME NEW h \in Codes, NEW c \in Codes, NEW d \in Codes,
           Distance(h, c) <= Distance(h, d)
    PROVE  Distance(c, d) = Distance(h, d) - Distance(h, c)
  BY PathAssumption DEF Codes, Distance

-----------------------------------------------------------------------------
\* A store just provisioned, an empty channel and a silent radio.
LEMMA InitInv == Init => PathInv
  <1> SUFFICES ASSUME Init PROVE PathInv
      OBVIOUS
  <1> USE DEF Init, NoCode, Store!NoCode
  <1>1. TypeOK
    <2>1. durable \in [Addrs -> Codes \cup {NoCode}]
        OBVIOUS
    <2> QED BY <2>1, PathAssumption DEF TypeOK, Store!StoreTypeOK, Store!Replies
  <1>2. TicketMatchesCall /\ TicketLast
      BY DEF TicketMatchesCall, TicketLast, NoFrame
  <1>3. StoreAhead
      BY NextCodeType DEF StoreAhead
  <1>4. PersistedBeforeQueued /\ PersistedBeforeSent /\ CodesInOrder
      BY DEF PersistedBeforeQueued, PersistedBeforeSent, CodesInOrder
  <1> QED BY <1>1, <1>2, <1>3, <1>4 DEF PathInv

-----------------------------------------------------------------------------
(* One lemma per action                                                    *)

USE DEF NoCode, Store!NoCode

\* Facts every step needs about the shapes of the variables.
LEMMA Shapes ==
    ASSUME PathInv
    PROVE  /\ durable \in [Addrs -> Codes \cup {-1}]
           /\ heard \in [Addrs -> Codes]
           /\ queue \in Seq(Frames)
           /\ \A i \in 1..Len(queue) : queue[i] \in Frames
           /\ planned \in Seq(Addrs)
           /\ air # Silent => air.frame \in Frames /\ air.left \in 0..REPEATS
           /\ -1 \notin Codes
  <1>1. /\ durable \in [Addrs -> Codes \cup {-1}] /\ heard \in [Addrs -> Codes]
        /\ queue \in Seq(Frames) /\ planned \in Seq(Addrs)
        /\ air # Silent => air.frame \in Frames /\ air.left \in 0..REPEATS
      BY DEF PathInv, TypeOK, Store!StoreTypeOK
  <1>2. \A i \in 1..Len(queue) : queue[i] \in Frames
      BY <1>1, ElementOfSeq
  <1>3. -1 \notin Codes
      BY DEF Codes
  <1> QED BY <1>1, <1>2, <1>3

\* Planning frames draws no code.
LEMMA CommandInv ==
    ASSUME PathInv, Command PROVE PathInv'
  <1> USE DEF Command
  <1>1. ticket = NoFrame /\ call = Store!NoCall
      BY DEF PathInv, TicketMatchesCall
  <1>2. planned' \in Seq(Addrs)
      OBVIOUS
  <1>3. TypeOK'
      BY <1>2 DEF PathInv, TypeOK, Store!StoreTypeOK
  <1>4. TicketMatchesCall' /\ TicketLast'
      BY <1>1 DEF TicketMatchesCall, TicketLast
  <1>5. StoreAhead'
      BY DEF PathInv, StoreAhead
  <1>6. (PersistedBeforeQueued /\ PersistedBeforeSent /\ CodesInOrder)'
      BY DEF PathInv, PersistedBeforeQueued, PersistedBeforeSent, CodesInOrder,
             Fresh, Spent, Before
  <1> QED BY <1>3, <1>4, <1>5, <1>6 DEF PathInv

\* A frame that cannot be sent is dropped before a code is drawn.
LEMMA SkipFrameInv ==
    ASSUME PathInv, SkipFrame PROVE PathInv'
  <1> USE DEF SkipFrame, Store!Refuse
  <1>1. ticket = NoFrame /\ call = Store!NoCall
      BY DEF PathInv, TicketMatchesCall
  <1>2. planned' \in Seq(Addrs)
      BY Shapes
  <1>3. TypeOK'
      BY <1>2 DEF PathInv, TypeOK, Store!StoreTypeOK, Store!Replies
  <1>4. TicketMatchesCall' /\ TicketLast'
      BY <1>1 DEF TicketMatchesCall, TicketLast
  <1>5. StoreAhead'
      BY DEF PathInv, StoreAhead
  <1>6. (PersistedBeforeQueued /\ PersistedBeforeSent /\ CodesInOrder)'
      BY DEF PathInv, PersistedBeforeQueued, PersistedBeforeSent, CodesInOrder,
             Fresh, Spent, Before
  <1> QED BY <1>3, <1>4, <1>5, <1>6 DEF PathInv

\* The code drawn is the stored one, later than all on their way.
LEMMA StartCommitInv ==
    ASSUME PathInv, StartCommit PROVE PathInv'
  <1> USE DEF StartCommit, Store!Begin
  <1> DEFINE a == Head(planned)
  <1>1. a \in Addrs /\ durable[a] \in Codes
      BY Shapes
  <1>2. /\ ticket' = [addr |-> a, code |-> durable[a]]
        /\ call' = [addr |-> a, code |-> NextCode(durable[a])]
        /\ Distance(heard[a], durable[a]) < CODES - 1
        /\ UNCHANGED <<durable, planned, queue, air, heard>>
      OBVIOUS
  <1>3. ticket' \in Frames /\ ticket' # NoFrame /\ NextCode(durable[a]) \in Codes
    <2>1. DOMAIN ticket' = {"addr", "code"} /\ DOMAIN NoFrame = {"addr"}
        BY <1>2 DEF NoFrame
    <2> QED BY <2>1, <1>1, <1>2, NextCodeType DEF Frames
  <1>4. TypeOK'
      BY <1>1, <1>2, <1>3 DEF PathInv, TypeOK, Store!StoreTypeOK, Store!Replies
  <1>5. TicketMatchesCall'
      BY <1>1, <1>2, <1>3, Shapes DEF PathInv, StoreAhead, TicketMatchesCall, Fresh
  <1>6. TicketLast'
      BY <1>2 DEF PathInv, TicketLast, PersistedBeforeQueued, PersistedBeforeSent,
                  Before, Spent
  <1>7. StoreAhead'
      BY <1>2 DEF PathInv, StoreAhead
  <1>8. (PersistedBeforeQueued /\ PersistedBeforeSent /\ CodesInOrder)'
      BY <1>2 DEF PathInv, PersistedBeforeQueued, PersistedBeforeSent, CodesInOrder,
                  Fresh, Spent, Before
  <1> QED BY <1>4, <1>5, <1>6, <1>7, <1>8 DEF PathInv

\* Moving the store past the ticket's code leaves every other frame where it was.
LEMMA LandedInv ==
    ASSUME PathInv, ticket # NoFrame,
           durable' \in {durable, Store!Landed}, UNCHANGED heard
    PROVE  /\ durable' \in [Addrs -> Codes \cup {-1}]
           /\ ticket \in Frames
           /\ durable'[ticket.addr] \in {ticket.code, NextCode(ticket.code)}
           /\ \A a \in Addrs : durable[a] # NoCode =>
                 /\ durable'[a] # NoCode
                 /\ Distance(heard[a], durable[a]) <= Distance(heard[a], durable'[a])
           /\ StoreAhead'
  <1> USE DEF Store!Landed
  <1>1. /\ ticket \in Frames
        /\ call = [addr |-> ticket.addr, code |-> NextCode(ticket.code)]
        /\ durable[ticket.addr] \in {ticket.code, NextCode(ticket.code)}
        /\ Distance(heard[ticket.addr], ticket.code) < CODES - 1
      BY DEF PathInv, TicketMatchesCall
  <1>2. ticket.addr \in Addrs /\ ticket.code \in Codes /\ NextCode(ticket.code) \in Codes
      BY <1>1, NextCodeType DEF Frames
  <1>3. durable' \in [Addrs -> Codes \cup {-1}]
      BY <1>1, <1>2, Shapes
  <1>4. /\ durable'[ticket.addr] \in {durable[ticket.addr], NextCode(ticket.code)}
        /\ \A a \in Addrs : a # ticket.addr => durable'[a] = durable[a]
      BY <1>1, <1>2, Shapes
  <1>5. heard[ticket.addr] \in Codes
      BY <1>2, Shapes
  <1>6. Distance(heard[ticket.addr], NextCode(ticket.code))
            = Distance(heard[ticket.addr], ticket.code) + 1
      BY <1>1, <1>2, <1>5, DistanceNext
  <1>7. Distance(heard[ticket.addr], ticket.code) \in Codes
      BY <1>2, <1>5, DistanceType
  <1>8. ASSUME NEW a \in Addrs, durable[a] # NoCode
        PROVE  /\ durable'[a] # NoCode
               /\ Distance(heard[a], durable[a]) <= Distance(heard[a], durable'[a])
    <2>1. CASE a = ticket.addr
        BY <2>1, <1>1, <1>2, <1>4, <1>6, <1>7, PathAssumption DEF Codes
    <2>2. CASE a # ticket.addr
      <3>1. durable'[a] = durable[a] /\ durable[a] \in Codes /\ heard[a] \in Codes
          BY <2>2, <1>4, <1>8, Shapes
      <3>2. Distance(heard[a], durable[a]) \in Codes
          BY <3>1, DistanceType
      <3> QED BY <3>1, <3>2, <1>8, PathAssumption DEF Codes
    <2> QED BY <2>1, <2>2
  <1>9. StoreAhead'
    <2> SUFFICES ASSUME NEW a \in Addrs, durable'[a] # NoCode
                 PROVE  Distance(heard[a], durable'[a]) > 0
        BY DEF StoreAhead
    <2>1. durable[a] # NoCode
        BY <1>1, <1>2, <1>4, Shapes
    <2>2. heard[a] \in Codes /\ durable[a] \in Codes /\ durable'[a] \in Codes
        BY <1>3, <2>1, Shapes
    <2>3. Distance(heard[a], durable[a]) \in Codes /\ Distance(heard[a], durable'[a]) \in Codes
        BY <2>2, DistanceType
    <2>4. Distance(heard[a], durable[a]) > 0
        BY <2>1 DEF PathInv, StoreAhead
    <2> QED BY <1>8, <2>1, <2>3, <2>4, PathAssumption DEF Codes
  <1> QED BY <1>1, <1>2, <1>3, <1>4, <1>8, <1>9

\* The frames already sent on their way stay spent when the store moves on.
LEMMA StillSpent ==
    ASSUME PathInv, ticket # NoFrame,
           durable' \in {durable, Store!Landed}, UNCHANGED <<queue, air, heard>>
    PROVE  (PersistedBeforeQueued /\ PersistedBeforeSent /\ CodesInOrder)'
  <1>1. \A a \in Addrs : durable[a] # NoCode =>
            /\ durable'[a] # NoCode
            /\ Distance(heard[a], durable[a]) <= Distance(heard[a], durable'[a])
            /\ Distance(heard[a], durable[a]) \in Codes
            /\ Distance(heard[a], durable'[a]) \in Codes
      BY LandedInv, Shapes, DistanceType
  <1>2. ASSUME NEW f \in Frames, durable[f.addr] # NoCode, Spent(f)
        PROVE  durable'[f.addr] # NoCode /\ Spent(f)'
    <2>1. f.addr \in Addrs /\ f.code \in Codes /\ heard[f.addr] \in Codes
        BY Shapes DEF Frames
    <2>2. Distance(heard[f.addr], f.code) \in Codes
        BY <2>1, DistanceType
    <2>3. Distance(heard[f.addr], f.code) < Distance(heard[f.addr], durable[f.addr])
        BY <1>2 DEF Spent
    <2> QED BY <1>1, <1>2, <2>1, <2>2, <2>3, PathAssumption DEF Spent, Codes
  <1>3. PersistedBeforeQueued'
      BY <1>2, Shapes DEF PathInv, PersistedBeforeQueued, Fresh
  <1>4. PersistedBeforeSent'
      BY <1>2, Shapes DEF PathInv, PersistedBeforeSent
  <1>5. CodesInOrder'
      BY DEF PathInv, CodesInOrder, Before
  <1> QED BY <1>3, <1>4, <1>5

\* The store moves on to the successor of the ticket.
LEMMA CommitLandsInv ==
    ASSUME PathInv, CommitLands PROVE PathInv'
  <1> USE DEF CommitLands, Store!Land
  <1>1. ticket # NoFrame
      BY DEF PathInv, TicketMatchesCall
  <1>2. TypeOK'
      BY <1>1, LandedInv DEF PathInv, TypeOK, Store!StoreTypeOK
  <1>3. TicketMatchesCall'
      BY <1>1, LandedInv DEF PathInv, TicketMatchesCall, Fresh
  <1>4. TicketLast'
      BY DEF PathInv, TicketLast, Before
  <1>5. StoreAhead'
      BY <1>1, LandedInv
  <1> QED BY <1>1, <1>2, <1>3, <1>4, <1>5, StillSpent DEF PathInv

\* A failed commit drops its frame, whether or not it landed.
LEMMA CommitFailsInv ==
    ASSUME PathInv, CommitFails PROVE PathInv'
  <1> USE DEF CommitFails, Store!Fail
  <1>1. ticket # NoFrame /\ planned # << >>
      BY DEF PathInv, TicketMatchesCall
  <1>2. TypeOK'
      BY <1>1, LandedInv, Shapes DEF PathInv, TypeOK, Store!StoreTypeOK, Store!Replies
  <1>3. TicketMatchesCall' /\ TicketLast'
      BY DEF TicketMatchesCall, TicketLast
  <1>5. StoreAhead'
      BY <1>1, LandedInv
  <1> QED BY <1>1, <1>2, <1>3, <1>5, StillSpent DEF PathInv

\* The ticket joins the channel behind frames with earlier codes.
LEMMA EnqueueInv ==
    ASSUME PathInv, Enqueue PROVE PathInv'
  <1> USE DEF Enqueue, Store!Succeed
  <1> DEFINE t == ticket
             n == Len(queue)
  <1>1. /\ t \in Frames /\ t # NoFrame /\ planned # << >>
        /\ durable[t.addr] = NextCode(t.code)
        /\ Fresh(t)
        /\ Distance(heard[t.addr], t.code) < CODES - 1
      BY DEF PathInv, TicketMatchesCall
  <1>2. /\ t.addr \in Addrs /\ t.code \in Codes
        /\ durable[t.addr] \in Codes /\ durable[t.addr] # NoCode
        /\ heard[t.addr] \in Codes
      BY <1>1, NextCodeType, Shapes DEF Frames
  <1>3. Spent(t)
    <2>1. Distance(heard[t.addr], durable[t.addr]) = Distance(heard[t.addr], t.code) + 1
        BY <1>1, <1>2, DistanceNext
    <2>2. Distance(heard[t.addr], t.code) \in Codes
        BY <1>2, DistanceType
    <2> QED BY <2>1, <2>2, PathAssumption DEF Spent, Codes
  <1>4. /\ planned' \in Seq(Addrs)
        /\ queue' \in Seq(Frames) /\ Len(queue') <= DEPTH
    <2>1. CASE n < DEPTH
      <3>1. planned' = Tail(planned) /\ queue' = Append(queue, t)
          BY <2>1
      <3>2. planned' \in Seq(Addrs)
          BY <3>1, <1>1, Shapes
      <3>3. queue' \in Seq(Frames) /\ Len(queue') = n + 1
          BY <3>1, <1>1, Shapes
      <3> QED BY <3>2, <3>3, <2>1, Shapes, PathAssumption
    <2>2. CASE ~(n < DEPTH)
        BY <2>2, Shapes DEF PathInv, TypeOK
    <2> QED BY <2>1, <2>2
  <1>5. \/ queue' = queue
        \/ /\ Len(queue') = n + 1 /\ queue'[n + 1] = t
           /\ \A i \in 1..n : queue'[i] = queue[i]
      BY <1>1, Shapes
  <1>6. n \in Nat
      BY Shapes
  <1>7. TypeOK'
      BY <1>4 DEF PathInv, TypeOK, Store!StoreTypeOK, Store!Replies
  <1>8. TicketMatchesCall' /\ TicketLast'
      BY DEF TicketMatchesCall, TicketLast
  <1>9. StoreAhead'
      BY DEF PathInv, StoreAhead
  <1>10. PersistedBeforeQueued'
    <2>1. \A i \in 1..n : durable[queue[i].addr] # NoCode /\ Fresh(queue[i]) /\ Spent(queue[i])
        BY DEF PathInv, PersistedBeforeQueued
    <2>2. CASE queue' = queue
        BY <2>1, <2>2 DEF PersistedBeforeQueued, Fresh, Spent
    <2>3. CASE /\ Len(queue') = n + 1 /\ queue'[n + 1] = t
               /\ \A i \in 1..n : queue'[i] = queue[i]
      <3> SUFFICES ASSUME NEW i \in 1..Len(queue')
                   PROVE  /\ durable[queue'[i].addr] # NoCode
                          /\ Fresh(queue'[i]) /\ Spent(queue'[i])
          BY DEF PersistedBeforeQueued, Fresh, Spent
      <3>1. CASE i \in 1..n
          BY <3>1, <2>1, <2>3
      <3>2. CASE i = n + 1
          BY <3>2, <2>3, <1>1, <1>2, <1>3
      <3> QED BY <3>1, <3>2, <2>3, <1>6
    <2> QED BY <1>5, <2>2, <2>3
  <1>11. PersistedBeforeSent'
      BY DEF PathInv, PersistedBeforeSent, Spent
  <1>12. CodesInOrder'
    <2>1. /\ \A i, j \in 1..n : i < j => Before(queue[i], queue[j])
          /\ air # Silent => \A i \in 1..n : Before(air.frame, queue[i])
          /\ \A i \in 1..n : Before(queue[i], t)
          /\ air # Silent => Before(air.frame, t)
        BY <1>1 DEF PathInv, CodesInOrder, TicketLast
    <2>2. CASE queue' = queue
        BY <2>1, <2>2 DEF CodesInOrder, Before
    <2>3. CASE /\ Len(queue') = n + 1 /\ queue'[n + 1] = t
               /\ \A i \in 1..n : queue'[i] = queue[i]
      <3>1. ASSUME NEW i \in 1..Len(queue'), NEW j \in 1..Len(queue'), i < j
            PROVE  Before(queue'[i], queue'[j])
        <4>1. i \in 1..n /\ (j \in 1..n \/ j = n + 1)
            BY <3>1, <2>3, <1>6
        <4> QED BY <4>1, <2>1, <2>3, <3>1
      <3>2. ASSUME air # Silent, NEW i \in 1..Len(queue')
            PROVE  Before(air.frame, queue'[i])
        <4>1. i \in 1..n \/ i = n + 1
            BY <2>3, <1>6
        <4> QED BY <4>1, <3>2, <2>1, <2>3
      <3> QED BY <3>1, <3>2 DEF CodesInOrder, Before
    <2> QED BY <1>5, <2>2, <2>3
  <1> QED BY <1>7, <1>8, <1>9, <1>10, <1>11, <1>12 DEF PathInv

\* The radio task takes the earliest frame.
LEMMA TakeInv ==
    ASSUME PathInv, Take PROVE PathInv'
  <1> USE DEF Take
  <1> DEFINE n == Len(queue)
  <1>1. ticket = NoFrame /\ call = Store!NoCall
      BY DEF PathInv, TicketMatchesCall
  <1>2. /\ n \in Nat /\ n > 0 /\ Len(queue') = n - 1
        /\ queue' \in Seq(Frames)
        /\ air' = [frame |-> queue[1], left |-> REPEATS]
        /\ queue[1] \in Frames
        /\ \A i \in 1..(n - 1) : i + 1 \in 1..n /\ queue'[i] = queue[i + 1]
      BY Shapes
  <1>3. TypeOK'
      BY <1>2, PathAssumption DEF PathInv, TypeOK, Store!StoreTypeOK
  <1>4. TicketMatchesCall' /\ TicketLast'
      BY <1>1 DEF TicketMatchesCall, TicketLast
  <1>5. StoreAhead'
      BY DEF PathInv, StoreAhead
  <1>6. PersistedBeforeQueued' /\ PersistedBeforeSent'
      BY <1>2 DEF PathInv, PersistedBeforeQueued, PersistedBeforeSent, Fresh, Spent
  <1>7. CodesInOrder'
    <2>1. \A i, j \in 1..n : i < j => Before(queue[i], queue[j])
        BY DEF PathInv, CodesInOrder
    <2>2. ASSUME NEW i \in 1..(n - 1), NEW j \in 1..(n - 1), i < j
          PROVE  Before(queue'[i], queue'[j])
        BY <1>2, <2>1, <2>2
    <2>3. ASSUME NEW i \in 1..(n - 1) PROVE Before(air'.frame, queue'[i])
        BY <1>2, <2>1
    <2> QED BY <1>2, <2>2, <2>3 DEF CodesInOrder, Before
  <1> QED BY <1>3, <1>4, <1>5, <1>6, <1>7 DEF PathInv

\* A failed burst drops its frame and reorders nothing.
LEMMA BurstFailsInv ==
    ASSUME PathInv, BurstFails PROVE PathInv'
  <1> USE DEF BurstFails
  <1>1. ticket = NoFrame /\ call = Store!NoCall
      BY DEF PathInv, TicketMatchesCall
  <1>2. TypeOK'
      BY DEF PathInv, TypeOK, Store!StoreTypeOK
  <1>3. TicketMatchesCall' /\ TicketLast'
      BY <1>1 DEF TicketMatchesCall, TicketLast
  <1>4. StoreAhead'
      BY DEF PathInv, StoreAhead
  <1>5. (PersistedBeforeQueued /\ PersistedBeforeSent /\ CodesInOrder)'
      BY DEF PathInv, PersistedBeforeQueued, PersistedBeforeSent, CodesInOrder,
             Fresh, Spent, Before
  <1> QED BY <1>2, <1>3, <1>4, <1>5 DEF PathInv

\* A cut empties the channel and leaves the store ahead.
LEMMA PowerCutInv ==
    ASSUME PathInv, PowerCut PROVE PathInv'
  <1> USE DEF PowerCut, Store!PowerCut
  <1>1. durable' \in {durable, Store!Landed}
      OBVIOUS
  <1>2. durable' \in [Addrs -> Codes \cup {-1}] /\ StoreAhead'
    <2>1. CASE ticket # NoFrame
        BY <1>1, <2>1, LandedInv
    <2>2. CASE ticket = NoFrame
      <3>1. call = Store!NoCall
          BY <2>2 DEF PathInv, TicketMatchesCall
      <3>2. durable' = durable
          BY <3>1
      <3> QED BY <3>2, Shapes DEF PathInv, StoreAhead
    <2> QED BY <2>1, <2>2
  <1>3. TypeOK'
      BY <1>2, PathAssumption DEF PathInv, TypeOK, Store!StoreTypeOK, Store!Replies
  <1>4. TicketMatchesCall' /\ TicketLast'
      BY DEF TicketMatchesCall, TicketLast
  <1>5. (PersistedBeforeQueued /\ PersistedBeforeSent /\ CodesInOrder)'
      BY DEF PersistedBeforeQueued, PersistedBeforeSent, CodesInOrder
  <1> QED BY <1>2, <1>3, <1>4, <1>5 DEF PathInv

(***************************************************************************)
(* The motor takes the code on the air: every distance from it shrinks by  *)
(* the same amount, and all that was ahead of the burst stays ahead.       *)
(***************************************************************************)
LEMMA AcceptInv ==
    ASSUME PathInv, air # Silent, NEW f \in Frames, f = air.frame,
           heard' = [heard EXCEPT ![f.addr] = f.code],
           UNCHANGED <<durable, queue>>
    PROVE  /\ StoreAhead' /\ PersistedBeforeQueued'
           /\ durable[f.addr] # NoCode /\ Spent(f)'
           /\ \A i, j \in 1..Len(queue) : i < j => Before(queue[i], queue[j])'
           /\ \A i \in 1..Len(queue) : Before(f, queue[i])'
  <1> DEFINE m == f.addr
             D(h, c) == Distance(h, c)
  <1>1. /\ m \in Addrs /\ f.code \in Codes /\ heard[m] \in Codes
        /\ durable[m] # NoCode /\ durable[m] \in Codes
        /\ D(heard[m], f.code) < D(heard[m], durable[m])
      BY Shapes DEF PathInv, PersistedBeforeSent, Spent, Frames
  <1>2. /\ heard'[m] = f.code
        /\ \A a \in Addrs : a # m => heard'[a] = heard[a]
        /\ D(heard[m], f.code) \in Codes
      BY <1>1, Shapes, DistanceType
  <1>3. ASSUME NEW c \in Codes, D(heard[m], f.code) < D(heard[m], c)
        PROVE  /\ D(f.code, c) = D(heard[m], c) - D(heard[m], f.code)
               /\ D(heard[m], c) \in Codes /\ D(f.code, c) > 0
    <2>1. D(heard[m], c) \in Codes
        BY <1>1, DistanceType
    <2>2. D(heard[m], f.code) <= D(heard[m], c)
        BY <2>1, <1>2, <1>3, PathAssumption DEF Codes
    <2>3. D(f.code, c) = D(heard[m], c) - D(heard[m], f.code)
        BY <2>2, <1>1, DistanceShift
    <2> QED BY <2>1, <2>3, <1>2, <1>3, PathAssumption DEF Codes
  <1>4. D(f.code, durable[m]) > 0 /\ D(f.code, f.code) = 0
      BY <1>1, <1>3, DistanceType
  <1>5. StoreAhead'
    <2> SUFFICES ASSUME NEW a \in Addrs, durable[a] # NoCode
                 PROVE  D(heard'[a], durable[a]) > 0
        BY DEF StoreAhead
    <2>1. CASE a = m
        BY <2>1, <1>2, <1>4
    <2>2. CASE a # m
        BY <2>2, <1>2 DEF PathInv, StoreAhead
    <2> QED BY <2>1, <2>2
  <1>6. Spent(f)'
      BY <1>2, <1>4 DEF Spent
  \* Every waiting frame of this motor is further ahead than the burst.
  <1>7. ASSUME NEW i \in 1..Len(queue), queue[i].addr = m
        PROVE  /\ queue[i].code \in Codes
               /\ D(heard[m], f.code) < D(heard[m], queue[i].code)
               /\ D(heard[m], queue[i].code) < D(heard[m], durable[m])
               /\ D(f.code, queue[i].code)
                     = D(heard[m], queue[i].code) - D(heard[m], f.code)
               /\ D(f.code, queue[i].code) > 0
    <2>1. /\ queue[i].code \in Codes
          /\ D(heard[m], f.code) < D(heard[m], queue[i].code)
          /\ D(heard[m], queue[i].code) < D(heard[m], durable[m])
        BY <1>7, Shapes DEF PathInv, CodesInOrder, Before, PersistedBeforeQueued,
                            Spent, Frames
    <2> QED BY <2>1, <1>3
  <1>8. PersistedBeforeQueued'
    <2> SUFFICES ASSUME NEW i \in 1..Len(queue)
                 PROVE  /\ durable[queue[i].addr] # NoCode
                        /\ D(heard'[queue[i].addr], queue[i].code) > 0
                        /\ D(heard'[queue[i].addr], queue[i].code)
                             < D(heard'[queue[i].addr], durable[queue[i].addr])
        BY DEF PersistedBeforeQueued, Fresh, Spent
    <2>1. CASE queue[i].addr = m
      <3>1. /\ D(f.code, durable[m]) = D(heard[m], durable[m]) - D(heard[m], f.code)
            /\ D(heard[m], durable[m]) \in Codes
            /\ D(heard[m], queue[i].code) \in Codes
          BY <1>1, <1>3, <1>7, <2>1
      <3>2. D(f.code, queue[i].code) < D(f.code, durable[m])
          BY <3>1, <2>1, <1>2, <1>7 DEF Codes
      <3> QED BY <3>2, <2>1, <1>1, <1>2, <1>7
    <2>2. CASE queue[i].addr # m
        BY <2>2, <1>2, Shapes DEF PathInv, PersistedBeforeQueued, Fresh, Spent, Frames
    <2> QED BY <2>1, <2>2
  <1>9. ASSUME NEW i \in 1..Len(queue), NEW j \in 1..Len(queue), i < j
        PROVE  Before(queue[i], queue[j])'
    <2> DEFINE a == queue[i].addr
    <2> SUFFICES ASSUME a = queue[j].addr
                 PROVE  D(heard'[a], queue[i].code) < D(heard'[a], queue[j].code)
        BY DEF Before
    <2>1. D(heard[a], queue[i].code) < D(heard[a], queue[j].code) /\ a \in Addrs
        BY <1>9, Shapes DEF PathInv, CodesInOrder, Before, Frames
    <2>2. CASE a = m
      <3>1. D(heard[m], queue[i].code) \in Codes /\ D(heard[m], queue[j].code) \in Codes
          BY <1>3, <1>7, <2>2
      <3>2. /\ D(f.code, queue[i].code) = D(heard[m], queue[i].code) - D(heard[m], f.code)
            /\ D(f.code, queue[j].code) = D(heard[m], queue[j].code) - D(heard[m], f.code)
            /\ D(heard[m], queue[i].code) < D(heard[m], queue[j].code)
          BY <2>1, <2>2, <1>7
      <3>3. D(f.code, queue[i].code) < D(f.code, queue[j].code)
        <4> HIDE DEF D
        <4> QED BY <3>1, <3>2, <1>2, PathAssumption DEF Codes
      <3> QED BY <3>3, <2>2, <1>2
    <2>3. CASE a # m
        BY <2>1, <2>3, <1>2
    <2> QED BY <2>2, <2>3
  <1>10. ASSUME NEW i \in 1..Len(queue)
         PROVE  Before(f, queue[i])'
      BY <1>2, <1>4, <1>7 DEF Before
  <1> QED BY <1>1, <1>5, <1>6, <1>8, <1>9, <1>10

\* A frame on the air reaches its motor or does not.
LEMMA SendFrameInv ==
    ASSUME PathInv, SendFrame PROVE PathInv'
  <1> USE DEF SendFrame
  <1>1. ticket = NoFrame /\ call = Store!NoCall
      BY DEF PathInv, TicketMatchesCall
  <1>2. PICK f \in Frames : f = air.frame
      BY Shapes
  <1>3. air' = Silent \/ (air'.frame = f /\ air' = [frame |-> f, left |-> air.left - 1]
                          /\ air.left # 0)
      BY <1>2, Shapes DEF PathInv, TypeOK
  <1>4. TicketMatchesCall' /\ TicketLast'
      BY <1>1 DEF TicketMatchesCall, TicketLast
  <1>5. heard' \in [Addrs -> Codes]
      BY <1>2, Shapes DEF Frames
  <1>6. TypeOK'
    <2>1. air' \in {Silent} \cup [frame : Frames, left : 0..REPEATS]
        BY <1>2, <1>3, Shapes, PathAssumption
    <2> QED BY <1>5, <2>1, Shapes DEF PathInv, TypeOK, Store!StoreTypeOK
  <1>7. CASE UNCHANGED heard
    <2>1. StoreAhead' /\ PersistedBeforeQueued'
        BY <1>7 DEF PathInv, StoreAhead, PersistedBeforeQueued, Fresh, Spent
    <2>2. PersistedBeforeSent' /\ CodesInOrder'
        BY <1>2, <1>3, <1>7 DEF PathInv, PersistedBeforeSent, CodesInOrder, Spent, Before
    <2> QED BY <1>4, <1>6, <2>1, <2>2 DEF PathInv
  <1>8. CASE heard' = [heard EXCEPT ![f.addr] = f.code]
    <2>1. /\ StoreAhead' /\ PersistedBeforeQueued'
          /\ durable[f.addr] # NoCode /\ Spent(f)'
          /\ \A i, j \in 1..Len(queue) : i < j => Before(queue[i], queue[j])'
          /\ \A i \in 1..Len(queue) : Before(f, queue[i])'
        BY <1>2, <1>8, AcceptInv
    <2>2. PersistedBeforeSent'
        BY <1>3, <2>1 DEF PersistedBeforeSent, Spent
    <2>3. CodesInOrder'
        BY <1>3, <2>1 DEF CodesInOrder, Before
    <2> QED BY <1>4, <1>6, <2>1, <2>2, <2>3 DEF PathInv
  <1> QED BY <1>2, <1>7, <1>8

-----------------------------------------------------------------------------
\* Every step keeps the invariant.
LEMMA NextInv == PathInv /\ [Next]_vars => PathInv'
  <1> SUFFICES ASSUME PathInv, [Next]_vars PROVE PathInv'
      OBVIOUS
  <1>1. CASE Command
      BY <1>1, CommandInv
  <1>2. CASE StateTask
      BY <1>2, SkipFrameInv, StartCommitInv, CommitLandsInv, EnqueueInv,
         CommitFailsInv DEF StateTask
  <1>3. CASE RadioTask
      BY <1>3, TakeInv, SendFrameInv, BurstFailsInv DEF RadioTask
  <1>4. CASE PowerCut
      BY <1>4, PowerCutInv
  <1>5. CASE UNCHANGED vars
      BY <1>5 DEF vars, PathInv, TypeOK, Store!StoreTypeOK, TicketMatchesCall,
         StoreAhead, TicketLast, PersistedBeforeQueued, PersistedBeforeSent,
         CodesInOrder, Fresh, Spent, Before
  <1> QED BY <1>1, <1>2, <1>3, <1>4, <1>5 DEF Next

\* The invariant of the transmit path.
THEOREM PathInvariant == Spec => []PathInv
  <1> QED BY InitInv, NextInv, PTL DEF Spec

(***************************************************************************)
(* The variables keep their types; the transmit channel never holds more   *)
(* than DEPTH requests.                                                    *)
(***************************************************************************)
THEOREM TypeCorrect == Spec => []TypeOK
  <1>1. PathInv => TypeOK
      BY DEF PathInv
  <1> QED BY <1>1, PathInvariant, PTL

(***************************************************************************)
(* somfy-store/src/transmit.rs: no frame reaches the channel or the air    *)
(* before the store holds a later code than its own.                       *)
(***************************************************************************)
THEOREM PersistBeforeTransmit == Spec => [](PersistedBeforeQueued /\ PersistedBeforeSent)
  <1>1. PathInv => PersistedBeforeQueued /\ PersistedBeforeSent
      BY DEF PathInv
  <1> QED BY <1>1, PathInvariant, PTL

(***************************************************************************)
(* No motor is sent a code behind one already on its way to it.            *)
(***************************************************************************)
THEOREM SentInOrder == Spec => []CodesInOrder
  <1>1. PathInv => CodesInOrder
      BY DEF PathInv
  <1> QED BY <1>1, PathInvariant, PTL

(***************************************************************************)
(* The store is ahead of the channel and of the air, both are in the order *)
(* their codes were drawn, and the channel keeps its depth: transmit.rs,   *)
(* for every number of motors, code width, depth and burst length.         *)
(***************************************************************************)
THEOREM TransmitSafety == Spec => []TransmitSafe
  <1>1. PathInv => TransmitSafe
      BY DEF PathInv, TransmitSafe
  <1> QED BY <1>1, PathInvariant, PTL

-----------------------------------------------------------------------------
(* Sequences                                                               *)

\* A set of numbers that is not empty has a least one.
LEMMA LeastNumber ==
    ASSUME NEW S \in SUBSET Nat, S # {}
    PROVE  \E m \in S : \A n \in S : m <= n
<1>1. PICK m \in S : \A n \in S : ~(<<n, m>> \in OpToRel(<, Nat))
  BY WFMin, NatLessThanWellFounded
<1>2. \A n \in S : ~(n < m)
  BY <1>1 DEF OpToRel
<1> QED BY <1>2

\* The ids in order are the ids.
LEMMA AscendingIs ==
    ASSUME NEW ids \in SUBSET Nat, IsFiniteSet(ids)
    PROVE  /\ Ascending(ids) \in Seq(ids) /\ Len(Ascending(ids)) = Cardinality(ids)
           /\ Cardinality(ids) \in Nat
           /\ \A id \in ids : \E n \in DOMAIN Ascending(ids) : Ascending(ids)[n] = id
<1> DEFINE upTo(id) == {other \in ids : other <= id}
           rank == [id \in ids |-> Cardinality(upTo(id))]
           N == Cardinality(ids)
<1>1. N \in Nat
  BY FS_CardinalityType
<1>2. ASSUME NEW id \in ids PROVE rank[id] \in 1..N
  <2>1. IsFiniteSet(upTo(id)) /\ Cardinality(upTo(id)) <= N
    BY FS_Subset
  <2>2. upTo(id) # {}
    OBVIOUS
  <2>3. Cardinality(upTo(id)) \in Nat /\ Cardinality(upTo(id)) # 0
    BY <2>1, <2>2, FS_CardinalityType, FS_EmptySet
  <2> QED BY <1>1, <2>1, <2>3
<1>3. ASSUME NEW a \in ids, NEW b \in ids, a < b PROVE rank[a] # rank[b]
  <2>0. \A id \in ids : id \in Nat
    OBVIOUS
  <2>4. ASSUME NEW c \in upTo(a) PROVE c \in upTo(b)
    <3>1. c \in Nat /\ a \in Nat /\ b \in Nat /\ c <= a
      BY <2>0, <2>4
    <3>2. c <= b
      BY <1>3, <3>1
    <3> QED BY <2>4, <3>2
  <2>5. a \in Nat /\ b \in Nat /\ ~(b <= a) /\ b <= b
    BY <1>3, <2>0
  <2>1. upTo(a) \in SUBSET upTo(b) /\ b \in upTo(b) /\ b \notin upTo(a)
    BY <2>4, <2>5
  <2>2. IsFiniteSet(upTo(b))
    BY FS_Subset
  <2> HIDE DEF upTo
  <2>3. Cardinality(upTo(a)) # Cardinality(upTo(b))
    BY <2>1, <2>2, FS_Subset
  <2> QED BY <2>3
<1>4. rank \in Injection(ids, 1..N)
  <2>1. rank \in [ids -> 1..N]
    BY <1>2
  <2>2. ASSUME NEW a \in ids, NEW b \in ids, rank[a] = rank[b] PROVE a = b
    <3>1. a \in Nat /\ b \in Nat /\ ~(a < b) /\ ~(b < a)
      BY <1>3, <2>2
    <3> QED BY <3>1
  <2> HIDE DEF rank
  <2> QED BY <2>1, <2>2 DEF Injection, IsInjective
<1>5. rank \in Surjection(ids, 1..N)
  <2>1. IsFiniteSet(1..N) /\ Cardinality(1..N) = N
    BY <1>1, FS_Interval
  <2> HIDE DEF rank
  <2> QED BY <1>4, <2>1, FS_Injection
<1>6. ASSUME NEW n \in 1..N PROVE \E id \in ids : rank[id] = n
  BY <1>5 DEF Surjection
<1> DEFINE nth(n) == CHOOSE id \in ids : Cardinality({other \in ids : other <= id}) = n
<1>7. ASSUME NEW n \in 1..N PROVE nth(n) \in ids /\ rank[nth(n)] = n
  <2>1. \E id \in ids : Cardinality({other \in ids : other <= id}) = n
    BY <1>6
  <2> QED BY <2>1
<1>8. Ascending(ids) = [n \in 1..N |-> nth(n)]
  BY Zenon DEF Ascending
<1> HIDE DEF rank, N, nth
<1>9. Ascending(ids) \in Seq(ids) /\ Len(Ascending(ids)) = N /\ DOMAIN Ascending(ids) = 1..N
  BY <1>1, <1>7, <1>8
<1>10. ASSUME NEW id \in ids PROVE Ascending(ids)[rank[id]] = id /\ rank[id] \in 1..N
  <2>1. rank[id] \in 1..N
    BY <1>4 DEF Injection
  <2>2. rank[Ascending(ids)[rank[id]]] = rank[id] /\ Ascending(ids)[rank[id]] \in ids
    BY <1>7, <1>8, <2>1
  <2> QED BY <1>4, <2>1, <2>2 DEF Injection, IsInjective
<1> QED BY <1>1, <1>9, <1>10 DEF N

\* A part of a sequence, from place o on.
Placed(whole, o, part) ==
    /\ o + Len(part) <= Len(whole)
    /\ \A i \in 1..Len(part) : whole[o + i] = part[i]

\* A sequence is the first m of these, end to end.
Pieces(whole, parts, m, S) ==
    /\ whole \in Seq(S)
    /\ \A k \in 1..m : \E o \in Nat : Placed(whole, o, parts[k])
    /\ \A p \in 1..Len(whole) :
          \E k \in 1..m, o \in Nat : Placed(whole, o, parts[k]) /\ p - o \in 1..Len(parts[k])

\* One piece more.
LEMMA PieceMore ==
    ASSUME NEW S, NEW parts \in Seq(Seq(S)), NEW m \in Nat, m + 1 <= Len(parts),
           NEW whole, Pieces(whole, parts, m, S)
    PROVE  Pieces(whole \o parts[m + 1], parts, m + 1, S)
<1> DEFINE last == parts[m + 1]
           all == whole \o last
<1>1. whole \in Seq(S) /\ last \in Seq(S) /\ m + 1 \in 1..Len(parts)
  BY DEF Pieces
<1>2. /\ all \in Seq(S) /\ Len(all) = Len(whole) + Len(last)
      /\ Len(whole) \in Nat /\ Len(last) \in Nat
      /\ \A i \in 1..Len(whole) : all[i] = whole[i]
      /\ \A i \in 1..Len(last) : all[Len(whole) + i] = last[i]
  BY <1>1
<1>3. \A k \in 1..m : Len(parts[k]) \in Nat
  OBVIOUS
<1> HIDE DEF last, all
<1>4. ASSUME NEW o \in Nat, NEW k \in 1..m, Placed(whole, o, parts[k])
      PROVE  Placed(all, o, parts[k])
  <2>1. o + Len(parts[k]) <= Len(all) /\ \A i \in 1..Len(parts[k]) : o + i \in 1..Len(whole)
    <3>1. PICK w \in Nat, l \in Nat, d \in Nat :
              w = Len(whole) /\ l = Len(parts[k]) /\ d = Len(last)
      BY <1>2, <1>3
    <3>2. o + l <= w /\ Len(all) = w + d
      BY <1>2, <1>4, <3>1 DEF Placed
    <3>3. o + l <= w + d /\ \A i \in 1..l : o + i \in 1..w
      BY <3>2
    <3> QED BY <3>1, <3>2, <3>3
  <2> QED BY <1>2, <1>4, <2>1 DEF Placed
<1>5. Placed(all, Len(whole), last)
  BY <1>2 DEF Placed
<1>6. ASSUME NEW k \in 1..(m + 1) PROVE \E o \in Nat : Placed(all, o, parts[k])
  <2>1. CASE k = m + 1
    BY <1>2, <1>5, <2>1 DEF last
  <2>2. CASE k # m + 1
    BY <1>4, <2>2 DEF Pieces
  <2> QED BY <2>1, <2>2
<1>7. ASSUME NEW p \in 1..Len(all)
      PROVE  \E k \in 1..(m + 1), o \in Nat :
                 Placed(all, o, parts[k]) /\ p - o \in 1..Len(parts[k])
  <2>1. CASE p <= Len(whole)
    <3>1. p \in 1..Len(whole)
      BY <1>2, <2>1
    <3>2. PICK k \in 1..m, o \in Nat : Placed(whole, o, parts[k]) /\ p - o \in 1..Len(parts[k])
      BY <3>1 DEF Pieces
    <3> QED BY <1>4, <3>2
  <2>2. CASE p > Len(whole)
    <3>1. p - Len(whole) \in 1..Len(last) /\ m + 1 \in 1..(m + 1)
      BY <1>2, <2>2
    <3> QED BY <1>2, <1>5, <3>1 DEF last
  <2> QED BY <1>2, <2>1, <2>2
<1> QED BY <1>2, <1>6, <1>7 DEF Pieces, all, last

\* FlattenSeq puts its pieces end to end.
LEMMA FlattenIs ==
    ASSUME NEW S, NEW parts \in Seq(Seq(S))
    PROVE  Pieces(FlattenSeq(parts), parts, Len(parts), S)
<1> DEFINE Turn(at, i) == IF i = 1 THEN parts[i] ELSE at[i - 1] \o parts[i]
           Defined(k) == \E at : at = [i \in 1..k |-> Turn(at, i)]
           N == Len(parts)
<1>1. N \in Nat
  OBVIOUS
<1>2. CASE N = 0
  BY <1>2 DEF FlattenSeq, Pieces
<1>3. CASE N # 0
  <2> DEFINE bad == {k \in Nat : ~Defined(k)}
  <2>1. bad = {}
    <3>1. SUFFICES ASSUME bad # {} PROVE FALSE
      OBVIOUS
    <3>2. PICK k \in bad : \A j \in bad : k <= j
      BY <3>1, LeastNumber
    <3>3. k # 0
      <4>1. <<>> = [i \in 1..0 |-> Turn(<<>>, i)]
        OBVIOUS
      <4>2. Defined(0)
        BY <4>1
      <4>3. ~Defined(k)
        BY <3>2
      <4> HIDE DEF Defined
      <4> QED BY <4>2, <4>3
    <3>4. k \in Nat /\ k - 1 \in Nat /\ k - 1 \notin bad
      <4>1. k \in Nat
        BY <3>2
      <4> HIDE DEF bad
      <4>2. k - 1 \in Nat /\ ~(k <= k - 1)
        BY <4>1, <3>3
      <4> QED BY <4>1, <4>2, <3>2
    <3>5. PICK old : old = [i \in 1..(k - 1) |-> Turn(old, i)]
      BY <3>4
    <3> DEFINE new == [i \in 1..k |-> IF i = k THEN Turn(old, k) ELSE old[i]]
    <3>6. ASSUME NEW i \in 1..k PROVE new[i] = Turn(new, i)
      <4>1. CASE i = k
        <5>1. k # 1 => k - 1 \in 1..k /\ new[k - 1] = old[k - 1]
          BY <3>4
        <5> QED BY <4>1, <5>1, <3>4
      <4>2. CASE i # k
        <5>1. i \in 1..(k - 1) /\ new[i] = old[i]
          BY <4>2, <3>4
        <5>2. old[i] = Turn(old, i)
          BY <3>5, <5>1
        <5>3. i # 1 => i - 1 \in 1..k /\ i - 1 # k /\ new[i - 1] = old[i - 1]
          BY <5>1, <3>4
        <5> QED BY <5>1, <5>2, <5>3
      <4> QED BY <4>1, <4>2
    <3>7. new = [i \in 1..k |-> Turn(new, i)]
      BY <3>6
    <3>8. Defined(k)
      BY <3>7
    <3> QED BY <3>2, <3>8
  <2>2. Defined(N)
    BY <1>1, <2>1
  <2> DEFINE at == CHOOSE g : g = [i \in 1..N |-> Turn(g, i)]
  <2>3. at = [i \in 1..N |-> Turn(at, i)]
    BY <2>2, Zenon
  <2>4. FlattenSeq(parts) = at[N]
    BY <1>3 DEF FlattenSeq
  <2> HIDE DEF at
  <2>5. \A i \in 1..N : at[i] = IF i = 1 THEN parts[i] ELSE at[i - 1] \o parts[i]
    BY <2>3
  <2> DEFINE wrong == {k \in 1..N : ~Pieces(at[k], parts, k, S)}
  <2>6. wrong = {}
    <3>1. SUFFICES ASSUME wrong # {} PROVE FALSE
      OBVIOUS
    <3>2. PICK k \in wrong : \A j \in wrong : k <= j
      <4>1. wrong \in SUBSET Nat
        BY <1>1
      <4> QED BY <3>1, <4>1, LeastNumber
    <3>3. k \in 1..N
      BY <3>2
    <3>4. CASE k = 1
      <4>1. at[1] = parts[1] /\ parts[1] \in Seq(S) /\ Len(parts[1]) \in Nat
        BY <2>5, <3>3, <3>4
      <4>2. Placed(at[1], 0, parts[1]) /\ \A p \in 1..Len(at[1]) : p - 0 \in 1..Len(parts[1])
        BY <4>1 DEF Placed
      <4>3. Pieces(at[1], parts, 1, S)
        BY <4>1, <4>2 DEF Pieces
      <4> QED BY <3>2, <3>4, <4>3
    <3>5. CASE k # 1
      <4>1. k - 1 \in 1..N /\ k - 1 \in Nat /\ ~(k <= k - 1) /\ (k - 1) + 1 = k /\ k <= N
        BY <3>3, <3>5, <1>1
      <4>2. k - 1 \notin wrong
        <5> HIDE DEF wrong
        <5> QED BY <3>2, <4>1
      <4>3. Pieces(at[k - 1], parts, k - 1, S)
        BY <4>1, <4>2
      <4>4. Pieces(at[k - 1] \o parts[(k - 1) + 1], parts, (k - 1) + 1, S)
        BY <4>1, <4>3, PieceMore
      <4>5. at[k] = at[k - 1] \o parts[k]
        BY <2>5, <3>3, <3>5
      <4>6. Pieces(at[k], parts, k, S)
        BY <4>1, <4>4, <4>5
      <4> QED BY <3>2, <4>6
    <3> QED BY <3>4, <3>5
  <2> QED BY <1>1, <1>3, <2>4, <2>6
<1> QED BY <1>2, <1>3

-----------------------------------------------------------------------------
(* The plans                                                               *)

Shows == [is : {"show"}, id : Ids]
Joined == [is : {"ackAnnounced"}, id : Ids]
HidesOf(spaces) == [is : {"hide"}, space : spaces, id : Ids]
Hides == HidesOf(Spaces)
Left == [is : {"ackRetired"}, id : Ids, why : {"removed", "orphan"}]
Steps == Shows \cup Hides \cup Joined \cup Left \cup {Announcement, Report}

In(p, step) == \E i \in 1..Len(p) : p[i] = step

\* What is retired is off the broker before it is acknowledged.
Cleared(p) ==
    \A i \in 1..Len(p) : p[i].is = "ackRetired" =>
        \E j \in 1..(i - 1) : p[j] = Hide(space, p[i].id)

\* The variables a plan is made from.
Listed ==
    /\ inventory \in [Ids -> Units \cup {None}]
    /\ orphans \in SUBSET Ids /\ space \in Spaces /\ stale \in SUBSET (Spaces \ {space})

\* Slots and namespaces are finitely many.
LEMMA FewIds ==
    /\ Ids \subseteq Nat /\ Spaces \subseteq Nat
    /\ \A ids \in SUBSET Ids : IsFiniteSet(ids)
    /\ \A spaces \in SUBSET Spaces : IsFiniteSet(spaces)
<1>1. MAX_SHADES \in Nat /\ Namespaces \in Nat
  BY TableAssumption, BrokerAssumption
<1>2. IsFiniteSet(Ids) /\ IsFiniteSet(Spaces)
  BY <1>1, FS_Interval DEF Ids, Spaces
<1>3. Ids \subseteq Nat /\ Spaces \subseteq Nat
  BY <1>1 DEF Ids, Spaces
<1>4. ASSUME NEW ids \in SUBSET Ids PROVE IsFiniteSet(ids)
  BY <1>2, FS_Subset
<1>5. ASSUME NEW spaces \in SUBSET Spaces PROVE IsFiniteSet(spaces)
  BY <1>2, FS_Subset
<1> QED BY <1>3, <1>4, <1>5

\* What is in two sequences end to end is in one of them.
LEMMA InEither ==
    ASSUME NEW S, NEW p \in Seq(S), NEW q \in Seq(S), NEW x
    PROVE  In(p \o q, x) <=> In(p, x) \/ In(q, x)
<1>1. /\ p \o q \in Seq(S) /\ Len(p \o q) = Len(p) + Len(q)
      /\ Len(p) \in Nat /\ Len(q) \in Nat
      /\ \A i \in 1..Len(p) : (p \o q)[i] = p[i]
      /\ \A i \in 1..Len(q) : (p \o q)[Len(p) + i] = q[i]
  OBVIOUS
<1> DEFINE all == p \o q
<1> HIDE DEF all
<1>2. ASSUME NEW i \in 1..Len(all), all[i] = x PROVE In(p, x) \/ In(q, x)
  <2>1. CASE i \in 1..Len(p)
    BY <1>1, <1>2, <2>1 DEF In, all
  <2>2. CASE i \notin 1..Len(p)
    <3>1. i - Len(p) \in 1..Len(q) /\ Len(p) + (i - Len(p)) = i
      BY <1>1, <2>2 DEF all
    <3> QED BY <1>1, <1>2, <3>1 DEF In, all
  <2> QED BY <2>1, <2>2
<1>3. ASSUME NEW i \in 1..Len(p), p[i] = x PROVE In(all, x)
  <2>1. i \in 1..Len(all)
    BY <1>1 DEF all
  <2> QED BY <1>1, <1>3, <2>1 DEF In, all
<1>4. ASSUME NEW i \in 1..Len(q), q[i] = x PROVE In(all, x)
  <2>1. Len(p) + i \in 1..Len(all)
    BY <1>1 DEF all
  <2> QED BY <1>1, <1>4, <2>1 DEF In, all
<1> QED BY <1>2, <1>3, <1>4 DEF In, all

\* Every shade the session knows is shown.
LEMMA ShowsAll ==
    ASSUME Listed
    PROVE  /\ Each(Held, Show) \in Seq(Shows)
           /\ \A id \in Held : In(Each(Held, Show), Show(id))
<1> DEFINE order == Ascending(Held)
<1>1. Held \in SUBSET Ids
  BY DEF Held
<1>2. /\ order \in Seq(Held) /\ \A id \in Held : \E n \in DOMAIN order : order[n] = id
  BY <1>1, FewIds, AscendingIs
<1>3. Each(Held, Show) = [i \in 1..Len(order) |-> Show(order[i])]
  BY DEF Each
<1> HIDE DEF order
<1>4. \A i \in 1..Len(order) : Show(order[i]) \in Shows
  BY <1>1, <1>2 DEF Show, Shows
<1> QED BY <1>2, <1>3, <1>4 DEF In

\* The shades are retired from every superseded namespace.
LEMMA HidesAll ==
    ASSUME Listed
    PROVE  /\ RetireStale \in Seq(HidesOf(stale))
           /\ \A n \in stale, id \in Held : In(RetireStale, Hide(n, id))
<1> DEFINE order == Ascending(Held)
           spaces == Ascending(stale)
           piece(i) == [j \in 1..Len(order) |-> Hide(spaces[i], order[j])]
           pieces == [i \in 1..Cardinality(stale) |-> piece(i)]
<1>1. Held \in SUBSET Ids
  BY DEF Held
<1>2. order \in Seq(Held) /\ \A id \in Held : \E n \in DOMAIN order : order[n] = id
  BY <1>1, FewIds, AscendingIs
<1>3. /\ spaces \in Seq(stale) /\ Len(spaces) = Cardinality(stale) /\ Cardinality(stale) \in Nat
      /\ \A s \in stale : \E n \in DOMAIN spaces : spaces[n] = s
  BY FewIds, AscendingIs DEF Listed
<1>4. RetireStale = FlattenSeq(pieces)
  BY DEF RetireStale, Each
<1> HIDE DEF order, spaces
<1>5. ASSUME NEW i \in 1..Cardinality(stale) PROVE piece(i) \in Seq(HidesOf(stale))
  <2>1. spaces[i] \in stale /\ \A j \in 1..Len(order) : order[j] \in Ids
    BY <1>1, <1>2, <1>3 DEF Listed
  <2> QED BY <1>2, <2>1 DEF Hide, HidesOf
<1>6. pieces \in Seq(Seq(HidesOf(stale))) /\ Len(pieces) = Cardinality(stale)
  <2> DEFINE N == Cardinality(stale)
             all == Seq(HidesOf(stale))
  <2>1. N \in Nat /\ \A i \in 1..N : piece(i) \in all
    BY <1>3, <1>5
  <2> HIDE DEF piece, N, all
  <2>2. [i \in 1..N |-> piece(i)] \in Seq(all) /\ Len([i \in 1..N |-> piece(i)]) = N
    BY <2>1
  <2> QED BY <2>2 DEF N, all
<1>7. Pieces(RetireStale, pieces, Cardinality(stale), HidesOf(stale))
  BY <1>4, <1>6, FlattenIs
<1>8. ASSUME NEW s \in stale, NEW id \in Held PROVE In(RetireStale, Hide(s, id))
  <2>1. PICK i \in 1..Cardinality(stale) : spaces[i] = s
    BY <1>3
  <2>2. PICK j \in 1..Len(order) : order[j] = id
    BY <1>2
  <2>3. PICK o \in Nat : Placed(RetireStale, o, pieces[i])
    BY <1>7 DEF Pieces
  <2>4. pieces[i][j] = Hide(s, id) /\ Len(pieces[i]) = Len(order) /\ Len(order) \in Nat
    BY <1>2, <2>1, <2>2
  <2>5. RetireStale[o + j] = Hide(s, id) /\ o + Len(order) <= Len(RetireStale)
    BY <2>3, <2>4 DEF Placed
  <2>6. o + j \in 1..Len(RetireStale)
    <3>1. Len(RetireStale) \in Nat
      BY <1>7 DEF Pieces
    <3> QED BY <2>4, <2>5, <3>1
  <2> QED BY <2>5, <2>6 DEF In
<1> QED BY <1>7, <1>8 DEF Pieces

\* The orphans are retired, each in its turn.
LEMMA OrphansRetired ==
    ASSUME Listed
    PROVE  LET all == FlattenSeq([i \in 1..Cardinality(orphans) |->
                                     Retire(Ascending(orphans)[i], "orphan")])
           IN /\ all \in Seq(Hides \cup Left)
              /\ \A id \in orphans : In(all, AckRetired(id, "orphan"))
              /\ Cleared(all)
              /\ \A i \in 1..Len(all) :
                    all[i].id \in orphans /\ (all[i] \in Left => all[i].why = "orphan")
<1> DEFINE order == Ascending(orphans)
           N == Cardinality(orphans)
           pieces == [i \in 1..N |-> Retire(order[i], "orphan")]
           all == FlattenSeq(pieces)
<1>1. /\ order \in Seq(orphans) /\ Len(order) = N /\ N \in Nat
      /\ \A id \in orphans : \E n \in DOMAIN order : order[n] = id
  BY FewIds, AscendingIs DEF Listed
<1> HIDE DEF order, N
<1>2. ASSUME NEW i \in 1..N
      PROVE  /\ order[i] \in orphans
             /\ Hide(space, order[i]) \in Hides /\ AckRetired(order[i], "orphan") \in Left
             /\ pieces[i] = <<Hide(space, order[i]), AckRetired(order[i], "orphan")>>
             /\ pieces[i] \in Seq(Hides \cup Left) /\ Len(pieces[i]) = 2
             /\ pieces[i][1] = Hide(space, order[i])
             /\ pieces[i][2] = AckRetired(order[i], "orphan")
  <2>1. order[i] \in orphans /\ order[i] \in Ids /\ space \in Spaces
    BY <1>1 DEF Listed
  <2>2. Hide(space, order[i]) \in Hides /\ AckRetired(order[i], "orphan") \in Left
    BY <2>1 DEF Hide, Hides, HidesOf, AckRetired, Left
  <2>3. pieces[i] = <<Hide(space, order[i]), AckRetired(order[i], "orphan")>>
    BY DEF Retire
  <2> DEFINE h == Hide(space, order[i])
             a == AckRetired(order[i], "orphan")
  <2> HIDE DEF h, a
  <2>4. h \in Hides /\ a \in Left /\ pieces[i] = <<h, a>>
    BY <2>2, <2>3 DEF h, a
  <2> HIDE DEF pieces
  <2>5. /\ pieces[i] \in Seq(Hides \cup Left) /\ Len(pieces[i]) = 2
        /\ pieces[i][1] = h /\ pieces[i][2] = a
    BY <2>4
  <2> QED BY <2>1, <2>2, <2>3, <2>5 DEF h, a
<1>3. pieces \in Seq(Seq(Hides \cup Left)) /\ Len(pieces) = N
  BY <1>1, <1>2
<1>4. Pieces(all, pieces, N, Hides \cup Left)
  <2> HIDE DEF pieces
  <2> QED BY <1>3, FlattenIs
<1> HIDE DEF pieces, all
<1>5. all \in Seq(Hides \cup Left) /\ Len(all) \in Nat
  BY <1>4 DEF Pieces
<1>6. ASSUME NEW id \in orphans PROVE In(all, AckRetired(id, "orphan"))
  <2>1. PICK i \in 1..N : order[i] = id
    BY <1>1
  <2>2. PICK o \in Nat : Placed(all, o, pieces[i])
    BY <1>4 DEF Pieces
  <2>3. all[o + 2] = AckRetired(id, "orphan") /\ o + 2 <= Len(all)
    <3>1. Len(pieces[i]) = 2 /\ pieces[i][2] = AckRetired(id, "orphan")
      BY <1>2, <2>1
    <3>2. o + 2 <= Len(all) /\ \A j \in 1..2 : all[o + j] = pieces[i][j]
      BY <2>2, <3>1 DEF Placed
    <3>3. 2 \in 1..2
      OBVIOUS
    <3> QED BY <3>1, <3>2, <3>3
  <2> QED BY <1>5, <2>3 DEF In
<1>7. ASSUME NEW p \in 1..Len(all), all[p] \in Left
      PROVE  /\ all[p].why = "orphan" /\ all[p].id \in orphans
             /\ \E j \in 1..(p - 1) : all[j] = Hide(space, all[p].id)
  <2>1. PICK k \in 1..N, o \in Nat : Placed(all, o, pieces[k]) /\ p - o \in 1..Len(pieces[k])
    BY <1>4 DEF Pieces
  <2>2. p - o \in 1..2 /\ o + 1 \in Nat /\ all[o + 1] = pieces[k][1] /\ all[o + 2] = pieces[k][2]
    <3>1. Len(pieces[k]) = 2
      BY <1>2
    <3>2. p - o \in 1..2 /\ \A i \in 1..2 : all[o + i] = pieces[k][i]
      BY <2>1, <3>1 DEF Placed
    <3>3. 1 \in 1..2 /\ 2 \in 1..2 /\ o + 1 \in Nat
      OBVIOUS
    <3> QED BY <3>2, <3>3
  <2>3. p = o + 1 \/ p = o + 2
    BY <1>5, <2>2
  <2>4. Hide(space, order[k]).is # "ackRetired"
    BY DEF Hide
  <2>5. p = o + 2
    BY <1>2, <1>7, <2>2, <2>3, <2>4 DEF Left
  <2>6. all[p] = AckRetired(order[k], "orphan") /\ all[o + 1] = Hide(space, order[k])
    BY <1>2, <2>2, <2>5
  <2>7. all[p].why = "orphan" /\ all[p].id = order[k] /\ o + 1 \in 1..(p - 1)
    BY <1>5, <2>5, <2>6 DEF AckRetired
  <2> QED BY <1>2, <2>6, <2>7
<1>10. ASSUME NEW p \in 1..Len(all) PROVE all[p].id \in orphans
  <2>1. PICK k \in 1..N, o \in Nat : Placed(all, o, pieces[k]) /\ p - o \in 1..Len(pieces[k])
    BY <1>4 DEF Pieces
  <2>2. p - o \in 1..2 /\ o + 1 \in Nat /\ all[o + 1] = pieces[k][1] /\ all[o + 2] = pieces[k][2]
    <3>1. Len(pieces[k]) = 2
      BY <1>2
    <3>2. p - o \in 1..2 /\ \A i \in 1..2 : all[o + i] = pieces[k][i]
      BY <2>1, <3>1 DEF Placed
    <3>3. 1 \in 1..2 /\ 2 \in 1..2 /\ o + 1 \in Nat
      OBVIOUS
    <3> QED BY <3>2, <3>3
  <2>3. p = o + 1 \/ p = o + 2
    BY <1>5, <2>2
  <2>4. Hide(space, order[k]).id = order[k] /\ AckRetired(order[k], "orphan").id = order[k]
    BY DEF Hide, AckRetired
  <2> QED BY <1>2, <2>2, <2>3, <2>4
<1>8. Cleared(all)
  <2>1. ASSUME NEW p \in 1..Len(all), all[p].is = "ackRetired" PROVE all[p] \in Left
    <3>1. all[p] \in Hides \cup Left
      BY <1>5
    <3> QED BY <2>1, <3>1 DEF Hides, HidesOf
  <2> QED BY <1>7, <2>1 DEF Cleared
<1>9. all = FlattenSeq([i \in 1..Cardinality(orphans) |-> Retire(Ascending(orphans)[i], "orphan")])
  BY DEF all, pieces, order, N
<1> QED BY <1>5, <1>6, <1>7, <1>8, <1>9, <1>10

\* What a session has to say when it begins.
Resyncing(p) ==
    /\ p \in Seq(Shows \cup Hides \cup Left \cup {Announcement}) /\ p # <<>>
    /\ \A i \in 1..Len(p) :
          /\ p[i] = Announcement <=> i = Len(p)
          /\ p[i] \in Left => p[i].why = "orphan"
          /\ p[i] \in Left \cup HidesOf({space}) => inventory[p[i].id] = None

\* No two kinds of step are the same.
LEMMA KindsDiffer ==
    /\ \A step \in Shows : step.is = "show"
    /\ \A step \in Hides : step.is = "hide"
    /\ \A step \in Joined : step.is = "ackAnnounced"
    /\ \A step \in Left : step.is = "ackRetired" /\ step.why \in {"removed", "orphan"}
    /\ \A step \in Shows \cup Hides \cup Joined \cup Left : step # Announcement /\ step # Report
    /\ Announcement.is = "announcement" /\ Report.is = "report"
BY DEF Shows, Hides, HidesOf, Joined, Left, Announcement, Report

\* One more step at the end leaves what is cleared in the order it is cleared in.
LEMMA ClearedAfter ==
    ASSUME NEW S, NEW p \in Seq(S), NEW q \in Seq(S), Cleared(q),
           \A i \in 1..Len(p) : p[i].is # "ackRetired"
    PROVE  Cleared(p \o q)
<1> DEFINE all == p \o q
<1>1. /\ Len(all) = Len(p) + Len(q) /\ Len(p) \in Nat /\ Len(q) \in Nat
      /\ \A i \in 1..Len(p) : all[i] = p[i]
      /\ \A i \in 1..Len(q) : all[Len(p) + i] = q[i]
  OBVIOUS
<1> HIDE DEF all
<1>2. ASSUME NEW i \in 1..Len(all), all[i].is = "ackRetired"
      PROVE  \E j \in 1..(i - 1) : all[j] = Hide(space, all[i].id)
  <2>1. i - Len(p) \in 1..Len(q)
    <3>1. i \notin 1..Len(p)
      BY <1>1, <1>2
    <3> QED BY <1>1, <3>1
  <2>2. all[i] = q[i - Len(p)]
    <3>1. Len(p) + (i - Len(p)) = i
      BY <1>1
    <3> QED BY <1>1, <2>1, <3>1
  <2>3. PICK j \in 1..((i - Len(p)) - 1) : q[j] = Hide(space, all[i].id)
    BY <1>2, <2>1, <2>2 DEF Cleared
  <2>4. j \in 1..Len(q) /\ Len(p) + j \in 1..(i - 1)
    BY <1>1, <2>1
  <2> QED BY <1>1, <2>3, <2>4
<1> QED BY <1>2 DEF Cleared, all

\* A resynchronization shows what the session knows, clears the rest and ends.
LEMMA ResyncIs ==
    ASSUME Listed, \A id \in orphans : inventory[id] = None
    PROVE  /\ Resyncing(Resync) /\ Cleared(Resync)
           /\ \A id \in Held : In(Resync, Show(id))
           /\ \A n \in stale, id \in Held : In(Resync, Hide(n, id))
           /\ \A id \in orphans : In(Resync, AckRetired(id, "orphan"))
           /\ In(Resync, Announcement)
<1> DEFINE shown0 == Each(Held, Show)
           gone == FlattenSeq([i \in 1..Cardinality(orphans) |->
                                  Retire(Ascending(orphans)[i], "orphan")])
           S == Shows \cup Hides \cup Left \cup {Announcement}
           said == RetireStale \o shown0
           most == said \o gone
           last == <<Announcement>>
           all == most \o last
<1>1. Resync = all
  BY DEF Resync
<1>2. /\ RetireStale \in Seq(HidesOf(stale)) /\ shown0 \in Seq(Shows) /\ gone \in Seq(Hides \cup Left)
      /\ \A id \in Held : In(shown0, Show(id))
      /\ \A n \in stale, id \in Held : In(RetireStale, Hide(n, id))
      /\ \A id \in orphans : In(gone, AckRetired(id, "orphan"))
      /\ Cleared(gone)
      /\ \A i \in 1..Len(gone) :
            gone[i].id \in orphans /\ (gone[i] \in Left => gone[i].why = "orphan")
  BY ShowsAll, HidesAll, OrphansRetired
<1> HIDE DEF gone, shown0, S, said, most
<1>3. \A step \in Shows \cup HidesOf(stale) \cup Hides \cup Left : step \in S /\ step # Announcement
  <2>1. HidesOf(stale) \subseteq Hides
    BY DEF Listed, Hides, HidesOf
  <2> QED BY <2>1, KindsDiffer DEF S
<1>4. RetireStale \in Seq(S) /\ shown0 \in Seq(S) /\ gone \in Seq(S)
  BY <1>2, <1>3
<1>5. said \in Seq(S) /\ \A x : In(said, x) <=> In(RetireStale, x) \/ In(shown0, x)
  BY <1>4, InEither DEF said
<1>6. most \in Seq(S) /\ \A x : In(most, x) <=> In(said, x) \/ In(gone, x)
  BY <1>4, <1>5, InEither DEF most
<1>7. /\ last \in Seq(S) /\ Len(last) = 1 /\ last[1] = Announcement
      /\ \A x : In(last, x) <=> x = Announcement
  BY DEF S, In
<1> HIDE DEF last
<1>8. all \in Seq(S) /\ \A x : In(all, x) <=> In(most, x) \/ x = Announcement
  BY <1>6, <1>7, InEither
<1>9. ASSUME NEW i \in 1..Len(most) PROVE most[i] # Announcement
  <2>1. In(most, most[i])
    BY DEF In
  <2>2. In(RetireStale, most[i]) \/ In(shown0, most[i]) \/ In(gone, most[i])
    BY <1>5, <1>6, <2>1
  <2>3. most[i] \in Shows \cup HidesOf(stale) \cup Hides \cup Left
    <3>1. \A x : In(RetireStale, x) => x \in HidesOf(stale)
      BY <1>2 DEF In
    <3>2. \A x : In(shown0, x) => x \in Shows
      BY <1>2 DEF In
    <3>3. \A x : In(gone, x) => x \in Hides \cup Left
      BY <1>2 DEF In
    <3> QED BY <2>2, <3>1, <3>2, <3>3
  <2> QED BY <1>3, <2>3
<1>10. /\ Len(all) = Len(most) + 1 /\ Len(most) \in Nat /\ all[Len(most) + 1] = Announcement
       /\ \A i \in 1..Len(most) : all[i] = most[i]
  <2>0. most \in Seq(S) /\ last \in Seq(S)
    BY <1>6, <1>7
  <2>1. Len(all) = Len(most) + Len(last) /\ Len(most) \in Nat
    BY <2>0
  <2>2. /\ \A i \in 1..Len(most) : all[i] = most[i]
        /\ \A i \in 1..Len(last) : all[Len(most) + i] = last[i]
    BY <2>0
  <2>3. 1 \in 1..Len(last)
    BY <1>7
  <2> QED BY <1>7, <2>1, <2>2, <2>3
<1> HIDE DEF all
<1>11. ASSUME NEW i \in 1..Len(all) PROVE all[i] = Announcement <=> i = Len(all)
  <2>1. CASE i = Len(most) + 1
    BY <1>10, <2>1
  <2>2. CASE i # Len(most) + 1
    <3>1. i \in 1..Len(most) /\ i # Len(all)
      BY <1>10, <2>2
    <3> QED BY <1>9, <1>10, <3>1
  <2> QED BY <2>1, <2>2
<1>12. ASSUME NEW x \in Left \cup HidesOf({space}), In(all, x)
       PROVE  inventory[x.id] = None /\ (x \in Left => x.why = "orphan")
  <2>1. x # Announcement /\ x \notin HidesOf(stale) /\ x \notin Shows
    BY KindsDiffer DEF HidesOf, Shows, Left, Announcement, Listed
  <2>2. In(RetireStale, x) \/ In(shown0, x) \/ In(gone, x)
    BY <1>5, <1>6, <1>8, <1>12, <2>1
  <2>3. ~In(RetireStale, x) /\ ~In(shown0, x)
    BY <1>2, <2>1 DEF In
  <2>4. PICK i \in 1..Len(gone) : gone[i] = x
    BY <2>2, <2>3 DEF In
  <2> QED BY <1>2, <2>4
<1>13. Resyncing(all)
  <2>1. all \in Seq(S) /\ Len(all) # 0
    BY <1>8, <1>10
  <2>2. ASSUME NEW i \in 1..Len(all) PROVE In(all, all[i])
    BY DEF In
  <2>3. ASSUME NEW i \in 1..Len(all)
        PROVE  /\ all[i] \in Left => all[i].why = "orphan"
               /\ all[i] \in Left \cup HidesOf({space}) => inventory[all[i].id] = None
    BY <1>12, <2>2
  <2>4. all # <<>>
    BY <2>1
  <2> QED BY <1>11, <2>1, <2>3, <2>4 DEF Resyncing, S
<1>14. Cleared(all)
  <2>1. \A i \in 1..Len(said) : said[i].is # "ackRetired"
    <3>1. ASSUME NEW i \in 1..Len(said) PROVE said[i] \in Shows \cup Hides
      <4>1. In(RetireStale, said[i]) \/ In(shown0, said[i])
        <5>1. In(said, said[i])
          BY DEF In
        <5> QED BY <1>5, <5>1
      <4> QED
        <5>1. HidesOf(stale) \subseteq Hides
          BY DEF Listed, Hides, HidesOf
        <5> QED BY <1>2, <4>1, <5>1 DEF In
    <3> QED BY <3>1, KindsDiffer
  <2>2. Cleared(most)
    BY <1>2, <1>4, <1>5, <2>1, ClearedAfter DEF most
  <2>3. ASSUME NEW i \in 1..Len(all), all[i].is = "ackRetired"
        PROVE  \E j \in 1..(i - 1) : all[j] = Hide(space, all[i].id)
    <3>1. i # Len(most) + 1
      BY <1>10, <2>3, KindsDiffer
    <3>2. i \in 1..Len(most)
      BY <1>10, <3>1
    <3>3. PICK j \in 1..(i - 1) : most[j] = Hide(space, most[i].id)
      BY <1>10, <2>2, <2>3, <3>2 DEF Cleared
    <3>4. j \in 1..Len(most)
      BY <1>10, <3>2
    <3> QED BY <1>10, <3>2, <3>3, <3>4
  <2> QED BY <2>3 DEF Cleared
<1>15. /\ \A id \in Held : In(all, Show(id))
       /\ \A n \in stale, id \in Held : In(all, Hide(n, id))
       /\ \A id \in orphans : In(all, AckRetired(id, "orphan"))
       /\ In(all, Announcement)
  BY <1>2, <1>5, <1>6, <1>8
<1> QED BY <1>1, <1>13, <1>14, <1>15

-----------------------------------------------------------------------------
(* The table                                                               *)

Registries == [Ids -> Shades \cup {None}]

\* The seed a unit was provisioned with, or created with.
SeedOf(unit) == IF \E p \in DOMAIN Rows : Rows[p].unit = unit
                THEN Rows[CHOOSE p \in DOMAIN Rows : Rows[p].unit = unit].seed
                ELSE FirstSeed

Records == [rows : Seq(Shades), announced : SUBSET Ids]

\* Every row has its unit's seed.
Faithful(record) ==
    /\ record \in Records /\ Len(record.rows) <= MAX_SHADES
    /\ \A r \in 1..Len(record.rows) : record.rows[r].seed = SeedOf(record.rows[r].unit)

Catalogue ==
    /\ registry \in Registries
    /\ seeds \in [Ids -> Nat \cup {None}]
    /\ \A id \in Live(registry) : seeds[id] = SeedOf(registry[id].unit)
    /\ announced \in SUBSET Ids
    /\ group \in SUBSET Live(registry)
    /\ Faithful(flash)

Deferred ==
    pending # None => /\ pending \in [first : Nat, last : Nat]
                      /\ pending.last <= pending.first /\ pending.first <= MAX_DEFER

\* What stands for nothing is no unit, row, number or pair of dates.
LEMMA NoneIsNone ==
    /\ None \notin Units /\ None \notin Shades /\ None \notin Nat
    /\ None \notin [first : Nat, last : Nat]
BY TableAssumption

\* A unit has one first code, and one nobody provisioned has the default.
LEMMA SeedOfIs ==
    ASSUME NEW unit
    PROVE  SeedOf(unit) \in Nat /\ (unit \notin Provisioned => SeedOf(unit) = FirstSeed)
<1>1. Rows \in Seq(Shades)
  BY TableAssumption
<1>2. CASE \E p \in DOMAIN Rows : Rows[p].unit = unit
  <2> DEFINE q == CHOOSE p \in DOMAIN Rows : Rows[p].unit = unit
  <2>1. q \in DOMAIN Rows /\ Rows[q].unit = unit
    BY <1>2
  <2> HIDE DEF q
  <2>2. Rows[q] \in Shades
    BY <1>1, <2>1
  <2>3. Rows[q].seed \in Nat /\ unit \in Provisioned
    BY <2>1, <2>2 DEF Shades, Provisioned
  <2>4. SeedOf(unit) = Rows[q].seed
    BY <1>2 DEF SeedOf, q
  <2> QED BY <2>3, <2>4
<1>3. CASE ~\E p \in DOMAIN Rows : Rows[p].unit = unit
  BY <1>3 DEF SeedOf, FirstSeed
<1> QED BY <1>2, <1>3

\* The provisioning record is faithful, no two of its rows being of one unit.
LEMMA RowsFaithful == Faithful([rows |-> Rows, announced |-> 0..Len(Rows) - 1])
<1>1. /\ Rows \in Seq(Shades) /\ Len(Rows) <= MAX_SHADES /\ MAX_SHADES \in Nat
      /\ \A r, q \in DOMAIN Rows : Rows[r].unit = Rows[q].unit => r = q
  BY TableAssumption
<1>2. ASSUME NEW r \in 1..Len(Rows) PROVE Rows[r].seed = SeedOf(Rows[r].unit)
  <2>1. r \in DOMAIN Rows /\ \E p \in DOMAIN Rows : Rows[p].unit = Rows[r].unit
    BY <1>1
  <2>2. SeedOf(Rows[r].unit) = Rows[CHOOSE p \in DOMAIN Rows : Rows[p].unit = Rows[r].unit].seed
    BY <2>1 DEF SeedOf
  <2>3. (CHOOSE p \in DOMAIN Rows : Rows[p].unit = Rows[r].unit) = r
    BY <1>1, <2>1
  <2> QED BY <2>2, <2>3
<1>3. 0..Len(Rows) - 1 \in SUBSET Ids
  BY <1>1 DEF Ids
<1> QED BY <1>1, <1>2, <1>3 DEF Faithful, Records

\* A shade is there or it is not.
LEMMA LiveIs ==
    ASSUME NEW reg \in Registries
    PROVE  /\ Live(reg) \in SUBSET Ids
           /\ \A id \in Live(reg) : reg[id] \in Shades /\ reg[id].unit \in Units
BY DEF Registries, Live, Shades

\* What is written of a faithful table is faithful.
LEMMA WrittenFaithful ==
    ASSUME Catalogue
    PROVE  Faithful(RecordOf(registry, seeds, announced))
<1> DEFINE live == Live(registry)
           order == Ascending(live)
           Seed(id) == IF seeds[id] = None THEN 0 ELSE seeds[id]
           row(r) == Shade(registry[order[r]].unit, registry[order[r]].confirmed, Seed(order[r]))
           rows == [r \in 1..Len(order) |-> row(r)]
<1>1. registry \in Registries /\ live \in SUBSET Ids
  BY LiveIs DEF Catalogue
<1>2. live \in SUBSET Nat /\ IsFiniteSet(live) /\ MAX_SHADES \in Nat
  BY <1>1, FewIds, TableAssumption
<1>3. order \in Seq(live) /\ Len(order) = Cardinality(live)
  BY <1>2, AscendingIs
<1>4. Cardinality(live) <= MAX_SHADES
  <2>1. IsFiniteSet(Ids) /\ Cardinality(Ids) = MAX_SHADES
    BY <1>2, FS_Interval DEF Ids
  <2> QED BY <1>1, <2>1, FS_Subset
<1> HIDE DEF order, live
<1>5. ASSUME NEW r \in 1..Len(order)
      PROVE  row(r) \in Shades /\ row(r).seed = SeedOf(row(r).unit)
  <2>1. order[r] \in live
    BY <1>3
  <2>2. registry[order[r]] \in Shades /\ seeds[order[r]] = SeedOf(registry[order[r]].unit)
    BY <1>1, <2>1, LiveIs DEF Catalogue, live
  <2>3. Seed(order[r]) = SeedOf(registry[order[r]].unit) /\ Seed(order[r]) \in Nat
    BY <2>2, SeedOfIs, NoneIsNone
  <2> HIDE DEF Seed
  <2>4. row(r).unit = registry[order[r]].unit /\ row(r).seed = Seed(order[r])
    BY DEF Shade
  <2>5. row(r) \in Shades
    BY <2>2, <2>3 DEF Shade, Shades
  <2> QED BY <2>3, <2>4, <2>5
<1> HIDE DEF row
<1>6. rows \in Seq(Shades) /\ Len(rows) = Len(order) /\ \A r \in 1..Len(rows) : rows[r] = row(r)
  BY <1>3, <1>5
<1>7. RecordOf(registry, seeds, announced) = [rows |-> rows, announced |-> announced]
  BY DEF RecordOf, row, order, live
<1> HIDE DEF rows
<1>8. announced \in SUBSET Ids
  BY DEF Catalogue
<1> QED BY <1>3, <1>4, <1>5, <1>6, <1>7, <1>8 DEF Faithful, Records

\* A faithful record is read back as a table that agrees with itself.
LEMMA ReadBack ==
    ASSUME Faithful(flash)
    PROVE  /\ Registered(flash) \in Registries
           /\ Catalogued(flash) \in [Ids -> Nat \cup {None}]
           /\ \A id \in Live(Registered(flash)) :
                 Catalogued(flash)[id] = SeedOf(Registered(flash)[id].unit)
           /\ flash.announced \in SUBSET Ids
           /\ Grouped(flash) \in SUBSET Live(Registered(flash))
<1> DEFINE rows == flash.rows
           reg == Registered(flash)
<1>1. /\ rows \in Seq(Shades) /\ flash.announced \in SUBSET Ids /\ Len(rows) <= MAX_SHADES
      /\ \A r \in 1..Len(rows) : rows[r].seed = SeedOf(rows[r].unit)
  BY DEF Faithful, Records
<1>2. MAX_SHADES \in Nat /\ Len(rows) \in Nat /\ Ids = 0..MAX_SHADES - 1 /\ Members \subseteq Nat
  BY <1>1, TableAssumption DEF Ids
<1>3. reg = [id \in Ids |-> IF id < Len(rows) THEN rows[id + 1] ELSE None]
  BY DEF Registered
<1>4. Catalogued(flash) = [id \in Ids |-> IF id < Len(rows) THEN rows[id + 1].seed ELSE None]
  BY DEF Catalogued
<1> HIDE DEF rows, reg
<1>5. ASSUME NEW id \in Ids, id < Len(rows)
      PROVE  /\ rows[id + 1] \in Shades /\ rows[id + 1].seed \in Nat
             /\ rows[id + 1].seed = SeedOf(rows[id + 1].unit) /\ rows[id + 1] # None
  <2>1. id + 1 \in 1..Len(rows)
    BY <1>2, <1>5
  <2>2. rows[id + 1] \in Shades
    BY <1>1, <2>1
  <2> QED BY <1>1, <2>1, <2>2, NoneIsNone DEF Shades
<1>6. reg \in Registries
  BY <1>3, <1>5 DEF Registries
<1>7. Catalogued(flash) \in [Ids -> Nat \cup {None}]
  BY <1>4, <1>5
<1>8. ASSUME NEW id \in Live(reg) PROVE Catalogued(flash)[id] = SeedOf(reg[id].unit)
  BY <1>3, <1>4, <1>5 DEF Live
<1>9. ASSUME NEW row \in Grouped(flash) PROVE row \in Live(reg)
  <2>1. row \in Ids /\ row < Len(rows)
    BY <1>1, <1>2 DEF Grouped, rows
  <2> QED BY <1>3, <1>5, <2>1 DEF Live
<1> QED BY <1>1, <1>6, <1>7, <1>8, <1>9 DEF reg

\* A slot is filled with a new unit.
LEMMA FreeSlot ==
    ASSUME Live(registry) # Ids
    PROVE  FreeShadeId \in Ids /\ FreeShadeId \notin Live(registry)
<1> DEFINE free == Ids \ Live(registry)
<1>1. free \in SUBSET Nat /\ free # {}
  BY FewIds DEF Live
<1>2. \E id \in free : \A other \in free : id <= other
  BY <1>1, LeastNumber
<1> QED BY <1>2 DEF FreeShadeId

Answers == [is : {"announced", "retired"}, id : Ids]

\* Every step of the state task keeps the table.
LEMMA CatalogueTask ==
    ASSUME Catalogue, acks \in Seq(Answers), TableTask
    PROVE  Catalogue'
<1> USE DEF Catalogue
<1>1. ASSUME NEW unit \in Units, Add(unit) PROVE Catalogue'
  <2> DEFINE id == FreeShadeId
             new == Shade(unit, FALSE, FirstSeed)
  <2>1. id \in Ids /\ id \notin Live(registry) /\ unit \notin Provisioned
    BY <1>1, FreeSlot DEF Add
  <2>2. new \in Shades /\ new.unit = unit /\ FirstSeed \in Nat /\ SeedOf(unit) = FirstSeed
    BY <2>1, SeedOfIs DEF Shade, Shades, FirstSeed
  <2>3. /\ registry' = [registry EXCEPT ![id] = new] /\ seeds' = [seeds EXCEPT ![id] = FirstSeed]
        /\ UNCHANGED <<announced, group, flash>>
    BY <1>1 DEF Add, Place
  <2> HIDE DEF id, new
  <2>4. registry' \in Registries /\ seeds' \in [Ids -> Nat \cup {None}]
    BY <2>1, <2>2, <2>3 DEF Registries
  <2>5. ASSUME NEW other \in Live(registry') PROVE seeds'[other] = SeedOf(registry'[other].unit)
    BY <2>1, <2>2, <2>3, <2>5 DEF Live, Registries
  <2>6. group \in SUBSET Live(registry')
    BY <2>1, <2>3 DEF Live, Registries
  <2> QED BY <2>3, <2>4, <2>5, <2>6
<1>2. ASSUME NEW id \in Ids, ConfirmPairing(id) PROVE Catalogue'
  <2>1. /\ id \in Live(registry) /\ registry' = [registry EXCEPT ![id].confirmed = TRUE]
        /\ UNCHANGED <<seeds, announced, group, flash>>
    BY <1>2 DEF ConfirmPairing
  <2>2. registry[id] \in Shades
    BY <2>1, LiveIs
  <2> DEFINE yes == TRUE
             now == [registry[id] EXCEPT !.confirmed = yes]
  <2>3. now \in Shades /\ now.unit = registry[id].unit
    BY <2>2 DEF Shades
  <2>4. registry' = [registry EXCEPT ![id] = now]
    BY <2>1
  <2> HIDE DEF now
  <2>5. registry' \in Registries
    BY <2>3, <2>4 DEF Registries
  <2>6. Live(registry') = Live(registry)
    <3>1. registry \in [Ids -> Shades \cup {None}] /\ id \in Ids /\ registry[id] # None
      BY <2>1 DEF Live, Registries
    <3>2. \A other \in Ids : registry'[other] = IF other = id THEN now ELSE registry[other]
      BY <2>4, <3>1
    <3>3. now # None
      BY <2>3, NoneIsNone
    <3>4. \A other \in Ids : registry'[other] # None <=> registry[other] # None
      BY <3>1, <3>2, <3>3
    <3> QED BY <3>4 DEF Live
  <2>7. ASSUME NEW other \in Live(registry) PROVE registry'[other].unit = registry[other].unit
    BY <2>3, <2>4 DEF Live, Registries
  <2> QED BY <2>1, <2>5, <2>6, <2>7
<1>3. ASSUME NEW id \in Ids, Reconfigure(id) PROVE Catalogue'
  BY <1>3 DEF Reconfigure
<1>4. ASSUME NEW id \in Ids, RemoveShade(id) PROVE Catalogue'
  <2>1. /\ registry' = [registry EXCEPT ![id] = None] /\ seeds' = [seeds EXCEPT ![id] = None]
        /\ group' = group \ {id} /\ UNCHANGED <<announced, flash>>
    BY <1>4 DEF RemoveShade
  <2>2. registry' \in Registries /\ seeds' \in [Ids -> Nat \cup {None}]
    BY <2>1 DEF Registries
  <2>3. ASSUME NEW other \in Live(registry') PROVE other # id /\ other \in Live(registry)
    BY <2>1, <2>3 DEF Live, Registries
  <2>4. group' \in SUBSET Live(registry')
    BY <2>1 DEF Live, Registries
  <2> QED BY <2>1, <2>2, <2>3, <2>4 DEF Live, Registries
<1>5. CASE Persist
  <2>1. flash' = RecordOf(registry, seeds, announced) /\ UNCHANGED <<registry, seeds, announced, group>>
    BY <1>5 DEF Persist
  <2> QED BY <2>1, WrittenFaithful DEF Faithful
<1>6. CASE PersistFails
  <2>1. /\ flash' \in {flash, RecordOf(registry, seeds, announced)}
        /\ UNCHANGED <<registry, seeds, announced, group>>
    BY <1>6 DEF PersistFails
  <2> QED BY <2>1, WrittenFaithful DEF Faithful
<1>7. CASE Age
  BY <1>7 DEF Age
<1>8. CASE TakeAck
  <2>1. acks # <<>> /\ UNCHANGED <<registry, seeds, group, flash>>
    BY <1>8 DEF TakeAck
  <2>2. Head(acks).id \in Ids
    <3>1. Head(acks) \in Answers
      BY <2>1
    <3> QED BY <3>1 DEF Answers
  <2>3. announced' \in SUBSET Ids
    BY <1>8, <2>2 DEF TakeAck
  <2> QED BY <2>1, <2>3
<1> QED BY <1>1, <1>2, <1>3, <1>4, <1>5, <1>6, <1>7, <1>8 DEF TableTask

\* The ages of what is not yet written stay in order, and within the limit.
LEMMA DeferredTask ==
    ASSUME Deferred, TableTask
    PROVE  Deferred'
<1>1. MAX_DEFER \in Nat
  BY TableAssumption
<1>2. ASSUME pending' = Touch PROVE Deferred'
  BY <1>1, <1>2 DEF Deferred, Touch
<1>3. pending' = pending => Deferred'
  BY DEF Deferred
<1>4. pending' = None => Deferred'
  BY DEF Deferred
<1>5. CASE Age
  BY <1>1, <1>5 DEF Age, Deferred, Due
<1> QED BY <1>2, <1>3, <1>4, <1>5, Zenon
        DEF TableTask, Add, ConfirmPairing, Reconfigure, RemoveShade, TakeAck, Persist, PersistFails

-----------------------------------------------------------------------------
(* What the session is told                                                *)

Events == [is : {"added"}, id : Ids, unit : Units] \cup [is : {"removed"}, id : Ids]
             \cup [is : {"calibration"}, id : Ids] \cup [is : {"awaiting"}, count : Nat]

\* What an event is about: a slot, the figure of those awaiting, or neither.
Figure == -1
Neither == -2
Subject(e) == IF e.is \in {"added", "removed"} THEN e.id
              ELSE IF e.is = "awaiting" THEN Figure ELSE Neither
Meaning(e) == IF e.is = "added" THEN e.unit ELSE IF e.is = "awaiting" THEN e.count ELSE None

\* Who believed base of k, once told everything in q, believes fact.
Told(q, k, base, fact) ==
    \/ \E i \in 1..Len(q) : /\ Subject(q[i]) = k /\ Meaning(q[i]) = fact
                            /\ \A j \in 1..Len(q) : j > i => Subject(q[j]) # k
    \/ (\A i \in 1..Len(q) : Subject(q[i]) # k) /\ base = fact

\* One thing told after another.
LEMMA ToldMore ==
    ASSUME NEW S, NEW p \in Seq(S), NEW q \in Seq(S), NEW k, NEW base, NEW now, NEW fact,
           Told(p, k, base, now), Told(q, k, now, fact)
    PROVE  Told(p \o q, k, base, fact)
<1> DEFINE all == p \o q
<1>1. /\ Len(all) = Len(p) + Len(q) /\ Len(p) \in Nat /\ Len(q) \in Nat
      /\ \A i \in 1..Len(p) : all[i] = p[i]
      /\ \A i \in 1..Len(q) : all[Len(p) + i] = q[i]
  <2>1. Len(p) \in Nat /\ Len(q) \in Nat
    OBVIOUS
  <2>2. Len(all) = Len(p) + Len(q)
    OBVIOUS
  <2>3. ASSUME NEW i \in 1..Len(p) PROVE all[i] = p[i]
    OBVIOUS
  <2>4. ASSUME NEW i \in 1..Len(q) PROVE all[Len(p) + i] = q[i]
    OBVIOUS
  <2> QED BY <2>1, <2>2, <2>3, <2>4
<1> HIDE DEF all
<1>2. ASSUME NEW i \in 1..Len(all), i > Len(p)
      PROVE  i - Len(p) \in 1..Len(q) /\ all[i] = q[i - Len(p)]
  <2>1. i - Len(p) \in 1..Len(q) /\ Len(p) + (i - Len(p)) = i
    BY <1>1, <1>2
  <2> QED BY <1>1, <2>1
<1>3. CASE \E i \in 1..Len(q) : /\ Subject(q[i]) = k /\ Meaning(q[i]) = fact
                                /\ \A j \in 1..Len(q) : j > i => Subject(q[j]) # k
  <2>1. PICK i \in 1..Len(q) : /\ Subject(q[i]) = k /\ Meaning(q[i]) = fact
                               /\ \A j \in 1..Len(q) : j > i => Subject(q[j]) # k
    BY <1>3
  <2>2. Len(p) + i \in 1..Len(all) /\ all[Len(p) + i] = q[i]
    BY <1>1
  <2>3. ASSUME NEW j \in 1..Len(all), j > Len(p) + i PROVE Subject(all[j]) # k
    <3>1. j > Len(p) /\ j - Len(p) > i
      BY <1>1, <2>3
    <3> QED BY <1>2, <2>1, <3>1
  <2> QED BY <2>1, <2>2, <2>3 DEF Told, all
<1>4. CASE \A i \in 1..Len(q) : Subject(q[i]) # k
  <2>1. now = fact
    BY <1>4 DEF Told
  <2>2. \A j \in 1..Len(all) : j > Len(p) => Subject(all[j]) # k
    BY <1>2, <1>4
  <2>3. CASE \E i \in 1..Len(p) : /\ Subject(p[i]) = k /\ Meaning(p[i]) = now
                                  /\ \A j \in 1..Len(p) : j > i => Subject(p[j]) # k
    <3>1. PICK i \in 1..Len(p) : /\ Subject(p[i]) = k /\ Meaning(p[i]) = now
                                 /\ \A j \in 1..Len(p) : j > i => Subject(p[j]) # k
      BY <2>3
    <3>2. i \in 1..Len(all) /\ all[i] = p[i]
      BY <1>1
    <3>3. ASSUME NEW j \in 1..Len(all), j > i PROVE Subject(all[j]) # k
      <4>1. CASE j <= Len(p)
        <5>1. j \in 1..Len(p)
          BY <1>1, <4>1
        <5> QED BY <1>1, <3>1, <3>3, <5>1
      <4>2. CASE j > Len(p)
        BY <2>2, <4>2
      <4> QED BY <1>1, <4>1, <4>2
    <3> QED BY <2>1, <3>1, <3>2, <3>3 DEF Told, all
  <2>4. CASE (\A i \in 1..Len(p) : Subject(p[i]) # k) /\ base = now
    <3>1. ASSUME NEW j \in 1..Len(all) PROVE Subject(all[j]) # k
      <4>1. CASE j <= Len(p)
        <5>1. j \in 1..Len(p)
          BY <1>1, <4>1
        <5> QED BY <1>1, <2>4, <5>1
      <4>2. CASE j > Len(p)
        BY <2>2, <4>2
      <4> QED BY <1>1, <4>1, <4>2
    <3> QED BY <2>1, <2>4, <3>1 DEF Told, all
  <2> QED BY <2>3, <2>4 DEF Told
<1> QED BY <1>3, <1>4 DEF Told

\* What is left to be told once the first is believed.
LEMMA ToldFirst ==
    ASSUME NEW S, NEW q \in Seq(S), q # <<>>, NEW k, NEW base, NEW fact, Told(q, k, base, fact)
    PROVE  Told(Tail(q), k, IF Subject(Head(q)) = k THEN Meaning(Head(q)) ELSE base, fact)
<1> DEFINE rest == Tail(q)
<1>1. /\ Len(rest) = Len(q) - 1 /\ Len(q) \in Nat /\ Len(rest) \in Nat
      /\ \A i \in 1..Len(rest) : rest[i] = q[i + 1] /\ i + 1 \in 1..Len(q)
      /\ Head(q) = q[1] /\ 1 \in 1..Len(q)
  OBVIOUS
<1> HIDE DEF rest
<1>2. ASSUME NEW i \in 1..Len(q), Subject(q[i]) = k, Meaning(q[i]) = fact,
             \A j \in 1..Len(q) : j > i => Subject(q[j]) # k
      PROVE  Told(rest, k, IF Subject(Head(q)) = k THEN Meaning(Head(q)) ELSE base, fact)
  <2>1. CASE i = 1
    <3>1. \A j \in 1..Len(rest) : j + 1 > 1 /\ Subject(rest[j]) # k
      BY <1>1, <1>2, <2>1
    <3> QED BY <1>1, <1>2, <2>1, <3>1 DEF Told
  <2>2. CASE i # 1
    <3>1. i - 1 \in 1..Len(rest) /\ (i - 1) + 1 = i
      BY <1>1, <2>2
    <3>2. rest[i - 1] = q[i]
      BY <1>1, <3>1
    <3>3. ASSUME NEW j \in 1..Len(rest), j > i - 1 PROVE Subject(rest[j]) # k
      <4>1. j + 1 > i
        BY <1>1, <3>3
      <4> QED BY <1>1, <1>2, <4>1
    <3> QED BY <1>2, <3>1, <3>2, <3>3 DEF Told
  <2> QED BY <2>1, <2>2
<1>3. ASSUME \A i \in 1..Len(q) : Subject(q[i]) # k, base = fact
      PROVE  Told(rest, k, IF Subject(Head(q)) = k THEN Meaning(Head(q)) ELSE base, fact)
  BY <1>1, <1>3 DEF Told
<1> QED BY <1>2, <1>3 DEF Told, rest

-----------------------------------------------------------------------------
(* The invariant                                                           *)

\* What the session will hold of a slot once its plan is done.
WantOf(p, id) == IF In(p, AckRetired(id, "removed")) THEN None ELSE inventory[id]
Want(id) == WantOf(plan, id)

\* An announcement ends its plan, and so does the retirement of a shade that was
\* removed; what is cleared is not wanted, and what is shown is not retired.
PlanOK(p) ==
    /\ p \in Seq(Steps)
    /\ \A i \in 1..Len(p) :
          /\ p[i] = Announcement => i = Len(p)
          /\ p[i].is = "ackRetired" /\ p[i].why = "removed" => i = Len(p)
          /\ p[i].is = "ackRetired" /\ p[i].why = "orphan" => inventory[p[i].id] = None
          /\ p[i] \in Left \cup HidesOf({space}) => WantOf(p, p[i].id) = None
          /\ p[i] \in Shows => ~In(p, AckRetired(p[i].id, "removed"))

\* What the plan acknowledges as retired it has cleared, or clears first.
ClearedOK ==
    \A i \in 1..Len(plan) : plan[i].is = "ackRetired" =>
        \/ retained[space][plan[i].id] = None
        \/ \E j \in 1..(i - 1) : plan[j] = Hide(space, plan[i].id)

Typed ==
    /\ Catalogue /\ Deferred /\ Listed
    /\ events \in Seq(Events) /\ Len(events) <= EVENTS
    /\ acks \in Seq(Answers) /\ Len(acks) <= ACKS
    /\ up \in BOOLEAN /\ missed \in BOOLEAN /\ cutShort \in BOOLEAN
    /\ retained \in [Spaces -> [Ids -> Units \cup {None}]]
    /\ stale \subseteq 1..(space - 1)
    /\ PlanOK(plan) /\ ClearedOK
    /\ ~up => plan = <<>>

\* The slots boot found are cleared by the session's first plan.
OrphansOK == \A id \in orphans : inventory[id] = None
                                 /\ (up => In(plan, AckRetired(id, "orphan")))

\* The figure the broker keeps is the session's, or is on its way.
ShownOK == up => shown = count \/ In(plan, Report) \/ In(plan, Announcement)

\* Once told the events that wait, the session knows what the table holds.
Keys == Ids \cup {Figure}
Fact(reg, k) == IF k = Figure THEN Awaiting(reg) ELSE Entities(reg)[k]
Base(k) == IF k = Figure THEN count ELSE Want(k)
Belief == ~missed /\ ~cutShort => \A k \in Keys : Told(events, k, Base(k), Fact(registry, k))

\* Once its plan is done, the broker keeps what the session wants, where it is
\* configured to,
HereOK == up => \A id \in Ids :
    \/ <<space, id>> \in unnamed
    \/ retained[space][id] = Want(id)
    \/ Want(id) # None /\ In(plan, Show(id))
    \/ Want(id) = None /\ In(plan, Hide(space, id))

\* and what it does not know is gone, or on the list of those to be retired,
GoneOK == \A id \in Ids : inventory[id] = None =>
    <<space, id>> \in unnamed \/ retained[space][id] = None \/ id \in orphans

\* and elsewhere is cleared.
StaleOK == \A n \in Spaces \ {space}, id \in Ids :
    \/ <<n, id>> \in unnamed
    \/ retained[n][id] = None
    \/ n \in stale /\ inventory[id] # None /\ (up => In(plan, Hide(n, id)))

\* What was acknowledged as retired is gone, or it is acknowledged again after.
AcksOK == ~cutShort => \A i \in 1..Len(acks) : acks[i].is = "retired" =>
    \/ inventory[acks[i].id] = None /\ retained[space][acks[i].id] = None
    \/ In(plan, AckAnnounced(acks[i].id))
    \/ \E j \in 1..Len(acks) : j > i /\ acks[j] = Announced(acks[i].id)

BrokerInv ==
    Typed /\ OrphansOK /\ ShownOK /\ Belief /\ HereOK /\ GoneOK /\ StaleOK /\ AcksOK

-----------------------------------------------------------------------------
(* Plans and events, step by step                                          *)

\* The steps of a plan are its first and the rest.
LEMMA RestIs ==
    ASSUME NEW S, NEW p \in Seq(S), p # <<>>
    PROVE  /\ Head(p) \in S /\ Tail(p) \in Seq(S) /\ Len(Tail(p)) = Len(p) - 1
           /\ Len(p) \in Nat /\ 1 \in 1..Len(p) /\ p[1] = Head(p)
           /\ \A i \in 1..Len(Tail(p)) : Tail(p)[i] = p[i + 1] /\ i + 1 \in 1..Len(p)
           /\ \A x : In(p, x) <=> x = Head(p) \/ In(Tail(p), x)
<1> DEFINE rest == Tail(p)
<1>1. /\ Head(p) \in S /\ rest \in Seq(S) /\ Len(rest) = Len(p) - 1
      /\ Len(p) \in Nat /\ 1 \in 1..Len(p) /\ p[1] = Head(p)
      /\ \A i \in 1..Len(rest) : rest[i] = p[i + 1] /\ i + 1 \in 1..Len(p)
  OBVIOUS
<1> HIDE DEF rest
<1>2. ASSUME NEW i \in 1..Len(p), i # 1 PROVE i - 1 \in 1..Len(rest) /\ rest[i - 1] = p[i]
  <2>1. i - 1 \in 1..Len(rest) /\ (i - 1) + 1 = i
    BY <1>1, <1>2
  <2> QED BY <1>1, <2>1
<1>3. \A x : In(p, x) <=> x = Head(p) \/ In(rest, x)
  BY <1>1, <1>2 DEF In
<1> QED BY <1>1, <1>3 DEF rest

\* One more at the end.
LEMMA MoreIs ==
    ASSUME NEW S, NEW p \in Seq(S), NEW x \in S
    PROVE  /\ Append(p, x) \in Seq(S) /\ Len(Append(p, x)) = Len(p) + 1 /\ Len(p) \in Nat
           /\ \A i \in 1..Len(p) : Append(p, x)[i] = p[i]
           /\ Append(p, x)[Len(p) + 1] = x
OBVIOUS

\* What is sent is taken whole or, past the places there are, from the end.
LEMMA SendIs ==
    ASSUME events \in Seq(Events), Len(events) <= EVENTS, NEW new \in Seq(Events), Announce(new),
           missed \in BOOLEAN
    PROVE  /\ events' \in Seq(Events) /\ Len(events') <= EVENTS /\ missed' \in BOOLEAN
           /\ ~missed' => ~missed /\ events' = events \o new
<1> DEFINE all == events \o new
           room == Min({EVENTS, Len(events) + Len(new)})
<1>1. all \in Seq(Events) /\ Len(all) = Len(events) + Len(new)
      /\ Len(events) \in Nat /\ Len(new) \in Nat
  OBVIOUS
<1>2. EVENTS \in Nat
  BY TableAssumption
<1>3. room = IF EVENTS <= Len(events) + Len(new) THEN EVENTS ELSE Len(events) + Len(new)
  <2> DEFINE least == IF EVENTS <= Len(events) + Len(new) THEN EVENTS ELSE Len(events) + Len(new)
  <2>1. least \in {EVENTS, Len(events) + Len(new)}
        /\ \A n \in {EVENTS, Len(events) + Len(new)} : n \in Nat /\ least <= n
    BY <1>1, <1>2
  <2>2. \A m \in {EVENTS, Len(events) + Len(new)} :
            (\A n \in {EVENTS, Len(events) + Len(new)} : m <= n) => m = least
    BY <1>1, <1>2
  <2> HIDE DEF least
  <2>3. room = CHOOSE m \in {EVENTS, Len(events) + Len(new)} :
                   \A n \in {EVENTS, Len(events) + Len(new)} : m <= n
    BY DEF Min
  <2> HIDE DEF room
  <2>4. room = least
    BY <2>1, <2>2, <2>3
  <2> QED BY <2>4 DEF least
<1> HIDE DEF all, room
<1>4. events' = SubSeq(all, 1, room) /\ missed' = (missed \/ Len(events) + Len(new) > EVENTS)
  BY DEF Announce, Send, all, room
<1>5. room \in Nat /\ room <= Len(all) /\ room <= EVENTS
  BY <1>1, <1>2, <1>3
<1>6. SubSeq(all, 1, room) \in Seq(Events) /\ Len(SubSeq(all, 1, room)) = room
  BY <1>1, <1>5
<1>7. ASSUME ~missed' PROVE ~missed /\ events' = all
  <2>0. ~missed /\ ~(Len(events) + Len(new) > EVENTS)
    BY <1>4, <1>7, Zenon
  <2>1. ~missed /\ room = Len(all)
    BY <1>1, <1>2, <1>3, <2>0
  <2>2. SubSeq(all, 1, Len(all)) = all
    BY <1>1
  <2> QED BY <1>4, <2>1, <2>2
<1> QED BY <1>4, <1>5, <1>6, <1>7 DEF all

\* The figure and the entities of a registry.
LEMMA FactIs ==
    ASSUME NEW reg \in Registries
    PROVE  /\ Awaiting(reg) \in Nat /\ Entities(reg) \in [Ids -> Units \cup {None}]
           /\ \A id \in Ids : Fact(reg, id) = Entities(reg)[id]
           /\ Fact(reg, Figure) = Awaiting(reg)
<1>1. Live(reg) \in SUBSET Ids /\ \A id \in Live(reg) : reg[id].unit \in Units
  BY LiveIs
<1>2. IsFiniteSet(Live(reg) \ Confirmed(reg))
  BY <1>1, FewIds
<1>3. Awaiting(reg) \in Nat
  BY <1>2, FS_CardinalityType DEF Awaiting
<1>4. Entities(reg) \in [Ids -> Units \cup {None}]
  <2>1. \A id \in Ids : (IF id \in Confirmed(reg) THEN reg[id].unit ELSE None) \in Units \cup {None}
    BY <1>1 DEF Confirmed
  <2> QED BY <2>1 DEF Entities
<1>5. \A id \in Ids : id # Figure
  BY FewIds DEF Figure
<1> QED BY <1>3, <1>4, <1>5 DEF Fact

\* A slot is an entity when its shade is confirmed.
LEMMA EntityIs ==
    ASSUME NEW reg, NEW id \in Ids
    PROVE  /\ id \in Live(reg) /\ reg[id].confirmed => Entities(reg)[id] = reg[id].unit
           /\ ~(id \in Live(reg) /\ reg[id].confirmed) => Entities(reg)[id] = None
<1>1. Entities(reg)[id] = IF id \in Confirmed(reg) THEN reg[id].unit ELSE None
  BY DEF Entities
<1>2. id \in Confirmed(reg) <=> id \in Live(reg) /\ reg[id].confirmed
  BY Zenon DEF Confirmed
<1> QED BY <1>1, <1>2, Zenon

\* What the kinds of event are about.
LEMMA SubjectsAre ==
    ASSUME NEW id, NEW x
    PROVE  /\ Subject(Added(id, x)) = id /\ Meaning(Added(id, x)) = x
           /\ Subject(Removed(id)) = id /\ Meaning(Removed(id)) = None
           /\ Subject(Calibration(id)) = Neither
           /\ Subject(AwaitingSetup(x)) = Figure /\ Meaning(AwaitingSetup(x)) = x
BY DEF Subject, Meaning, Added, Removed, Calibration, AwaitingSetup

\* The figure alone is told.
LEMMA FigureTold ==
    ASSUME NEW reg \in Registries, NEW now \in Registries,
           \A id \in Ids : Entities(reg)[id] = Entities(now)[id]
    PROVE  \A k \in Keys : Told(<<AwaitingSetup(Awaiting(now))>>, k, Fact(reg, k), Fact(now, k))
<1> DEFINE e == AwaitingSetup(Awaiting(now))
           q == <<e>>
<1>1. Subject(e) = Figure /\ Meaning(e) = Awaiting(now)
  BY SubjectsAre
<1> HIDE DEF e
<1>2. Len(q) = 1 /\ q[1] = e
  OBVIOUS
<1>3. Told(q, Figure, Fact(reg, Figure), Fact(now, Figure))
  <2>1. Fact(now, Figure) = Awaiting(now)
    BY FactIs
  <2> HIDE DEF q
  <2> QED BY <1>1, <1>2, <2>1 DEF Told
<1>4. ASSUME NEW id \in Ids PROVE Told(q, id, Fact(reg, id), Fact(now, id))
  <2>1. Fact(reg, id) = Fact(now, id) /\ id # Figure
    BY FactIs, FewIds DEF Figure
  <2> HIDE DEF q
  <2> QED BY <1>1, <1>2, <2>1 DEF Told
<1> QED BY <1>3, <1>4 DEF Keys, e

\* A slot that changed is told before the figure.
LEMMA SlotTold ==
    ASSUME NEW reg \in Registries, NEW now \in Registries, NEW id \in Ids,
           \A other \in Ids \ {id} : Entities(reg)[other] = Entities(now)[other],
           NEW S, NEW q \in Seq(S), Len(q) > 0, Subject(q[1]) = id, Meaning(q[1]) = Entities(now)[id],
           \A i \in 1..Len(q) : i > 1 => Subject(q[i]) \in {Figure, Neither},
           Subject(q[Len(q)]) = Figure, Meaning(q[Len(q)]) = Awaiting(now)
    PROVE  \A k \in Keys : Told(q, k, Fact(reg, k), Fact(now, k))
<1>1. id # Figure /\ id # Neither /\ Len(q) \in Nat /\ 1 \in 1..Len(q) /\ Len(q) \in 1..Len(q)
  BY FewIds DEF Figure, Neither
<1>2. Fact(now, Figure) = Awaiting(now) /\ \A other \in Ids : Fact(now, other) = Entities(now)[other]
                                                   /\ Fact(reg, other) = Entities(reg)[other]
  BY FactIs
<1>3. Told(q, Figure, Fact(reg, Figure), Fact(now, Figure))
  BY <1>1, <1>2 DEF Told
<1>4. Told(q, id, Fact(reg, id), Fact(now, id))
  BY <1>1, <1>2 DEF Told
<1>5. ASSUME NEW other \in Ids \ {id} PROVE Told(q, other, Fact(reg, other), Fact(now, other))
  <2>1. other # Figure /\ other # Neither /\ Fact(reg, other) = Fact(now, other)
    BY <1>2, FewIds DEF Figure, Neither
  <2>2. ASSUME NEW i \in 1..Len(q) PROVE Subject(q[i]) # other
    <3>1. i = 1 \/ i > 1
      BY <1>1
    <3> QED BY <2>1, <3>1
  <2> QED BY <2>1, <2>2 DEF Told
<1> QED BY <1>3, <1>4, <1>5 DEF Keys

\* The figure after what comes before it.
LEMMA LastIs ==
    ASSUME NEW S, NEW p \in Seq(S), NEW x \in S
    PROVE  /\ p \o <<x>> \in Seq(S) /\ Len(p \o <<x>>) = Len(p) + 1
           /\ \A i \in 1..Len(p) : (p \o <<x>>)[i] = p[i]
           /\ (p \o <<x>>)[Len(p) + 1] = x
<1> DEFINE q == <<x>>
<1>0. q \in Seq(S)
  OBVIOUS
<1>1. Len(q) = 1 /\ q[1] = x
  OBVIOUS
<1> HIDE DEF q
<1>2. /\ p \o q \in Seq(S) /\ Len(p \o q) = Len(p) + Len(q)
      /\ \A i \in 1..Len(p) : (p \o q)[i] = p[i]
      /\ \A i \in 1..Len(q) : (p \o q)[Len(p) + i] = q[i]
  BY <1>0
<1>3. (p \o q)[Len(p) + 1] = x
  BY <1>1, <1>2
<1> QED BY <1>1, <1>2, <1>3 DEF q

\* What is told of a shade that was added, confirmed or given a new configuration.
LEMMA ShadeTold ==
    ASSUME NEW reg \in Registries, NEW now \in Registries, NEW id \in Live(now),
           \A other \in Ids \ {id} : reg[other] = now[other],
           ~now[id].confirmed => Entities(reg)[id] = None
    PROVE  /\ ShadeEvents(now, id) \in Seq(Events)
           /\ \A k \in Keys : Told(ShadeEvents(now, id), k, Fact(reg, k), Fact(now, k))
<1> DEFINE first == Added(id, now[id].unit)
           second == Calibration(id)
           last == AwaitingSetup(Awaiting(now))
<1>0. id \in Ids /\ now[id] \in Shades /\ now[id].unit \in Units
  BY LiveIs
<1>1. first \in Events /\ second \in Events /\ last \in Events
  <2>1. Awaiting(now) \in Nat
    BY FactIs
  <2> QED BY <1>0, <2>1 DEF Added, Calibration, AwaitingSetup, Events
<1>2. \A other \in Ids \ {id} : Entities(reg)[other] = Entities(now)[other]
  <2>1. ASSUME NEW other \in Ids \ {id} PROVE Entities(reg)[other] = Entities(now)[other]
    <3>1. other \in Live(reg) <=> other \in Live(now)
      BY DEF Live
    <3>2. reg[other] = now[other]
      OBVIOUS
    <3>3. CASE other \in Live(now) /\ now[other].confirmed
      <4>1. other \in Live(reg) /\ reg[other].confirmed
        BY <3>1, <3>2, <3>3, Zenon
      <4>2. Entities(now)[other] = now[other].unit
        BY <3>3, EntityIs, Zenon
      <4>3. Entities(reg)[other] = reg[other].unit
        BY <4>1, EntityIs, Zenon
      <4> QED BY <3>2, <4>2, <4>3
    <3>4. CASE ~(other \in Live(now) /\ now[other].confirmed)
      <4>1. ~(other \in Live(reg) /\ reg[other].confirmed)
        BY <3>1, <3>2, <3>4, Zenon
      <4>2. Entities(now)[other] = None
        BY <3>4, EntityIs, Zenon
      <4>3. Entities(reg)[other] = None
        BY <4>1, EntityIs, Zenon
      <4> QED BY <4>2, <4>3
    <3> QED BY <3>3, <3>4
  <2> QED BY <2>1
<1>3. /\ Subject(first) = id /\ Meaning(first) = now[id].unit /\ Subject(second) = Neither
      /\ Subject(last) = Figure /\ Meaning(last) = Awaiting(now)
  BY SubjectsAre
<1>4. ShadeEvents(now, id) = (IF now[id].confirmed THEN <<first, second>> ELSE <<>>) \o <<last>>
  BY Zenon DEF ShadeEvents
<1> HIDE DEF first, second, last
<1>5. CASE now[id].confirmed
  <2> DEFINE p == <<first, second>>
             q == p \o <<last>>
  <2>1. ShadeEvents(now, id) = q
    BY <1>4, <1>5, Zenon
  <2>2. p \in Seq(Events) /\ Len(p) = 2 /\ p[1] = first /\ p[2] = second
    BY <1>1
  <2> HIDE DEF p
  <2>3. q \in Seq(Events) /\ Len(q) = 3 /\ q[1] = first /\ q[2] = second /\ q[3] = last
    <3>1. /\ q \in Seq(Events) /\ Len(q) = Len(p) + 1
          /\ (\A i \in 1..Len(p) : q[i] = p[i]) /\ q[Len(p) + 1] = last
      <4>1. p \in Seq(Events) /\ last \in Events
        BY <1>1, <2>2
      <4> QED BY <4>1, LastIs, Zenon
    <3> HIDE DEF q
    <3> QED BY <2>2, <3>1
  <2>4. Meaning(first) = Entities(now)[id]
    BY <1>0, <1>3, <1>5, EntityIs, Zenon
  <2> HIDE DEF q
  <2>5. \A k \in Keys : Told(q, k, Fact(reg, k), Fact(now, k))
    <3>1. Len(q) > 0 /\ Subject(q[1]) = id /\ Meaning(q[1]) = Entities(now)[id]
          /\ Subject(q[Len(q)]) = Figure /\ Meaning(q[Len(q)]) = Awaiting(now)
      BY <1>3, <2>3, <2>4
    <3>2. ASSUME NEW i \in 1..Len(q), i > 1 PROVE Subject(q[i]) \in {Figure, Neither}
      <4>1. i = 2 \/ i = 3
        BY <2>3, <3>2
      <4> QED BY <1>3, <2>3, <4>1
    <3> QED BY <1>0, <1>2, <2>3, <3>1, <3>2, SlotTold
  <2> QED BY <2>1, <2>3, <2>5
<1>6. CASE ~now[id].confirmed
  <2>1. ShadeEvents(now, id) = <<>> \o <<last>>
    BY <1>4, <1>6, Zenon
  <2>2. <<>> \o <<last>> = <<last>> /\ <<last>> \in Seq(Events)
    BY <1>1
  <2>3. Entities(now)[id] = None
    BY <1>0, <1>6, EntityIs, Zenon
  <2>4. \A other \in Ids : Entities(reg)[other] = Entities(now)[other]
    <3>1. Entities(reg)[id] = None
      BY <1>6, Zenon
    <3> QED BY <1>2, <2>3, <3>1
  <2>5. \A k \in Keys : Told(<<last>>, k, Fact(reg, k), Fact(now, k))
    BY <2>4, FigureTold DEF last
  <2> QED BY <2>1, <2>2, <2>5
<1> QED BY <1>5, <1>6

\* What is told of a shade that was removed.
RemovalEvents(id) == (IF registry[id].confirmed THEN <<Removed(id)>> ELSE <<>>)
                        \o <<AwaitingSetup(Awaiting(registry'))>>

\* What a removal sends tells the session that the slot is empty.
LEMMA RemovalTold ==
    ASSUME registry \in Registries, NEW id \in Live(registry),
           registry' = [registry EXCEPT ![id] = None]
    PROVE  /\ RemovalEvents(id) \in Seq(Events) /\ registry' \in Registries
           /\ \A k \in Keys : Told(RemovalEvents(id), k, Fact(registry, k), Fact(registry', k))
<1> DEFINE first == Removed(id)
           last == AwaitingSetup(Awaiting(registry'))
<1>0. id \in Ids /\ registry' \in Registries
  BY LiveIs DEF Registries
<1>1. first \in Events /\ last \in Events
  <2>1. Awaiting(registry') \in Nat
    BY <1>0, FactIs
  <2> QED BY <1>0, <2>1 DEF Removed, AwaitingSetup, Events
<1>2. \A other \in Ids \ {id} : Entities(registry)[other] = Entities(registry')[other]
  <2>1. ASSUME NEW other \in Ids \ {id} PROVE Entities(registry)[other] = Entities(registry')[other]
    <3>2. registry[other] = registry'[other]
      BY DEF Registries
    <3>1. other \in Live(registry) <=> other \in Live(registry')
      BY <3>2 DEF Live
    <3>3. CASE other \in Live(registry') /\ registry'[other].confirmed
      <4>1. other \in Live(registry) /\ registry[other].confirmed
        BY <3>1, <3>2, <3>3, Zenon
      <4>2. Entities(registry')[other] = registry'[other].unit
        BY <3>3, EntityIs, Zenon
      <4>3. Entities(registry)[other] = registry[other].unit
        BY <4>1, EntityIs, Zenon
      <4> QED BY <3>2, <4>2, <4>3
    <3>4. CASE ~(other \in Live(registry') /\ registry'[other].confirmed)
      <4>1. ~(other \in Live(registry) /\ registry[other].confirmed)
        BY <3>1, <3>2, <3>4, Zenon
      <4>2. Entities(registry')[other] = None
        BY <3>4, EntityIs, Zenon
      <4>3. Entities(registry)[other] = None
        BY <4>1, EntityIs, Zenon
      <4> QED BY <4>2, <4>3
    <3> QED BY <3>3, <3>4
  <2> QED BY <2>1
<1>3. /\ Subject(first) = id /\ Meaning(first) = None
      /\ Subject(last) = Figure /\ Meaning(last) = Awaiting(registry')
  BY SubjectsAre
<1>4. RemovalEvents(id) = (IF registry[id].confirmed THEN <<first>> ELSE <<>>) \o <<last>>
  BY Zenon DEF RemovalEvents
<1>7. Entities(registry')[id] = None
  <2>1. registry'[id] = None
    BY <1>0 DEF Registries
  <2>2. id \notin Live(registry')
    BY <2>1 DEF Live
  <2> QED BY <1>0, <2>2, EntityIs, Zenon
<1> HIDE DEF first, last
<1>5. CASE registry[id].confirmed
  <2> DEFINE p == <<first>>
             q == p \o <<last>>
  <2>1. RemovalEvents(id) = q
    BY <1>4, <1>5, Zenon
  <2>2. p \in Seq(Events) /\ Len(p) = 1 /\ p[1] = first
    BY <1>1
  <2> HIDE DEF p
  <2>3. q \in Seq(Events) /\ Len(q) = 2 /\ q[1] = first /\ q[2] = last
    <3>1. /\ q \in Seq(Events) /\ Len(q) = Len(p) + 1
          /\ (\A i \in 1..Len(p) : q[i] = p[i]) /\ q[Len(p) + 1] = last
      <4>1. p \in Seq(Events) /\ last \in Events
        BY <1>1, <2>2
      <4> QED BY <4>1, LastIs, Zenon
    <3> HIDE DEF q
    <3> QED BY <2>2, <3>1
  <2> HIDE DEF q
  <2>5. \A k \in Keys : Told(q, k, Fact(registry, k), Fact(registry', k))
    <3>1. Len(q) > 0 /\ Subject(q[1]) = id /\ Meaning(q[1]) = Entities(registry')[id]
          /\ Subject(q[Len(q)]) = Figure /\ Meaning(q[Len(q)]) = Awaiting(registry')
      BY <1>3, <1>7, <2>3
    <3>2. ASSUME NEW i \in 1..Len(q), i > 1 PROVE Subject(q[i]) \in {Figure, Neither}
      <4>1. i = 2
        BY <2>3, <3>2
      <4> QED BY <1>3, <2>3, <4>1
    <3> QED BY <1>0, <1>2, <2>3, <3>1, <3>2, SlotTold
  <2> QED BY <1>0, <2>1, <2>3, <2>5
<1>6. CASE ~registry[id].confirmed
  <2>1. RemovalEvents(id) = <<>> \o <<last>>
    BY <1>4, <1>6, Zenon
  <2>2. <<>> \o <<last>> = <<last>> /\ <<last>> \in Seq(Events)
    BY <1>1
  <2>3. Entities(registry)[id] = None
    BY <1>0, <1>6, EntityIs, Zenon
  <2>4. \A other \in Ids : Entities(registry)[other] = Entities(registry')[other]
    BY <1>2, <1>7, <2>3
  <2>5. \A k \in Keys : Told(<<last>>, k, Fact(registry, k), Fact(registry', k))
    BY <1>0, <2>4, FigureTold DEF last
  <2> QED BY <1>0, <2>1, <2>2, <2>5
<1> QED BY <1>5, <1>6

\* Whatever the state task does, it tells the session what it changed.
LEMMA TellsTask ==
    ASSUME Typed, TableTask
    PROVE  /\ events' \in Seq(Events) /\ Len(events') <= EVENTS /\ missed' \in BOOLEAN
           /\ ~missed' => ~missed /\ \A k \in Keys :
                  \A base : Told(events, k, base, Fact(registry, k))
                               => Told(events', k, base, Fact(registry', k))
<1> DEFINE Tells == /\ events' \in Seq(Events) /\ Len(events') <= EVENTS /\ missed' \in BOOLEAN
                    /\ ~missed' => ~missed /\ \A k \in Keys :
                           \A base : Told(events, k, base, Fact(registry, k))
                                        => Told(events', k, base, Fact(registry', k))
<1>1. /\ registry \in Registries /\ events \in Seq(Events) /\ Len(events) <= EVENTS
      /\ missed \in BOOLEAN
  BY DEF Typed, Catalogue
<1>2. ASSUME NEW new \in Seq(Events), Announce(new),
             \A k \in Keys : Told(new, k, Fact(registry, k), Fact(registry', k))
      PROVE  Tells
  <2>1. /\ events' \in Seq(Events) /\ Len(events') <= EVENTS /\ missed' \in BOOLEAN
        /\ ~missed' => ~missed /\ events' = events \o new
    BY <1>1, <1>2, SendIs
  <2>2. ASSUME NEW k \in Keys, NEW base, Told(events, k, base, Fact(registry, k))
        PROVE  Told(events \o new, k, base, Fact(registry', k))
    <3>1. Told(new, k, Fact(registry, k), Fact(registry', k))
      BY <1>2
    <3> QED BY <1>1, <1>2, <2>2, <3>1, ToldMore
  <2> QED BY <2>1, <2>2
<1>3. ASSUME UNCHANGED <<registry, events, missed>> PROVE Tells
  BY <1>1, <1>3
<1> HIDE DEF Tells
<1>4. ASSUME NEW unit \in Units, Add(unit) PROVE Tells
  <2> DEFINE id == FreeShadeId
             new == Shade(unit, FALSE, FirstSeed)
  <2>1. id \in Ids /\ id \notin Live(registry)
    BY <1>4, FreeSlot DEF Add
  <2>2. registry' = [registry EXCEPT ![id] = new] /\ Announce(ShadeEvents(registry', id))
    BY <1>4 DEF Add
  <2>3. new \in Shades
    BY DEF Shade, Shades, FirstSeed
  <2>5. Entities(registry)[id] = None
    BY <2>1, EntityIs, Zenon
  <2> HIDE DEF id, new
  <2>4. registry' \in Registries /\ id \in Live(registry')
        /\ \A other \in Ids \ {id} : registry[other] = registry'[other]
    BY <1>1, <2>1, <2>2, <2>3, NoneIsNone DEF Registries, Live
  <2>6. /\ ShadeEvents(registry', id) \in Seq(Events)
        /\ \A k \in Keys : Told(ShadeEvents(registry', id), k, Fact(registry, k), Fact(registry', k))
    BY <1>1, <2>4, <2>5, ShadeTold, Zenon
  <2> QED BY <1>2, <2>2, <2>6
<1>5. ASSUME NEW id \in Ids, ConfirmPairing(id) PROVE Tells
  <2> DEFINE yes == TRUE
             now == [registry[id] EXCEPT !.confirmed = yes]
  <2>1. id \in Live(registry) /\ registry' = [registry EXCEPT ![id] = now]
        /\ Announce(ShadeEvents(registry', id))
    BY <1>5 DEF ConfirmPairing
  <2>2. registry[id] \in Shades
    BY <1>1, <2>1, LiveIs
  <2>3. now \in Shades /\ now.confirmed = yes
    BY <2>2 DEF Shades
  <2> HIDE DEF now, yes
  <2>4. registry' \in Registries /\ id \in Live(registry') /\ registry'[id] = now
        /\ \A other \in Ids \ {id} : registry[other] = registry'[other]
    BY <1>1, <2>1, <2>3, NoneIsNone DEF Registries, Live
  <2>5. registry'[id].confirmed
    BY <2>3, <2>4, Zenon DEF yes
  <2>6. /\ ShadeEvents(registry', id) \in Seq(Events)
        /\ \A k \in Keys : Told(ShadeEvents(registry', id), k, Fact(registry, k), Fact(registry', k))
    BY <1>1, <2>4, <2>5, ShadeTold, Zenon
  <2> QED BY <1>2, <2>1, <2>6
<1>6. ASSUME NEW id \in Ids, Reconfigure(id) PROVE Tells
  <2>1. id \in Live(registry) /\ registry' = registry /\ Announce(ShadeEvents(registry, id))
    BY <1>6 DEF Reconfigure
  <2>2. ~registry[id].confirmed => Entities(registry)[id] = None
    BY EntityIs, Zenon
  <2>3. /\ ShadeEvents(registry, id) \in Seq(Events)
        /\ \A k \in Keys : Told(ShadeEvents(registry, id), k, Fact(registry, k), Fact(registry, k))
    BY <1>1, <2>1, <2>2, ShadeTold, Zenon
  <2> QED BY <1>2, <2>1, <2>3
<1>7. ASSUME NEW id \in Ids, RemoveShade(id) PROVE Tells
  <2>1. /\ id \in Live(registry) /\ registry' = [registry EXCEPT ![id] = None]
        /\ Announce(RemovalEvents(id))
    BY <1>7 DEF RemoveShade, RemovalEvents
  <2>2. /\ RemovalEvents(id) \in Seq(Events)
        /\ \A k \in Keys : Told(RemovalEvents(id), k, Fact(registry, k), Fact(registry', k))
    BY <1>1, <2>1, RemovalTold
  <2> QED BY <1>2, <2>1, <2>2
<1>8. ASSUME TakeAck PROVE Tells
  <2>1. UNCHANGED <<registry, events, missed>>
    BY <1>8 DEF TakeAck
  <2> QED BY <1>3, <2>1, Zenon
<1>9. ASSUME Persist PROVE Tells
  <2>1. UNCHANGED <<registry, events, missed>>
    BY <1>9 DEF Persist
  <2> QED BY <1>3, <2>1, Zenon
<1>10. ASSUME PersistFails PROVE Tells
  <2>1. UNCHANGED <<registry, events, missed>>
    BY <1>10 DEF PersistFails
  <2> QED BY <1>3, <2>1, Zenon
<1>11. ASSUME Age PROVE Tells
  <2>1. UNCHANGED <<registry, events, missed>>
    BY <1>11 DEF Age
  <2> QED BY <1>3, <2>1, Zenon
<1>12. Tells
  BY <1>4, <1>5, <1>6, <1>7, <1>8, <1>9, <1>10, <1>11 DEF TableTask
<1> QED BY <1>12, Zenon DEF Tells

\* The answers are taken in their order, and only taken.
LEMMA AnswersTask ==
    ASSUME Typed, TableTask
    PROVE  \/ acks' = acks /\ announced' = announced
           \/ TakeAck /\ acks # <<>> /\ acks' = Tail(acks)
<1>1. TakeAck => acks # <<>> /\ acks' = Tail(acks)
  BY DEF TakeAck
<1> QED BY <1>1, Zenon DEF TableTask, Add, ConfirmPairing, Reconfigure, RemoveShade, Persist, PersistFails, Age

-----------------------------------------------------------------------------
(* The session's steps keep the invariant                                  *)

\* A step is what its kind says.
LEMMA StepIs ==
    ASSUME NEW step \in Steps
    PROVE  /\ step.is = "show" => step \in Shows /\ step.id \in Ids /\ step = Show(step.id)
           /\ step.is = "hide" => /\ step \in Hides /\ step.id \in Ids /\ step.space \in Spaces
                                  /\ step = Hide(step.space, step.id)
           /\ step.is = "ackAnnounced" => /\ step \in Joined /\ step.id \in Ids
                                          /\ step = AckAnnounced(step.id)
           /\ step.is = "ackRetired" => /\ step \in Left /\ step.id \in Ids
                                        /\ step.why \in {"removed", "orphan"}
                                        /\ step = AckRetired(step.id, step.why)
           /\ step.is = "announcement" => step = Announcement
           /\ step.is = "report" => step = Report
<1>1. ASSUME step \in Shows
      PROVE  step.is = "show" /\ step.id \in Ids /\ step = Show(step.id)
  BY <1>1 DEF Shows, Show
<1>2. ASSUME step \in Hides
      PROVE  /\ step.is = "hide" /\ step.id \in Ids /\ step.space \in Spaces
             /\ step = Hide(step.space, step.id)
  BY <1>2 DEF Hides, HidesOf, Hide
<1>3. ASSUME step \in Joined
      PROVE  step.is = "ackAnnounced" /\ step.id \in Ids /\ step = AckAnnounced(step.id)
  BY <1>3 DEF Joined, AckAnnounced
<1>4. ASSUME step \in Left
      PROVE  /\ step.is = "ackRetired" /\ step.id \in Ids /\ step.why \in {"removed", "orphan"}
             /\ step = AckRetired(step.id, step.why)
  BY <1>4 DEF Left, AckRetired
<1>5. Announcement.is = "announcement" /\ Report.is = "report"
  BY DEF Announcement, Report
<1>6. \/ step \in Shows \/ step \in Hides \/ step \in Joined \/ step \in Left
      \/ step = Announcement \/ step = Report
  BY DEF Steps
<1> QED BY <1>1, <1>2, <1>3, <1>4, <1>5, <1>6

\* The steps one by one.
LEMMA MadeAre ==
    ASSUME NEW n, NEW id, NEW why
    PROVE  /\ Show(id).is = "show" /\ Show(id).id = id
           /\ Hide(n, id).is = "hide" /\ Hide(n, id).id = id /\ Hide(n, id).space = n
           /\ AckAnnounced(id).is = "ackAnnounced" /\ AckAnnounced(id).id = id
           /\ AckRetired(id, why).is = "ackRetired" /\ AckRetired(id, why).id = id
           /\ AckRetired(id, why).why = why
           /\ id \in Ids => /\ Show(id) \in Shows /\ AckAnnounced(id) \in Joined
                            /\ n \in Spaces => Hide(n, id) \in Hides
                            /\ why \in {"removed", "orphan"} => AckRetired(id, why) \in Left
           /\ Announcement.is = "announcement" /\ Report.is = "report"
BY DEF Show, Hide, AckAnnounced, AckRetired, Shows, Hides, HidesOf, Joined, Left,
       Announcement, Report

\* What was true of a plan is true of the rest of it.
LEMMA PlanRest ==
    ASSUME PlanOK(plan), plan # <<>>, plan' = Tail(plan), UNCHANGED <<space, inventory>>,
           ~(Head(plan).is = "ackRetired" /\ Head(plan).why = "removed")
    PROVE  /\ PlanOK(plan)'
           /\ \A id : Want(id)' = Want(id)
<1>1. plan \in Seq(Steps)
  BY DEF PlanOK
<1>2. /\ plan' \in Seq(Steps) /\ Len(plan') = Len(plan) - 1 /\ Len(plan) \in Nat
      /\ \A i \in 1..Len(plan') : plan'[i] = plan[i + 1] /\ i + 1 \in 1..Len(plan)
      /\ \A x : In(plan, x) <=> x = Head(plan) \/ In(plan', x)
  BY <1>1, RestIs
<1>3. ASSUME NEW id PROVE AckRetired(id, "removed") # Head(plan)
  <2>1. AckRetired(id, "removed").is = "ackRetired" /\ AckRetired(id, "removed").why = "removed"
    BY DEF AckRetired
  <2> QED BY <2>1, Zenon
<1>4. \A id : In(plan, AckRetired(id, "removed")) <=> In(plan', AckRetired(id, "removed"))
  BY <1>2, <1>3
<1>5. \A id : WantOf(plan, id)' = WantOf(plan, id)
  BY <1>4 DEF WantOf
<1>6. ASSUME NEW i \in 1..Len(plan')
      PROVE  /\ plan'[i] = Announcement => i = Len(plan')
             /\ plan'[i].is = "ackRetired" /\ plan'[i].why = "removed" => i = Len(plan')
             /\ plan'[i].is = "ackRetired" /\ plan'[i].why = "orphan" => inventory[plan'[i].id] = None
             /\ plan'[i] \in Left \cup HidesOf({space}) => WantOf(plan', plan'[i].id) = None
             /\ plan'[i] \in Shows => ~In(plan', AckRetired(plan'[i].id, "removed"))
  <2>1. plan'[i] = plan[i + 1] /\ i + 1 \in 1..Len(plan)
    BY <1>2
  <2>2. /\ plan[i + 1] = Announcement => i + 1 = Len(plan)
        /\ plan[i + 1].is = "ackRetired" /\ plan[i + 1].why = "removed" => i + 1 = Len(plan)
        /\ plan[i + 1].is = "ackRetired" /\ plan[i + 1].why = "orphan"
              => inventory[plan[i + 1].id] = None
        /\ plan[i + 1] \in Left \cup HidesOf({space}) => WantOf(plan, plan[i + 1].id) = None
        /\ plan[i + 1] \in Shows => ~In(plan, AckRetired(plan[i + 1].id, "removed"))
    BY <2>1, Zenon DEF PlanOK
  <2>3. i + 1 = Len(plan) => i = Len(plan')
    <3>1. PICK n \in Nat : n = Len(plan)
      BY <1>2, Zenon
    <3>2. Len(plan') = n - 1 /\ i \in Int
      BY <1>2, <3>1
    <3> QED BY <3>1, <3>2
  <2>4. WantOf(plan', plan[i + 1].id) = WantOf(plan, plan[i + 1].id)
    BY <1>4 DEF WantOf
  <2> QED BY <1>4, <2>1, <2>2, <2>3, <2>4
<1>7. PlanOK(plan)'
  <2>1. space' = space /\ \A id : WantOf(plan', id) = WantOf(plan, id)'
    BY SMTT(60) DEF WantOf
  <2>2. /\ plan' \in Seq(Steps)
        /\ \A i \in 1..Len(plan') :
              /\ plan'[i] = Announcement => i = Len(plan')
              /\ plan'[i].is = "ackRetired" /\ plan'[i].why = "removed" => i = Len(plan')
              /\ plan'[i].is = "ackRetired" /\ plan'[i].why = "orphan"
                    => inventory'[plan'[i].id] = None
              /\ plan'[i] \in Left \cup HidesOf({space'})
                    => (IF In(plan', AckRetired(plan'[i].id, "removed")) THEN None
                                                        ELSE inventory'[plan'[i].id]) = None
              /\ plan'[i] \in Shows => ~In(plan', AckRetired(plan'[i].id, "removed"))
    BY <1>2, <1>6, <2>1, Zenon DEF WantOf
  <2> QED BY <2>2, Zenon DEF PlanOK, WantOf
<1> QED BY <1>5, <1>7 DEF Want

\* And it is cleared in its order.
LEMMA ClearedRest ==
    ASSUME PlanOK(plan), ClearedOK, plan # <<>>, plan' = Tail(plan), space' = space,
           \A i \in 1..Len(plan) : plan[i].is = "ackRetired"
               /\ (retained[space][plan[i].id] = None \/ Head(plan) = Hide(space, plan[i].id))
               => retained'[space][plan[i].id] = None
    PROVE  ClearedOK'
<1>1. plan \in Seq(Steps)
  BY DEF PlanOK
<1>2. /\ plan' \in Seq(Steps) /\ Len(plan') = Len(plan) - 1 /\ Len(plan) \in Nat
      /\ plan[1] = Head(plan)
      /\ \A i \in 1..Len(plan') : plan'[i] = plan[i + 1] /\ i + 1 \in 1..Len(plan)
  BY <1>1, RestIs
<1>3. ASSUME NEW i \in 1..Len(plan'), plan'[i].is = "ackRetired"
      PROVE  \/ retained'[space][plan'[i].id] = None
             \/ \E j \in 1..(i - 1) : plan'[j] = Hide(space, plan'[i].id)
  <2>1. plan'[i] = plan[i + 1] /\ i + 1 \in 1..Len(plan)
    BY <1>2
  <2>2. \/ retained[space][plan[i + 1].id] = None
        \/ \E j \in 1..((i + 1) - 1) : plan[j] = Hide(space, plan[i + 1].id)
    BY <1>3, <2>1 DEF ClearedOK
  <2>3. CASE retained[space][plan[i + 1].id] = None
    BY <1>3, <2>1, <2>3
  <2>4. CASE \E j \in 1..((i + 1) - 1) : plan[j] = Hide(space, plan[i + 1].id)
    <3>1. PICK j \in 1..((i + 1) - 1) : plan[j] = Hide(space, plan[i + 1].id)
      BY <2>4
    <3>2. CASE j = 1
      BY <1>2, <1>3, <2>1, <3>1, <3>2
    <3>3. CASE j # 1
      <4>1. j - 1 \in 1..(i - 1) /\ j - 1 \in 1..Len(plan') /\ (j - 1) + 1 = j
        BY <1>2, <3>3
      <4>2. plan'[j - 1] = plan[j]
        BY <1>2, <4>1
      <4> QED BY <2>1, <3>1, <4>1, <4>2
    <3> QED BY <3>2, <3>3
  <2> QED BY <2>2, <2>3, <2>4
<1> QED BY <1>3 DEF ClearedOK

\* A table left alone is as it was.
LEMMA SameTable ==
    ASSUME Catalogue, Deferred,
           UNCHANGED <<registry, seeds, announced, pending, group, flash>>
    PROVE  Catalogue' /\ Deferred'
<1>1. Catalogue'
  BY DEF Catalogue, Live, Faithful
<1>2. Deferred'
  BY DEF Deferred
<1> QED BY <1>1, <1>2

\* The first step of a plan.
LEMMA FirstIs ==
    ASSUME Typed, NEW op, Step(op)
    PROVE  /\ up /\ plan # <<>> /\ plan' = Tail(plan) /\ Head(plan).is = op
           /\ Head(plan) \in Steps /\ plan[1] = Head(plan) /\ 1 \in 1..Len(plan)
           /\ Len(plan) \in Nat /\ PlanOK(plan)
           /\ \A x : In(plan, x) <=> x = Head(plan) \/ In(plan', x)
<1>1. plan \in Seq(Steps) /\ PlanOK(plan)
  BY DEF Typed, PlanOK
<1>2. up /\ plan # <<>> /\ plan' = Tail(plan) /\ Head(plan).is = op
  BY DEF Step
<1> QED BY <1>1, <1>2, RestIs

\* Every answer is about a slot.
LEMMA AnswersAre ==
    ASSUME NEW q \in Seq(Answers)
    PROVE  \A i \in 1..Len(q) : q[i] \in Answers /\ q[i].id \in Ids
<1>1. ASSUME NEW i \in 1..Len(q) PROVE q[i] \in Answers
  OBVIOUS
<1> QED BY <1>1 DEF Answers

\* A discovery config goes out: its shade is on the broker, and the steps behind
\* it have nothing more to show of it.
LEMMA ShowKeeps ==
    ASSUME BrokerInv, DoShow
    PROVE  BrokerInv'
<1> DEFINE h == Head(plan)
           id == h.id
<1>0. Typed /\ Step("show")
  BY DEF BrokerInv, DoShow
<1>1. /\ up /\ plan # <<>> /\ plan' = Tail(plan) /\ h.is = "show"
      /\ h \in Steps /\ plan[1] = h /\ 1 \in 1..Len(plan) /\ PlanOK(plan)
      /\ \A x : In(plan, x) <=> x = h \/ In(plan', x)
  BY <1>0, FirstIs
<1>2. h \in Shows /\ id \in Ids /\ h = Show(id)
  BY <1>1, StepIs
<1>3. /\ retained' = IF id \in Held THEN [retained EXCEPT ![space][id] = inventory[id]] ELSE retained
      /\ UNCHANGED <<registry, seeds, announced, pending, group, flash, events, acks, missed>>
      /\ UNCHANGED <<up, inventory, orphans, space, stale, count, shown, cutShort, unnamed>>
  BY DEF DoShow, tableVars
<1> HIDE DEF h, id
<1>4. Want(id) = inventory[id]
  <2>1. ~In(plan, AckRetired(plan[1].id, "removed"))
    BY <1>1, <1>2 DEF PlanOK
  <2> QED BY <1>1, <2>1 DEF Want, WantOf, id
<1>5. PlanOK(plan)' /\ \A x : Want(x)' = Want(x)
  BY <1>1, <1>3, PlanRest DEF h
<1>6. /\ inventory \in [Ids -> Units \cup {None}] /\ space \in Spaces
      /\ retained \in [Spaces -> [Ids -> Units \cup {None}]]
      /\ \A x \in Ids : x \in Held <=> inventory[x] # None
  BY <1>0 DEF Typed, Listed, Held
<1>7. /\ retained' \in [Spaces -> [Ids -> Units \cup {None}]]
      /\ \A n \in Spaces, x \in Ids :
            retained'[n][x] = IF n = space /\ x = id /\ inventory[id] # None
                              THEN inventory[id] ELSE retained[n][x]
  BY <1>2, <1>3, <1>6
<1>8. ASSUME NEW x, x.is # "show" PROVE In(plan, x) <=> In(plan', x)
  BY <1>1, <1>8
<1>9. ClearedOK'
  <2>1. ASSUME NEW i \in 1..Len(plan), plan[i].is = "ackRetired",
               retained[space][plan[i].id] = None \/ Head(plan) = Hide(space, plan[i].id)
        PROVE  retained'[space][plan[i].id] = None
    <3>1. plan[i] \in Left /\ plan[i].id \in Ids
      <4>1. plan[i] \in Steps
        BY <1>1 DEF PlanOK
      <4> QED BY <2>1, <4>1, StepIs
    <3>2. Want(plan[i].id) = None
      BY <1>1, <3>1 DEF PlanOK, Want
    <3>3. Hide(space, plan[i].id).is = "hide"
      BY MadeAre
    <3>4. retained[space][plan[i].id] = None
      BY <1>1, <2>1, <3>3 DEF h
    <3> QED BY <1>4, <1>6, <1>7, <3>1, <3>2, <3>4
  <2> QED BY <1>0, <1>1, <1>3, <2>1, ClearedRest DEF Typed
<1>10. Typed'
  BY <1>0, <1>1, <1>3, <1>5, <1>7, <1>9, SameTable DEF Typed, Listed
<1>11. OrphansOK'
  <2>1. \A x : AckRetired(x, "orphan").is # "show"
    BY MadeAre
  <2> QED BY <1>3, <1>8, <2>1 DEF OrphansOK, BrokerInv
<1>12. ShownOK'
  <2>1. Report.is # "show" /\ Announcement.is # "show"
    BY MadeAre
  <2> QED BY <1>3, <1>8, <2>1 DEF ShownOK, BrokerInv
<1>13. Belief'
  <2>1. \A k : Base(k)' = Base(k)
    BY <1>3, <1>5 DEF Base
  <2>2. \A k \in Keys : Fact(registry, k)' = Fact(registry, k)
    BY <1>3 DEF Fact, Awaiting, Entities, Live, Confirmed
  <2> QED BY <1>3, <2>1, <2>2 DEF Belief, BrokerInv
<1>14. HereOK'
  <2>1. ASSUME NEW x \in Ids
        PROVE  \/ <<space, x>> \in unnamed
               \/ retained'[space][x] = Want(x)
               \/ Want(x) # None /\ In(plan', Show(x))
               \/ Want(x) = None /\ In(plan', Hide(space, x))
    <3>1. \/ <<space, x>> \in unnamed
          \/ retained[space][x] = Want(x)
          \/ Want(x) # None /\ In(plan, Show(x))
          \/ Want(x) = None /\ In(plan, Hide(space, x))
      BY <1>1 DEF HereOK, BrokerInv
    <3>2. Hide(space, x).is # "show" /\ (x # id => Show(x) # h)
      BY <1>2, MadeAre
    <3>3. x = id => x = id /\ Want(x) = inventory[id]
      BY <1>4
    <3> QED BY <1>1, <1>6, <1>7, <1>8, <3>1, <3>2, <3>3
  <2> QED BY <1>3, <1>5, <2>1 DEF HereOK
<1>15. GoneOK'
  BY <1>3, <1>6, <1>7 DEF GoneOK, BrokerInv
<1>16. StaleOK'
  <2>1. \A n, x : Hide(n, x).is # "show"
    BY MadeAre
  <2>2. ASSUME NEW n \in Spaces \ {space}, NEW x \in Ids
        PROVE  \/ <<n, x>> \in unnamed
               \/ retained'[n][x] = None
               \/ n \in stale /\ inventory[x] # None /\ (up => In(plan', Hide(n, x)))
    <3>1. \/ <<n, x>> \in unnamed
          \/ retained[n][x] = None
          \/ n \in stale /\ inventory[x] # None /\ (up => In(plan, Hide(n, x)))
      BY DEF StaleOK, BrokerInv
    <3>2. retained'[n][x] = retained[n][x] /\ (In(plan, Hide(n, x)) <=> In(plan', Hide(n, x)))
      BY <1>7, <1>8, <2>1
    <3> QED BY <3>1, <3>2
  <2> QED BY <1>3, <2>2 DEF StaleOK
<1>17. AcksOK'
  <2>1. \A x : AckAnnounced(x).is # "show"
    BY MadeAre
  <2>2. \A i \in 1..Len(acks) : acks[i].id \in Ids
    BY <1>0, AnswersAre DEF Typed
  <2> QED BY <1>3, <1>6, <1>7, <1>8, <2>1, <2>2 DEF AcksOK, BrokerInv
<1> QED BY <1>10, <1>11, <1>12, <1>13, <1>14, <1>15, <1>16, <1>17 DEF BrokerInv

\* A tombstone goes out: its entity is gone, and the steps behind it show it only
\* if it is to be there.
LEMMA HideKeeps ==
    ASSUME BrokerInv, DoHide
    PROVE  BrokerInv'
<1> DEFINE h == Head(plan)
           at == h.space
           id == h.id
<1>0. Typed /\ Step("hide")
  BY DEF BrokerInv, DoHide
<1>1. /\ up /\ plan # <<>> /\ plan' = Tail(plan) /\ h.is = "hide"
      /\ h \in Steps /\ plan[1] = h /\ 1 \in 1..Len(plan) /\ PlanOK(plan)
      /\ \A x : In(plan, x) <=> x = h \/ In(plan', x)
  BY <1>0, FirstIs
<1>2. h \in Hides /\ id \in Ids /\ at \in Spaces /\ h = Hide(at, id)
  BY <1>1, StepIs
<1>3. /\ retained' = [retained EXCEPT ![at][id] = None]
      /\ UNCHANGED <<registry, seeds, announced, pending, group, flash, events, acks, missed>>
      /\ UNCHANGED <<up, inventory, orphans, space, stale, count, shown, cutShort, unnamed>>
  BY DEF DoHide, tableVars
<1> HIDE DEF h, at, id
<1>4. at = space => Want(id) = None
  <2>1. at = space => h \in HidesOf({space})
    BY <1>2 DEF Hide, HidesOf
  <2> QED BY <1>1, <2>1 DEF PlanOK, Want, id
<1>5. PlanOK(plan)' /\ \A x : Want(x)' = Want(x)
  BY <1>1, <1>3, PlanRest DEF h
<1>6. /\ inventory \in [Ids -> Units \cup {None}] /\ space \in Spaces
      /\ retained \in [Spaces -> [Ids -> Units \cup {None}]]
  BY <1>0 DEF Typed, Listed
<1>7. /\ retained' \in [Spaces -> [Ids -> Units \cup {None}]]
      /\ \A n \in Spaces, x \in Ids :
            retained'[n][x] = IF n = at /\ x = id THEN None ELSE retained[n][x]
  BY <1>2, <1>3, <1>6
<1>8. ASSUME NEW x, x.is # "hide" PROVE In(plan, x) <=> In(plan', x)
  BY <1>1, <1>8
<1>18. ASSUME NEW n \in Spaces, NEW x \in Ids, ~(n = at /\ x = id)
       PROVE  In(plan, Hide(n, x)) <=> In(plan', Hide(n, x))
  <2>1. Hide(n, x).space = n /\ Hide(n, x).id = x /\ h.space = at /\ h.id = id
    BY MadeAre DEF at, id
  <2> QED BY <1>1, <1>18, <2>1
<1>9. ClearedOK'
  <2>1. ASSUME NEW i \in 1..Len(plan), plan[i].is = "ackRetired",
               retained[space][plan[i].id] = None \/ Head(plan) = Hide(space, plan[i].id)
        PROVE  retained'[space][plan[i].id] = None
    <3>1. plan[i].id \in Ids
      <4>1. plan[i] \in Steps
        BY <1>1 DEF PlanOK
      <4> QED BY <2>1, <4>1, StepIs
    <3>2. Hide(space, plan[i].id).space = space /\ Hide(space, plan[i].id).id = plan[i].id
      BY DEF Hide
    <3>3. Head(plan) = Hide(space, plan[i].id) => at = space /\ id = plan[i].id
      BY <3>2 DEF h, at, id
    <3> QED BY <1>6, <1>7, <2>1, <3>1, <3>3
  <2> QED BY <1>0, <1>1, <1>3, <2>1, ClearedRest DEF Typed
<1>10. Typed'
  BY <1>0, <1>1, <1>3, <1>5, <1>7, <1>9, SameTable DEF Typed, Listed
<1>11. OrphansOK'
  <2>1. \A x : AckRetired(x, "orphan").is # "hide"
    BY MadeAre
  <2> QED BY <1>3, <1>8, <2>1 DEF OrphansOK, BrokerInv
<1>12. ShownOK'
  <2>1. Report.is # "hide" /\ Announcement.is # "hide"
    BY MadeAre
  <2> QED BY <1>3, <1>8, <2>1 DEF ShownOK, BrokerInv
<1>13. Belief'
  <2>1. \A k : Base(k)' = Base(k)
    BY <1>3, <1>5 DEF Base
  <2>2. \A k \in Keys : Fact(registry, k)' = Fact(registry, k)
    BY <1>3 DEF Fact, Awaiting, Entities, Live, Confirmed
  <2> QED BY <1>3, <2>1, <2>2 DEF Belief, BrokerInv
<1>14. HereOK'
  <2>1. ASSUME NEW x \in Ids
        PROVE  \/ <<space, x>> \in unnamed
               \/ retained'[space][x] = Want(x)
               \/ Want(x) # None /\ In(plan', Show(x))
               \/ Want(x) = None /\ In(plan', Hide(space, x))
    <3>1. \/ <<space, x>> \in unnamed
          \/ retained[space][x] = Want(x)
          \/ Want(x) # None /\ In(plan, Show(x))
          \/ Want(x) = None /\ In(plan, Hide(space, x))
      BY <1>1 DEF HereOK, BrokerInv
    <3>2. In(plan, Show(x)) <=> In(plan', Show(x))
      BY <1>8, MadeAre
    <3>3. CASE space = at /\ x = id
      BY <1>4, <1>6, <1>7, <3>3
    <3>4. CASE ~(space = at /\ x = id)
      BY <1>6, <1>7, <1>18, <3>1, <3>2, <3>4
    <3> QED BY <3>3, <3>4
  <2> QED BY <1>3, <1>5, <2>1 DEF HereOK
<1>15. GoneOK'
  BY <1>3, <1>6, <1>7 DEF GoneOK, BrokerInv
<1>16. StaleOK'
  <2>2. ASSUME NEW n \in Spaces \ {space}, NEW x \in Ids
        PROVE  \/ <<n, x>> \in unnamed
               \/ retained'[n][x] = None
               \/ n \in stale /\ inventory[x] # None /\ (up => In(plan', Hide(n, x)))
    <3>1. \/ <<n, x>> \in unnamed
          \/ retained[n][x] = None
          \/ n \in stale /\ inventory[x] # None /\ (up => In(plan, Hide(n, x)))
      BY DEF StaleOK, BrokerInv
    <3> QED BY <1>7, <1>18, <3>1
  <2> QED BY <1>3, <2>2 DEF StaleOK
<1>17. AcksOK'
  <2>1. \A x : AckAnnounced(x).is # "hide"
    BY MadeAre
  <2>2. \A i \in 1..Len(acks) : acks[i].id \in Ids
    BY <1>0, AnswersAre DEF Typed
  <2> QED BY <1>3, <1>6, <1>7, <1>8, <2>1, <2>2 DEF AcksOK, BrokerInv
<1> QED BY <1>10, <1>11, <1>12, <1>13, <1>14, <1>15, <1>16, <1>17 DEF BrokerInv

\* The announcement and the report of the figure.
LEMMA FigureKeeps ==
    ASSUME BrokerInv, EndAnnouncement \/ DoReport
    PROVE  BrokerInv'
<1> DEFINE h == Head(plan)
<1>0. Typed /\ (Step("announcement") \/ Step("report"))
  BY DEF BrokerInv, EndAnnouncement, DoReport
<1>1. /\ up /\ plan # <<>> /\ plan' = Tail(plan) /\ h.is \in {"announcement", "report"}
      /\ h \in Steps /\ plan[1] = h /\ 1 \in 1..Len(plan) /\ PlanOK(plan) /\ Len(plan) \in Nat
      /\ \A x : In(plan, x) <=> x = h \/ In(plan', x)
  BY <1>0, FirstIs
<1>2. /\ shown' = count
      /\ UNCHANGED <<registry, seeds, announced, pending, group, flash, events, acks, missed>>
      /\ UNCHANGED <<up, inventory, orphans, space, count, retained, cutShort, unnamed>>
  BY DEF EndAnnouncement, DoReport, tableVars
<1>3. stale' = stale \/ (stale' = {} /\ \A x : ~In(plan', x))
  <2>1. CASE EndAnnouncement
    <3>1. stale' = {} /\ Step("announcement")
      BY <2>1 DEF EndAnnouncement
    <3>2. h.is = "announcement"
      BY <3>1 DEF Step
    <3>3. plan[1] = Announcement
      BY <1>1, <3>2, StepIs
    <3>4. Len(plan) = 1
      BY <1>1, <3>3 DEF PlanOK
    <3>5. Len(plan') = 0
      <4>1. plan \in Seq(Steps)
        BY <1>1 DEF PlanOK
      <4> QED BY <1>1, <3>4, <4>1
    <3> QED BY <3>1, <3>5 DEF In
  <2>2. CASE DoReport
    BY <2>2 DEF DoReport
  <2> QED BY <2>1, <2>2
<1> HIDE DEF h
<1>5. PlanOK(plan)' /\ \A x : Want(x)' = Want(x)
  BY <1>1, <1>2, PlanRest DEF h
<1>8. ASSUME NEW x, x.is \notin {"announcement", "report"} PROVE In(plan, x) <=> In(plan', x)
  BY <1>1, <1>8
<1>9. ClearedOK'
  <2>1. ASSUME NEW i \in 1..Len(plan), plan[i].is = "ackRetired",
               retained[space][plan[i].id] = None \/ Head(plan) = Hide(space, plan[i].id)
        PROVE  retained'[space][plan[i].id] = None
    <3>1. Hide(space, plan[i].id).is = "hide"
      BY MadeAre
    <3> QED BY <1>1, <1>2, <2>1, <3>1 DEF h
  <2> QED BY <1>0, <1>1, <1>2, <2>1, ClearedRest DEF Typed
<1>10. Typed'
  <2>1. stale' \subseteq 1..(space - 1) /\ stale' \in SUBSET (Spaces \ {space})
    BY <1>0, <1>3 DEF Typed, Listed
  <2> QED BY <1>0, <1>1, <1>2, <1>5, <1>9, <2>1, SameTable DEF Typed, Listed
<1>11. OrphansOK'
  <2>1. \A x : AckRetired(x, "orphan").is \notin {"announcement", "report"}
    BY MadeAre
  <2> QED BY <1>2, <1>8, <2>1 DEF OrphansOK, BrokerInv
<1>12. ShownOK'
  BY <1>2 DEF ShownOK
<1>13. Belief'
  <2>1. \A k : Base(k)' = Base(k)
    BY <1>2, <1>5 DEF Base
  <2>2. \A k \in Keys : Fact(registry, k)' = Fact(registry, k)
    BY <1>2 DEF Fact, Awaiting, Entities, Live, Confirmed
  <2> QED BY <1>2, <2>1, <2>2 DEF Belief, BrokerInv
<1>14. HereOK'
  <2>1. ASSUME NEW x \in Ids
        PROVE  \/ <<space, x>> \in unnamed
               \/ retained[space][x] = Want(x)
               \/ Want(x) # None /\ In(plan', Show(x))
               \/ Want(x) = None /\ In(plan', Hide(space, x))
    <3>1. Show(x).is \notin {"announcement", "report"}
          /\ Hide(space, x).is \notin {"announcement", "report"}
      BY MadeAre
    <3> QED BY <1>1, <1>8, <3>1 DEF HereOK, BrokerInv
  <2> QED BY <1>2, <1>5, <2>1 DEF HereOK
<1>15. GoneOK'
  BY <1>2 DEF GoneOK, BrokerInv
<1>16. StaleOK'
  <2>2. ASSUME NEW n \in Spaces \ {space}, NEW x \in Ids
        PROVE  \/ <<n, x>> \in unnamed
               \/ retained[n][x] = None
               \/ n \in stale' /\ inventory[x] # None /\ (up => In(plan', Hide(n, x)))
    <3>1. \/ <<n, x>> \in unnamed
          \/ retained[n][x] = None
          \/ n \in stale /\ inventory[x] # None /\ (up => In(plan, Hide(n, x)))
      BY DEF StaleOK, BrokerInv
    <3>2. In(plan, Hide(n, x)) <=> In(plan', Hide(n, x))
      <4>1. Hide(n, x).is \notin {"announcement", "report"}
        BY MadeAre
      <4> QED BY <1>8, <4>1
    <3> QED BY <1>1, <1>3, <3>1, <3>2
  <2> QED BY <1>2, <2>2 DEF StaleOK
<1>17. AcksOK'
  <2>1. \A x : AckAnnounced(x).is \notin {"announcement", "report"}
    BY MadeAre
  <2> QED BY <1>2, <1>8, <2>1 DEF AcksOK, BrokerInv
<1> QED BY <1>10, <1>11, <1>12, <1>13, <1>14, <1>15, <1>16, <1>17 DEF BrokerInv

\* One more answer waits.
LEMMA AnswerMore ==
    ASSUME Typed, AckRoom, NEW ack \in Answers, acks' = Append(acks, ack)
    PROVE  /\ acks' \in Seq(Answers) /\ Len(acks') <= ACKS
           /\ Len(acks') = Len(acks) + 1 /\ Len(acks) \in Nat
           /\ \A i \in 1..Len(acks) : acks'[i] = acks[i] /\ i \in 1..Len(acks')
           /\ acks'[Len(acks) + 1] = ack
<1>1. acks \in Seq(Answers) /\ Len(acks) < ACKS /\ ACKS \in Nat
  BY BrokerAssumption DEF Typed, AckRoom
<1>2. /\ acks' \in Seq(Answers) /\ Len(acks') = Len(acks) + 1 /\ Len(acks) \in Nat
      /\ \A i \in 1..Len(acks) : acks'[i] = acks[i]
      /\ acks'[Len(acks) + 1] = ack
  BY <1>1, MoreIs
<1>3. Len(acks') <= ACKS /\ \A i \in 1..Len(acks) : i \in 1..Len(acks')
  <2>1. PICK n \in Nat : n = Len(acks)
    BY <1>2
  <2>2. Len(acks') = n + 1 /\ n < ACKS
    BY <1>1, <1>2, <2>1
  <2> QED BY <1>1, <2>1, <2>2
<1> QED BY <1>2, <1>3

\* An announcement is acknowledged: the acknowledgement is of the shade that the
\* inventory holds and the broker has.
LEMMA AckAnnouncedKeeps ==
    ASSUME BrokerInv, DoAckAnnounced
    PROVE  BrokerInv'
<1> DEFINE h == Head(plan)
           id == h.id
           ack == Announced(id)
<1>0. Typed /\ Step("ackAnnounced") /\ AckRoom
  BY DEF BrokerInv, DoAckAnnounced, DoAck
<1>1. /\ up /\ plan # <<>> /\ plan' = Tail(plan) /\ h.is = "ackAnnounced"
      /\ h \in Steps /\ plan[1] = h /\ 1 \in 1..Len(plan) /\ PlanOK(plan)
      /\ \A x : In(plan, x) <=> x = h \/ In(plan', x)
  BY <1>0, FirstIs
<1>2. id \in Ids /\ h = AckAnnounced(id)
  BY <1>1, StepIs
<1>3. /\ acks' = Append(acks, ack)
      /\ UNCHANGED <<registry, seeds, announced, pending, group, flash, events, missed>>
      /\ UNCHANGED <<up, inventory, orphans, space, stale, count, retained, shown, cutShort,
                     unnamed>>
  BY DEF DoAckAnnounced, DoAck
<1>4. /\ acks' \in Seq(Answers) /\ Len(acks') <= ACKS
      /\ Len(acks') = Len(acks) + 1 /\ Len(acks) \in Nat
      /\ \A i \in 1..Len(acks) : acks'[i] = acks[i] /\ i \in 1..Len(acks')
      /\ acks'[Len(acks) + 1] = ack
  <2>1. ack \in Answers
    BY <1>2 DEF Announced, Answers
  <2> HIDE DEF ack
  <2> QED BY <1>0, <1>3, <2>1, AnswerMore
<1>19. ack.is = "announced"
  BY DEF Announced
<1> HIDE DEF h, id
<1>5. PlanOK(plan)' /\ \A x : Want(x)' = Want(x)
  BY <1>1, <1>3, PlanRest DEF h
<1>8. ASSUME NEW x, x.is # "ackAnnounced" PROVE In(plan, x) <=> In(plan', x)
  BY <1>1, <1>8
<1>9. ClearedOK'
  <2>1. ASSUME NEW i \in 1..Len(plan), plan[i].is = "ackRetired",
               retained[space][plan[i].id] = None \/ Head(plan) = Hide(space, plan[i].id)
        PROVE  retained'[space][plan[i].id] = None
    <3>1. Hide(space, plan[i].id).is = "hide"
      BY DEF Hide
    <3> QED BY <1>1, <1>3, <2>1, <3>1 DEF h
  <2> QED BY <1>0, <1>1, <1>3, <2>1, ClearedRest DEF Typed
<1>10. Typed'
  BY <1>0, <1>1, <1>3, <1>4, <1>5, <1>9, SameTable DEF Typed, Listed
<1>11. OrphansOK'
  <2>1. \A x : AckRetired(x, "orphan").is # "ackAnnounced"
    BY MadeAre
  <2> QED BY <1>3, <1>8, <2>1 DEF OrphansOK, BrokerInv
<1>12. ShownOK'
  <2>1. Report.is # "ackAnnounced" /\ Announcement.is # "ackAnnounced"
    BY MadeAre
  <2> QED BY <1>3, <1>8, <2>1 DEF ShownOK, BrokerInv
<1>13. Belief'
  <2>1. \A k : Base(k)' = Base(k)
    BY <1>3, <1>5 DEF Base
  <2>2. \A k \in Keys : Fact(registry, k)' = Fact(registry, k)
    BY <1>3 DEF Fact, Awaiting, Entities, Live, Confirmed
  <2> QED BY <1>3, <2>1, <2>2 DEF Belief, BrokerInv
<1>14. HereOK'
  <2>1. ASSUME NEW x \in Ids
        PROVE  \/ <<space, x>> \in unnamed
               \/ retained[space][x] = Want(x)
               \/ Want(x) # None /\ In(plan', Show(x))
               \/ Want(x) = None /\ In(plan', Hide(space, x))
    <3>1. Show(x).is # "ackAnnounced" /\ Hide(space, x).is # "ackAnnounced"
      BY MadeAre
    <3> QED BY <1>1, <1>8, <3>1 DEF HereOK, BrokerInv
  <2> QED BY <1>3, <1>5, <2>1 DEF HereOK
<1>15. GoneOK'
  BY <1>3 DEF GoneOK, BrokerInv
<1>16. StaleOK'
  <2>2. ASSUME NEW n \in Spaces \ {space}, NEW x \in Ids
        PROVE  \/ <<n, x>> \in unnamed
               \/ retained[n][x] = None
               \/ n \in stale /\ inventory[x] # None /\ (up => In(plan', Hide(n, x)))
    <3>2. In(plan, Hide(n, x)) <=> In(plan', Hide(n, x))
      <4>1. Hide(n, x).is # "ackAnnounced"
        BY MadeAre
      <4> QED BY <1>8, <4>1
    <3> QED BY <3>2 DEF StaleOK, BrokerInv
  <2> QED BY <1>3, <2>2 DEF StaleOK
<1> HIDE DEF ack
<1>17. AcksOK'
  <2>1. ASSUME ~cutShort, NEW i \in 1..Len(acks'), acks'[i].is = "retired"
        PROVE  \/ inventory[acks'[i].id] = None /\ retained[space][acks'[i].id] = None
               \/ In(plan', AckAnnounced(acks'[i].id))
               \/ \E j \in 1..Len(acks') : j > i /\ acks'[j] = Announced(acks'[i].id)
    <3>1. i \in 1..Len(acks)
      <4>1. i # Len(acks) + 1
        BY <1>4, <1>19, <2>1
      <4> QED BY <1>4, <4>1
    <3>2. acks'[i] = acks[i]
      BY <1>4, <3>1
    <3>3. \/ inventory[acks[i].id] = None /\ retained[space][acks[i].id] = None
          \/ In(plan, AckAnnounced(acks[i].id))
          \/ \E j \in 1..Len(acks) : j > i /\ acks[j] = Announced(acks[i].id)
      BY <2>1, <3>1, <3>2 DEF AcksOK, BrokerInv
    <3>4. CASE In(plan, AckAnnounced(acks[i].id))
      <4>1. CASE acks[i].id = id
        <5>1. Len(acks) + 1 \in 1..Len(acks') /\ Len(acks) + 1 > i
          BY <1>4, <3>1
        <5> QED BY <1>4, <3>2, <4>1, <5>1 DEF ack
      <4>2. CASE acks[i].id # id
        <5>1. AckAnnounced(acks[i].id) # h
          <6>1. AckAnnounced(acks[i].id).id = acks[i].id
            BY DEF AckAnnounced
          <6> QED BY <4>2, <6>1 DEF id
        <5> QED BY <1>1, <3>2, <3>4, <5>1
      <4> QED BY <4>1, <4>2
    <3>5. CASE \E j \in 1..Len(acks) : j > i /\ acks[j] = Announced(acks[i].id)
      BY <1>4, <3>2, <3>5
    <3> QED BY <3>2, <3>3, <3>4, <3>5
  <2> QED BY <1>3, <2>1 DEF AcksOK
<1> QED BY <1>10, <1>11, <1>12, <1>13, <1>14, <1>15, <1>16, <1>17 DEF BrokerInv

\* A retirement is acknowledged: no entity of the slot is left for the bit that
\* the acknowledgement will clear.
LEMMA AckRetiredKeeps ==
    ASSUME BrokerInv, DoAckRetired
    PROVE  BrokerInv'
<1> DEFINE h == Head(plan)
           id == h.id
           why == h.why
           ack == Retired(id)
<1>0. Typed /\ Step("ackRetired") /\ AckRoom
  BY DEF BrokerInv, DoAckRetired, DoAck
<1>1. /\ up /\ plan # <<>> /\ plan' = Tail(plan) /\ h.is = "ackRetired"
      /\ h \in Steps /\ plan[1] = h /\ 1 \in 1..Len(plan) /\ PlanOK(plan) /\ Len(plan) \in Nat
      /\ \A x : In(plan, x) <=> x = h \/ In(plan', x)
  BY <1>0, FirstIs
<1>2. h \in Left /\ id \in Ids /\ why \in {"removed", "orphan"} /\ h = AckRetired(id, why)
  BY <1>1, StepIs
<1>3. /\ acks' = Append(acks, ack) /\ orphans' = orphans \ {id}
      /\ inventory' = IF why = "removed" THEN [inventory EXCEPT ![id] = None] ELSE inventory
      /\ UNCHANGED <<registry, seeds, announced, pending, group, flash, events, missed>>
      /\ UNCHANGED <<up, space, stale, count, retained, shown, cutShort, unnamed>>
  BY DEF DoAckRetired, DoAck
<1>4. /\ acks' \in Seq(Answers) /\ Len(acks') <= ACKS
      /\ Len(acks') = Len(acks) + 1 /\ Len(acks) \in Nat
      /\ \A i \in 1..Len(acks) : acks'[i] = acks[i] /\ i \in 1..Len(acks')
      /\ acks'[Len(acks) + 1] = ack
  <2>1. ack \in Answers
    BY <1>2 DEF Retired, Answers
  <2> HIDE DEF ack
  <2> QED BY <1>0, <1>3, <2>1, AnswerMore
<1>19. ack.id = id
  BY DEF Retired
<1> HIDE DEF h, id, why, ack
<1>6. /\ inventory \in [Ids -> Units \cup {None}] /\ space \in Spaces
      /\ retained \in [Spaces -> [Ids -> Units \cup {None}]]
  BY <1>0 DEF Typed, Listed
<1>20. why = "removed" => inventory' = [inventory EXCEPT ![id] = None] /\ plan' = <<>> /\ Len(plan) = 1
  <2>1. why = "removed" => Len(plan) = 1
    BY <1>1 DEF PlanOK, why, h
  <2>2. plan \in Seq(Steps)
    BY <1>1 DEF PlanOK
  <2>3. Len(plan) = 1 => plan' = <<>>
    BY <1>1, <2>2
  <2> QED BY <1>3, <2>1, <2>3
<1>21. why = "orphan" => inventory' = inventory /\ inventory[id] = None
  BY <1>1, <1>3 DEF PlanOK, id, why
<1>22. /\ inventory' \in [Ids -> Units \cup {None}] /\ inventory'[id] = None
       /\ \A x \in Ids : x # id => inventory'[x] = inventory[x]
  BY <1>2, <1>6, <1>20, <1>21
<1>23. retained[space][id] = None
  <2>1. \/ retained[space][plan[1].id] = None
        \/ \E j \in 1..(1 - 1) : plan[j] = Hide(space, plan[1].id)
    BY <1>0, <1>1 DEF ClearedOK, Typed
  <2> QED BY <1>1, <2>1 DEF id
<1>5. PlanOK(plan)' /\ \A x \in Ids : Want(x)' = Want(x)
  <2>1. CASE why = "removed"
    <3>1. plan' = <<>> /\ Len(plan') = 0 /\ plan' \in Seq(Steps)
      BY <1>20, <2>1
    <3>2. PlanOK(plan)'
      BY <3>1 DEF PlanOK
    <3>3. \A x : ~In(plan', x)
      BY <3>1 DEF In
    <3>4. \A x : In(plan, x) <=> x = h
      BY <1>1, <3>3
    <3>5. ASSUME NEW x \in Ids PROVE Want(x)' = Want(x)
      <4>1. CASE x = id
        <5>1. In(plan, AckRetired(x, "removed"))
          BY <1>2, <2>1, <3>4, <4>1
        <5> QED BY <1>22, <3>3, <4>1, <5>1 DEF Want, WantOf
      <4>2. CASE x # id
        <5>1. AckRetired(x, "removed").id = x
          BY DEF AckRetired
        <5>2. ~In(plan, AckRetired(x, "removed"))
          BY <3>4, <4>2, <5>1 DEF id
        <5> QED BY <1>22, <3>3, <4>2, <5>2 DEF Want, WantOf
      <4> QED BY <4>1, <4>2
    <3> QED BY <3>2, <3>5
  <2>2. CASE why = "orphan"
    <3>1. inventory' = inventory /\ space' = space
      BY <1>3, <1>21, <2>2
    <3>2. ~(Head(plan).is = "ackRetired" /\ Head(plan).why = "removed")
      BY <2>2 DEF why, h
    <3> QED BY <1>1, <3>1, <3>2, PlanRest
  <2> QED BY <1>2, <2>1, <2>2
<1>8. ASSUME NEW x, x.is # "ackRetired" PROVE In(plan, x) <=> In(plan', x)
  BY <1>1, <1>8
<1>9. ClearedOK'
  <2>1. ASSUME NEW i \in 1..Len(plan), plan[i].is = "ackRetired",
               retained[space][plan[i].id] = None \/ Head(plan) = Hide(space, plan[i].id)
        PROVE  retained'[space][plan[i].id] = None
    <3>1. Hide(space, plan[i].id).is = "hide"
      BY DEF Hide
    <3> QED BY <1>1, <1>3, <2>1, <3>1 DEF h
  <2> QED BY <1>0, <1>1, <1>3, <2>1, ClearedRest DEF Typed
<1>10. Typed'
  <2>1. orphans' \in SUBSET Ids
    BY <1>0, <1>3 DEF Typed, Listed
  <2> QED BY <1>0, <1>1, <1>3, <1>4, <1>5, <1>9, <1>22, <2>1, SameTable DEF Typed, Listed
<1>11. OrphansOK'
  <2>1. ASSUME NEW x \in orphans'
        PROVE  inventory'[x] = None /\ (up => In(plan', AckRetired(x, "orphan")))
    <3>1. x \in Ids /\ x \in orphans /\ x # id
      BY <1>0, <1>3 DEF Typed, Listed
    <3>2. AckRetired(x, "orphan").id = x
      BY DEF AckRetired
    <3>3. AckRetired(x, "orphan") # h
      BY <3>1, <3>2 DEF id
    <3> QED BY <1>1, <1>22, <3>1, <3>3 DEF OrphansOK, BrokerInv
  <2> QED BY <1>3, <2>1 DEF OrphansOK
<1>12. ShownOK'
  <2>1. Report.is # "ackRetired" /\ Announcement.is # "ackRetired"
    BY MadeAre
  <2> QED BY <1>3, <1>8, <2>1 DEF ShownOK, BrokerInv
<1>13. Belief'
  <2>1. \A k \in Keys : Base(k)' = Base(k)
    BY <1>3, <1>5 DEF Base, Keys
  <2>2. \A k \in Keys : Fact(registry, k)' = Fact(registry, k)
    BY <1>3 DEF Fact, Awaiting, Entities, Live, Confirmed
  <2> QED BY <1>3, <2>1, <2>2 DEF Belief, BrokerInv
<1>14. HereOK'
  <2>1. ASSUME NEW x \in Ids
        PROVE  \/ <<space, x>> \in unnamed
               \/ retained[space][x] = Want(x)
               \/ Want(x) # None /\ In(plan', Show(x))
               \/ Want(x) = None /\ In(plan', Hide(space, x))
    <3>1. Show(x).is # "ackRetired" /\ Hide(space, x).is # "ackRetired"
      BY MadeAre
    <3> QED BY <1>1, <1>8, <3>1 DEF HereOK, BrokerInv
  <2> QED BY <1>3, <1>5, <2>1 DEF HereOK
<1>15. GoneOK'
  <2>1. ASSUME NEW x \in Ids, inventory'[x] = None
        PROVE  <<space, x>> \in unnamed \/ retained[space][x] = None \/ x \in orphans'
    BY <1>3, <1>22, <1>23, <2>1 DEF GoneOK, BrokerInv
  <2> QED BY <1>3, <2>1 DEF GoneOK
<1>16. StaleOK'
  <2>2. ASSUME NEW n \in Spaces \ {space}, NEW x \in Ids
        PROVE  \/ <<n, x>> \in unnamed
               \/ retained[n][x] = None
               \/ n \in stale /\ inventory'[x] # None /\ (up => In(plan', Hide(n, x)))
    <3>1. \/ <<n, x>> \in unnamed
          \/ retained[n][x] = None
          \/ n \in stale /\ inventory[x] # None /\ In(plan, Hide(n, x))
      BY <1>1 DEF StaleOK, BrokerInv
    <3>2. In(plan, Hide(n, x)) <=> In(plan', Hide(n, x))
      <4>1. Hide(n, x).is # "ackRetired"
        BY MadeAre
      <4> QED BY <1>8, <4>1
    <3>3. why = "removed" => ~In(plan', Hide(n, x))
      <4>1. why = "removed" => Len(plan') = 0
        BY <1>20
      <4> QED BY <4>1 DEF In
    <3> QED BY <1>2, <1>21, <3>1, <3>2, <3>3
  <2> QED BY <1>3, <2>2 DEF StaleOK
<1>17. AcksOK'
  <2>1. ASSUME ~cutShort, NEW i \in 1..Len(acks'), acks'[i].is = "retired"
        PROVE  \/ inventory'[acks'[i].id] = None /\ retained[space][acks'[i].id] = None
               \/ In(plan', AckAnnounced(acks'[i].id))
               \/ \E j \in 1..Len(acks') : j > i /\ acks'[j] = Announced(acks'[i].id)
    <3>1. CASE i = Len(acks) + 1
      BY <1>4, <1>19, <1>22, <1>23, <3>1
    <3>2. CASE i # Len(acks) + 1
      <4>1. i \in 1..Len(acks) /\ acks'[i] = acks[i]
        BY <1>4, <3>2
      <4>2. \/ inventory[acks[i].id] = None /\ retained[space][acks[i].id] = None
            \/ In(plan, AckAnnounced(acks[i].id))
            \/ \E j \in 1..Len(acks) : j > i /\ acks[j] = Announced(acks[i].id)
        BY <2>1, <4>1 DEF AcksOK, BrokerInv
      <4>3. In(plan, AckAnnounced(acks[i].id)) <=> In(plan', AckAnnounced(acks[i].id))
        BY <1>8, MadeAre
      <4>4. acks[i].id \in Ids
        BY <1>0, <4>1, AnswersAre DEF Typed
      <4>5. inventory[acks[i].id] = None => inventory'[acks[i].id] = None
        BY <1>22, <4>4
      <4> QED BY <1>4, <4>1, <4>2, <4>3, <4>5
    <3> QED BY <3>1, <3>2
  <2> QED BY <1>3, <2>1 DEF AcksOK
<1> QED BY <1>10, <1>11, <1>12, <1>13, <1>14, <1>15, <1>16, <1>17 DEF BrokerInv

\* Plans of one step and of two.
LEMMA ShortPlans ==
    ASSUME NEW S, NEW a \in S, NEW b \in S
    PROVE  /\ <<a>> \in Seq(S) /\ Len(<<a>>) = 1 /\ <<a>>[1] = a
           /\ \A x : In(<<a>>, x) <=> x = a
           /\ <<a, b>> \in Seq(S) /\ Len(<<a, b>>) = 2 /\ <<a, b>>[1] = a /\ <<a, b>>[2] = b
           /\ \A x : In(<<a, b>>, x) <=> x = a \/ x = b
<1>1. <<a>> \in Seq(S) /\ Len(<<a>>) = 1 /\ <<a>>[1] = a
  OBVIOUS
<1>2. <<a, b>> \in Seq(S) /\ Len(<<a, b>>) = 2 /\ <<a, b>>[1] = a /\ <<a, b>>[2] = b
  OBVIOUS
<1> DEFINE one == <<a>>
           two == <<a, b>>
<1>3. Len(one) = 1 /\ one[1] = a /\ Len(two) = 2 /\ two[1] = a /\ two[2] = b
  BY <1>1, <1>2
<1> HIDE DEF one, two
<1>4. \A x : In(one, x) <=> x = a
  BY <1>3 DEF In
<1>5. \A x : In(two, x) <=> x = a \/ x = b
  BY <1>3 DEF In
<1> QED BY <1>1, <1>2, <1>4, <1>5 DEF one, two

\* What an event is.
LEMMA EventIs ==
    ASSUME NEW e \in Events
    PROVE  /\ e.is \in {"added", "removed", "calibration", "awaiting"}
           /\ e.is = "added" => /\ e.id \in Ids /\ e.unit \in Units
                                /\ Subject(e) = e.id /\ Meaning(e) = e.unit
           /\ e.is = "removed" => e.id \in Ids /\ Subject(e) = e.id /\ Meaning(e) = None
           /\ e.is = "calibration" => Subject(e) = Neither
           /\ e.is = "awaiting" => e.count \in Nat /\ Subject(e) = Figure /\ Meaning(e) = e.count
BY DEF Events, Subject, Meaning

\* A session with nothing to say.
LEMMA QuietIs ==
    ASSUME BrokerInv, Quiet
    PROVE  /\ up /\ orphans = {} /\ shown = count
           /\ \A x : ~In(plan, x)
           /\ \A x : Want(x) = inventory[x]
           /\ \A x \in Ids : <<space, x>> \in unnamed \/ retained[space][x] = inventory[x]
           /\ \A n \in Spaces \ {space}, x \in Ids : <<n, x>> \in unnamed \/ retained[n][x] = None
<1>1. up /\ plan = <<>> /\ Len(<<>>) = 0
  BY DEF Quiet
<1>2. \A x : ~In(plan, x)
  BY <1>1 DEF In
<1>3. \A x : Want(x) = inventory[x]
  BY <1>2 DEF Want, WantOf
<1>4. orphans = {} /\ shown = count
  BY <1>1, <1>2 DEF BrokerInv, OrphansOK, ShownOK
<1>5. \A x \in Ids : <<space, x>> \in unnamed \/ retained[space][x] = inventory[x]
  BY <1>1, <1>2, <1>3 DEF BrokerInv, HereOK
<1>6. \A n \in Spaces \ {space}, x \in Ids : <<n, x>> \in unnamed \/ retained[n][x] = None
  BY <1>1, <1>2 DEF BrokerInv, StaleOK
<1> QED BY <1>1, <1>2, <1>3, <1>4, <1>5, <1>6

\* An event is believed.
LEMMA EventBelieved ==
    ASSUME BrokerInv, Quiet, events # <<>>, events' = Tail(events),
           UNCHANGED <<registry, missed, cutShort>>,
           count' = IF Subject(Head(events)) = Figure THEN Meaning(Head(events)) ELSE count,
           \A x \in Ids : Want(x)' = IF Subject(Head(events)) = x THEN Meaning(Head(events))
                                                               ELSE inventory[x]
    PROVE  Belief' /\ events' \in Seq(Events) /\ Len(events') <= EVENTS
<1> DEFINE e == Head(events)
<1>1. events \in Seq(Events) /\ Len(events) <= EVENTS /\ EVENTS \in Nat
  BY TableAssumption DEF BrokerInv, Typed
<1>2. /\ events' \in Seq(Events) /\ Len(events') = Len(events) - 1 /\ Len(events) \in Nat
  BY <1>1, RestIs
<1>3. Len(events') <= EVENTS
  BY <1>1, <1>2
<1> HIDE DEF e
<1>4. ASSUME NEW k \in Keys
      PROVE  Base(k)' = IF Subject(e) = k THEN Meaning(e) ELSE Base(k)
  <2>1. CASE k = Figure
    BY <2>1 DEF Base, e
  <2>2. CASE k # Figure
    <3>1. k \in Ids
      BY <2>2 DEF Keys
    <3>2. Base(k)' = Want(k)' /\ Base(k) = Want(k)
      BY <2>2 DEF Base
    <3> QED BY <3>1, <3>2, QuietIs DEF e
  <2> QED BY <2>1, <2>2
<1>5. ASSUME ~missed, ~cutShort, NEW k \in Keys
      PROVE  Told(events', k, Base(k)', Fact(registry, k))
  <2>1. Told(events, k, Base(k), Fact(registry, k))
    BY <1>5 DEF BrokerInv, Belief
  <2>2. Told(Tail(events), k, IF Subject(e) = k THEN Meaning(e) ELSE Base(k), Fact(registry, k))
    BY <1>1, <2>1, ToldFirst DEF e
  <2> QED BY <1>4, <2>2
<1>6. \A k \in Keys : Fact(registry, k)' = Fact(registry, k)
  BY DEF Fact, Awaiting, Entities, Live, Confirmed
<1>7. Belief'
  BY <1>5, <1>6 DEF Belief
<1> QED BY <1>2, <1>3, <1>7

\* The session takes an event: what the event was to say, the plan now does.
LEMMA EventKeeps ==
    ASSUME BrokerInv, TakeEvent
    PROVE  BrokerInv'
<1> DEFINE e == Head(events)
           id == e.id
<1>0. /\ Typed /\ Quiet /\ events # <<>> /\ events' = Tail(events)
      /\ UNCHANGED <<registry, seeds, announced, pending, group, flash, acks, missed>>
      /\ UNCHANGED <<up, orphans, space, stale, retained, shown, cutShort, unnamed>>
      /\ inventory' = IF e.is = "added" THEN [inventory EXCEPT ![id] = e.unit] ELSE inventory
      /\ count' = IF e.is = "awaiting" THEN e.count ELSE count
      /\ plan' = CASE e.is = "added" -> AnnounceOne(id)
                   [] e.is = "removed" -> Retire(id, "removed")
                   [] e.is = "awaiting" -> <<Report>>
                   [] e.is = "calibration" -> <<>>
  BY DEF BrokerInv, TakeEvent
<1>1. e \in Events
  BY <1>0, RestIs DEF Typed
<1>2. /\ up /\ orphans = {} /\ shown = count
      /\ \A x : ~In(plan, x)
      /\ \A x : Want(x) = inventory[x]
      /\ \A x \in Ids : <<space, x>> \in unnamed \/ retained[space][x] = inventory[x]
      /\ \A n \in Spaces \ {space}, x \in Ids : <<n, x>> \in unnamed \/ retained[n][x] = None
  BY <1>0, QuietIs
<1>3. /\ inventory \in [Ids -> Units \cup {None}] /\ space \in Spaces
      /\ \A x \in Units : x # None
  BY <1>0, NoneIsNone DEF Typed, Listed
<1>4. \A i \in 1..Len(acks) : acks[i].id \in Ids
  BY <1>0, AnswersAre DEF Typed
<1>5. /\ e.is \in {"added", "removed", "calibration", "awaiting"}
      /\ e.is = "added" => e.id \in Ids /\ e.unit \in Units /\ Subject(e) = e.id /\ Meaning(e) = e.unit
      /\ e.is = "removed" => e.id \in Ids /\ Subject(e) = e.id /\ Meaning(e) = None
      /\ e.is = "calibration" => Subject(e) = Neither
      /\ e.is = "awaiting" => e.count \in Nat /\ Subject(e) = Figure /\ Meaning(e) = e.count
  BY <1>1, EventIs
<1>6. \A x \in Ids : x # Figure /\ x # Neither
  BY FewIds DEF Figure, Neither
<1> DEFINE Believing == /\ count' = IF Subject(e) = Figure THEN Meaning(e) ELSE count
                        /\ \A x \in Ids : Want(x)' = IF Subject(e) = x THEN Meaning(e)
                                                                       ELSE inventory[x]
           Planned == /\ inventory' \in [Ids -> Units \cup {None}]
                      /\ PlanOK(plan)' /\ ClearedOK'
                      /\ shown' = count' \/ In(plan', Report)
           Here == \A x \in Ids :
                      \/ inventory'[x] = inventory[x] /\ Want(x)' = inventory[x]
                      \/ Want(x)' # None /\ inventory'[x] # None
                         /\ In(plan', Show(x)) /\ In(plan', AckAnnounced(x))
                      \/ inventory'[x] = inventory[x] /\ Want(x)' = None /\ In(plan', Hide(space, x))
<1>7. ASSUME Believing, Planned, Here PROVE BrokerInv'
  <2>1. Belief' /\ events' \in Seq(Events) /\ Len(events') <= EVENTS
    <3>1. UNCHANGED <<registry, missed, cutShort>>
      BY <1>0
    <3> QED BY <1>0, <1>7, <3>1, EventBelieved
  <2>2. Typed'
    BY <1>0, <1>2, <1>7, <2>1, SameTable DEF Typed, Listed
  <2>3. OrphansOK' /\ ShownOK'
    BY <1>0, <1>2, <1>7 DEF OrphansOK, ShownOK
  <2>4. HereOK'
    <3>1. ASSUME NEW x \in Ids
          PROVE  \/ <<space, x>> \in unnamed
                 \/ retained[space][x] = Want(x)'
                 \/ Want(x)' # None /\ In(plan', Show(x))
                 \/ Want(x)' = None /\ In(plan', Hide(space, x))
      BY <1>2, <1>7
    <3> QED BY <1>0, <3>1 DEF HereOK
  <2>5. GoneOK'
    <3>1. ASSUME NEW x \in Ids, inventory'[x] = None
          PROVE  <<space, x>> \in unnamed \/ retained[space][x] = None
      BY <1>2, <1>7, <3>1
    <3> QED BY <1>0, <3>1 DEF GoneOK
  <2>6. StaleOK'
    BY <1>0, <1>2 DEF StaleOK
  <2>7. AcksOK'
    <3>1. ASSUME ~cutShort, NEW i \in 1..Len(acks), acks[i].is = "retired"
          PROVE  \/ inventory'[acks[i].id] = None /\ retained[space][acks[i].id] = None
                 \/ In(plan', AckAnnounced(acks[i].id))
                 \/ \E j \in 1..Len(acks) : j > i /\ acks[j] = Announced(acks[i].id)
      <4>1. \/ inventory[acks[i].id] = None /\ retained[space][acks[i].id] = None
            \/ \E j \in 1..Len(acks) : j > i /\ acks[j] = Announced(acks[i].id)
        BY <1>2, <3>1 DEF AcksOK, BrokerInv
      <4> QED BY <1>4, <1>7, <4>1
    <3> QED BY <1>0, <3>1 DEF AcksOK
  <2> QED BY <2>1, <2>2, <2>3, <2>4, <2>5, <2>6, <2>7 DEF BrokerInv
<1> HIDE DEF e, id
<1>8. ASSUME e.is = "added" PROVE BrokerInv'
  <2>0. PICK n \in Ids : n = id
    BY <1>5, <1>8 DEF id
  <2> DEFINE first == Show(n)
             last == AckAnnounced(n)
  <2>1. /\ plan' = <<first, last>> /\ inventory' = [inventory EXCEPT ![n] = e.unit]
        /\ count' = count /\ e.unit \in Units
        /\ Subject(e) = n /\ Meaning(e) = e.unit
    BY <1>0, <1>5, <1>8, <2>0 DEF AnnounceOne, id
  <2>2. /\ first \in Steps /\ last \in Steps /\ first.is = "show" /\ last.is = "ackAnnounced"
        /\ first \notin Left \cup HidesOf({space'}) /\ last \notin Left \cup HidesOf({space'})
        /\ first # Announcement /\ last # Announcement /\ last \notin Shows
    BY <2>1, MadeAre DEF Steps, Left, HidesOf, Shows
  <2> HIDE DEF first, last
  <2>3. /\ plan' \in Seq(Steps) /\ Len(plan') = 2 /\ plan'[1] = first /\ plan'[2] = last
        /\ \A x : In(plan', x) <=> x = first \/ x = last
    <3>1. /\ <<first, last>> \in Seq(Steps) /\ Len(<<first, last>>) = 2
          /\ <<first, last>>[1] = first /\ <<first, last>>[2] = last
          /\ \A x : In(<<first, last>>, x) <=> x = first \/ x = last
      <4>1. first \in Steps /\ last \in Steps
        BY <2>2
      <4> QED BY <4>1, ShortPlans, Zenon
    <3>2. plan' = <<first, last>>
      BY <2>1
    <3> QED BY <3>1, <3>2, Zenon
  <2>4. \A i \in 1..Len(plan') : plan'[i] = first \/ plan'[i] = last
    BY <2>3
  <2>5. \A x : ~In(plan', AckRetired(x, "removed"))
    <3>1. \A x : AckRetired(x, "removed").is = "ackRetired"
      BY DEF AckRetired
    <3> QED BY <2>2, <2>3, <3>1
  <2>6. PlanOK(plan)'
    BY <2>2, <2>3, <2>4, <2>5 DEF PlanOK
  <2>7. ClearedOK'
    BY <2>2, <2>4 DEF ClearedOK
  <2>8. \A x : Want(x)' = inventory'[x]
    BY <2>5 DEF Want, WantOf
  <2>9. Planned
    BY <1>0, <1>2, <1>3, <2>1, <2>6, <2>7
  <2>10. Believing
    BY <1>3, <1>6, <2>1, <2>8
  <2>11. Here
    <3>1. In(plan', Show(n)) /\ In(plan', AckAnnounced(n)) /\ inventory'[n] # None
      BY <1>3, <2>1, <2>3 DEF first, last
    <3>2. \A x \in Ids : x # n => inventory'[x] = inventory[x]
      BY <1>3, <2>1
    <3> QED BY <2>8, <3>1, <3>2
  <2> QED BY <1>7, <2>9, <2>10, <2>11
<1>9. ASSUME e.is = "removed" PROVE BrokerInv'
  <2>0. PICK n \in Ids : n = id
    BY <1>5, <1>9 DEF id
  <2> DEFINE first == Hide(space, n)
             last == AckRetired(n, "removed")
  <2>1. /\ plan' = <<first, last>> /\ inventory' = inventory
        /\ count' = count /\ space' = space /\ Subject(e) = n /\ Meaning(e) = None
    BY <1>0, <1>5, <1>9, <2>0 DEF Retire, id
  <2>2. /\ first \in Steps /\ last \in Steps /\ first.is = "hide" /\ last.is = "ackRetired"
        /\ first.id = n /\ last.id = n /\ last.why = "removed"
        /\ first \notin Left /\ first \notin Shows /\ last \notin Shows
        /\ first # Announcement /\ last # Announcement
    BY <1>3, <2>1, MadeAre DEF Steps, Left, Shows
  <2> HIDE DEF first, last
  <2>3. /\ plan' \in Seq(Steps) /\ Len(plan') = 2 /\ plan'[1] = first /\ plan'[2] = last
        /\ \A x : In(plan', x) <=> x = first \/ x = last
    <3>1. first \in Steps /\ last \in Steps /\ plan' = <<first, last>>
      BY <2>1, <2>2
    <3>2. /\ <<first, last>> \in Seq(Steps) /\ Len(<<first, last>>) = 2
          /\ <<first, last>>[1] = first /\ <<first, last>>[2] = last
          /\ \A x : In(<<first, last>>, x) <=> x = first \/ x = last
      BY <3>1, ShortPlans, Zenon
    <3> QED BY <3>1, <3>2, Zenon
  <2>4. \A i \in 1..Len(plan') : plan'[i] = first \/ (plan'[i] = last /\ i = 2)
    BY <2>3
  <2>5. In(plan', AckRetired(n, "removed"))
        /\ \A x : x # n => ~In(plan', AckRetired(x, "removed"))
    <3>1. \A x : AckRetired(x, "removed").id = x
      BY DEF AckRetired
    <3> QED BY <2>2, <2>3, <3>1 DEF last
  <2>6. PlanOK(plan)'
    BY <2>2, <2>3, <2>4, <2>5 DEF PlanOK, WantOf
  <2>7. ClearedOK'
    <3>1. plan'[1] = Hide(space', n) /\ 1 \in 1..(2 - 1)
      BY <2>1, <2>3 DEF first
    <3> QED BY <2>2, <2>4, <3>1 DEF ClearedOK
  <2>8. Want(n)' = None /\ \A x : x # n => Want(x)' = inventory'[x]
    BY <2>5 DEF Want, WantOf
  <2>9. Planned
    BY <1>0, <1>2, <1>3, <2>1, <2>6, <2>7
  <2>10. Believing
    BY <1>3, <1>6, <2>1, <2>8
  <2>11. Here
    <3>1. In(plan', Hide(space, n))
      BY <2>3 DEF first
    <3> QED BY <2>1, <2>8, <3>1
  <2> QED BY <1>7, <2>9, <2>10, <2>11
<1>10. ASSUME e.is \in {"awaiting", "calibration"} PROVE BrokerInv'
  <2>1. /\ plan' = IF e.is = "awaiting" THEN <<Report>> ELSE <<>>
        /\ inventory' = inventory
        /\ count' = IF e.is = "awaiting" THEN e.count ELSE count
    BY <1>0, <1>10
  <2>2. Report \in Steps /\ Report.is = "report" /\ Report \notin Left \cup HidesOf({space'})
        /\ Report # Announcement /\ Report \notin Shows
    BY DEF Report, Steps, Left, HidesOf, Shows, Announcement
  <2>3. /\ plan' \in Seq(Steps) /\ \A i \in 1..Len(plan') : plan'[i] = Report
        /\ e.is = "awaiting" => In(plan', Report)
    <3>1. CASE e.is = "awaiting"
      <4> HIDE DEF Report
      <4>1. /\ <<Report>> \in Seq(Steps) /\ Len(<<Report>>) = 1 /\ <<Report>>[1] = Report
            /\ \A x : In(<<Report>>, x) <=> x = Report
        BY <2>2, ShortPlans
      <4> QED BY <2>1, <3>1, <4>1
    <3>2. CASE e.is # "awaiting"
      <4>1. plan' = <<>> /\ Len(plan') = 0 /\ plan' \in Seq(Steps)
        BY <2>1, <3>2
      <4> QED BY <3>2, <4>1
    <3> QED BY <3>1, <3>2
  <2>5. \A x : ~In(plan', AckRetired(x, "removed"))
    <3>1. \A x : AckRetired(x, "removed").is = "ackRetired"
      BY DEF AckRetired
    <3> QED BY <2>2, <2>3, <3>1 DEF In
  <2>6. PlanOK(plan)'
    BY <2>2, <2>3, <2>5 DEF PlanOK
  <2>7. ClearedOK'
    BY <2>2, <2>3 DEF ClearedOK
  <2>8. \A x : Want(x)' = inventory'[x]
    BY <2>5 DEF Want, WantOf
  <2>9. Planned
    BY <1>0, <1>2, <1>3, <1>10, <2>1, <2>3, <2>6, <2>7
  <2>10. Believing
    BY <1>5, <1>6, <1>10, <2>1, <2>8 DEF Figure, Neither
  <2>11. Here
    BY <2>1, <2>8
  <2> QED BY <1>7, <2>9, <2>10, <2>11
<1> QED BY <1>5, <1>8, <1>9, <1>10

\* A connection plans to say everything again, so whatever was owed is in the plan.
LEMMA ConnectKeeps ==
    ASSUME BrokerInv, Connect
    PROVE  BrokerInv'
<1>0. /\ Typed /\ ~up /\ up' = TRUE /\ plan' = Resync
      /\ UNCHANGED <<registry, seeds, announced, pending, group, flash, events, acks, missed>>
      /\ UNCHANGED <<inventory, orphans, space, stale, count, retained, shown, cutShort, unnamed>>
  BY DEF BrokerInv, Connect, tableVars
<1>1. Listed /\ \A id \in orphans : inventory[id] = None
  BY <1>0 DEF BrokerInv, Typed, OrphansOK
<1>2. /\ Resyncing(Resync) /\ Cleared(Resync)
      /\ \A id \in Held : In(Resync, Show(id))
      /\ \A n \in stale, id \in Held : In(Resync, Hide(n, id))
      /\ \A id \in orphans : In(Resync, AckRetired(id, "orphan"))
      /\ In(Resync, Announcement)
  BY <1>1, ResyncIs
<1>3. plan = <<>> /\ Len(plan) = 0
  BY <1>0 DEF Typed
<1>4. \A x : Want(x) = inventory[x]
  BY <1>3 DEF Want, WantOf, In
<1> DEFINE p == Resync
<1> HIDE DEF p
<1>5. p \in Seq(Steps)
  <2>1. p \in Seq(Shows \cup Hides \cup Left \cup {Announcement})
    BY <1>2 DEF Resyncing, p
  <2>2. \A s \in Shows \cup Hides \cup Left \cup {Announcement} : s \in Steps
    BY DEF Steps
  <2> QED BY <2>1, <2>2
<1>6. ASSUME NEW i \in 1..Len(p)
      PROVE  /\ p[i] = Announcement => i = Len(p)
             /\ p[i].is = "ackRetired" => p[i].why = "orphan"
             /\ p[i].is = "ackRetired" => inventory[p[i].id] = None
             /\ p[i] \in Left \cup HidesOf({space}) => inventory[p[i].id] = None
  <2>1. /\ p[i] = Announcement => i = Len(p)
        /\ p[i] \in Left => p[i].why = "orphan"
        /\ p[i] \in Left \cup HidesOf({space}) => inventory[p[i].id] = None
    BY <1>2 DEF Resyncing, p
  <2>2. p[i] \in Steps
    BY <1>5
  <2>3. p[i].is = "ackRetired" => p[i] \in Left
    BY <2>2, StepIs
  <2> QED BY <2>1, <2>3
<1>7. \A x : ~In(p, AckRetired(x, "removed"))
  <2>1. ASSUME NEW x, NEW i \in 1..Len(p), p[i] = AckRetired(x, "removed") PROVE FALSE
    <3>1. AckRetired(x, "removed").is = "ackRetired" /\ AckRetired(x, "removed").why = "removed"
      BY DEF AckRetired
    <3> QED BY <1>6, <2>1, <3>1
  <2> QED BY <2>1 DEF In
<1>18. plan' = p
  BY <1>0 DEF p
<1>8. \A x : Want(x)' = Want(x)
  BY <1>0, <1>4, <1>7, <1>18 DEF Want, WantOf
<1>9. PlanOK(plan)'
  <2>1. inventory' = inventory /\ space' = space
    BY <1>0
  <2>2. \A x : ~In(plan', AckRetired(x, "removed"))
    BY <1>7, <1>18
  <2>3. /\ plan' \in Seq(Steps)
        /\ \A i \in 1..Len(plan') :
              /\ plan'[i] = Announcement => i = Len(plan')
              /\ plan'[i].is = "ackRetired" => plan'[i].why = "orphan"
              /\ plan'[i].is = "ackRetired" => inventory'[plan'[i].id] = None
              /\ plan'[i] \in Left \cup HidesOf({space'}) => inventory'[plan'[i].id] = None
    BY <1>5, <1>6, <1>18, <2>1
  <2> QED BY <2>2, <2>3 DEF PlanOK, WantOf
<1>10. ClearedOK'
  <2>1. \A i \in 1..Len(plan') : plan'[i].is = "ackRetired" =>
            \E j \in 1..(i - 1) : plan'[j] = Hide(space', plan'[i].id)
    BY <1>0, <1>2, <1>18 DEF Cleared, p
  <2> QED BY <2>1 DEF ClearedOK
<1>11. Typed'
  BY <1>0, <1>9, <1>10, SameTable DEF Typed, Listed
<1>12. OrphansOK' /\ ShownOK'
  BY <1>0, <1>1, <1>2 DEF OrphansOK, ShownOK
<1>13. Belief'
  <2>1. \A k : Base(k)' = Base(k)
    BY <1>0, <1>8 DEF Base
  <2>2. \A k \in Keys : Fact(registry, k)' = Fact(registry, k)
    BY <1>0 DEF Fact, Awaiting, Entities, Live, Confirmed
  <2> QED BY <1>0, <2>1, <2>2 DEF Belief, BrokerInv
<1>14. HereOK'
  <2>1. ASSUME NEW x \in Ids
        PROVE  \/ <<space, x>> \in unnamed
               \/ retained[space][x] = Want(x)
               \/ Want(x) # None /\ In(plan', Show(x))
               \/ Want(x) = None /\ In(plan', Hide(space, x))
    <3>1. CASE inventory[x] # None
      <4>1. x \in Held
        BY <3>1 DEF Held
      <4> QED BY <1>0, <1>2, <1>4, <3>1, <4>1
    <3>2. CASE inventory[x] = None
      <4>1. <<space, x>> \in unnamed \/ retained[space][x] = None \/ x \in orphans
        BY <3>2 DEF GoneOK, BrokerInv
      <4>2. ASSUME x \in orphans PROVE In(p, Hide(space, x))
        <5>1. PICK i \in 1..Len(p) : p[i] = AckRetired(x, "orphan")
          BY <1>2, <4>2 DEF In, p
        <5>2. p[i].is = "ackRetired" /\ p[i].id = x
          BY <5>1 DEF AckRetired
        <5>3. PICK j \in 1..(i - 1) : p[j] = Hide(space, x)
          BY <1>2, <5>2 DEF Cleared, p
        <5>4. j \in 1..Len(p)
          <6>1. Len(p) \in Nat
            BY <1>5
          <6> QED BY <6>1
        <5> QED BY <5>3, <5>4 DEF In
      <4> QED BY <1>4, <1>18, <3>2, <4>1, <4>2
    <3> QED BY <3>1, <3>2
  <2> QED BY <1>0, <1>8, <2>1 DEF HereOK
<1>15. GoneOK'
  BY <1>0 DEF GoneOK, BrokerInv
<1>16. StaleOK'
  <2>1. ASSUME NEW n \in Spaces \ {space}, NEW x \in Ids
        PROVE  \/ <<n, x>> \in unnamed
               \/ retained[n][x] = None
               \/ n \in stale /\ inventory[x] # None /\ In(plan', Hide(n, x))
    <3>1. \/ <<n, x>> \in unnamed
          \/ retained[n][x] = None
          \/ n \in stale /\ inventory[x] # None
      BY DEF StaleOK, BrokerInv
    <3> QED BY <1>0, <1>2, <3>1 DEF Held
  <2> QED BY <1>0, <2>1 DEF StaleOK
<1>17. AcksOK'
  <2>1. \A x : ~In(plan, x)
    BY <1>3 DEF In
  <2> QED BY <1>0, <2>1 DEF AcksOK, BrokerInv
<1> QED BY <1>11, <1>12, <1>13, <1>14, <1>15, <1>16, <1>17 DEF BrokerInv

\* A lost connection drops the plan: what it owed is owed by the next connection,
\* or the plan held a step of an event and was cut short.
LEMMA LoseKeeps ==
    ASSUME BrokerInv, Lose
    PROVE  BrokerInv'
<1>0. /\ Typed /\ up' = FALSE /\ plan' = <<>> /\ Len(<<>>) = 0
      /\ cutShort' = (cutShort \/ \E i \in DOMAIN plan : OfEvent(plan[i]))
      /\ UNCHANGED <<registry, seeds, announced, pending, group, flash, events, acks, missed>>
      /\ UNCHANGED <<inventory, orphans, space, stale, count, retained, shown, unnamed>>
  BY DEF BrokerInv, Lose
<1>1. plan \in Seq(Steps)
  BY <1>0 DEF Typed, PlanOK
<1>2. ASSUME ~cutShort'
      PROVE  /\ ~cutShort
             /\ \A x : ~In(plan, AckRetired(x, "removed")) /\ ~In(plan, AckAnnounced(x))
  <2>1. ~cutShort /\ ~\E i \in DOMAIN plan : OfEvent(plan[i])
    BY <1>0, <1>2, Zenon
  <2>2. \A i \in 1..Len(plan) : ~OfEvent(plan[i])
    BY <1>1, <2>1
  <2>3. ASSUME NEW x PROVE OfEvent(AckRetired(x, "removed")) /\ OfEvent(AckAnnounced(x))
    BY DEF OfEvent, AckRetired, AckAnnounced
  <2> QED BY <2>1, <2>2, <2>3 DEF In
<1>3. cutShort' \in BOOLEAN
  BY <1>0, Zenon
<1>4. PlanOK(plan)' /\ ClearedOK'
  <2>1. plan' \in Seq(Steps) /\ Len(plan') = 0
    BY <1>0
  <2> QED BY <2>1 DEF PlanOK, ClearedOK
<1>5. Typed'
  BY <1>0, <1>3, <1>4, SameTable DEF Typed, Listed
<1>6. OrphansOK' /\ ShownOK' /\ HereOK' /\ GoneOK' /\ StaleOK'
  BY <1>0 DEF BrokerInv, OrphansOK, ShownOK, HereOK, GoneOK, StaleOK
<1>7. Belief'
  <2>1. ~cutShort' => \A k : Base(k)' = Base(k)
    BY <1>0, <1>2 DEF Base, Want, WantOf, In
  <2>2. \A k \in Keys : Fact(registry, k)' = Fact(registry, k)
    BY <1>0 DEF Fact, Awaiting, Entities, Live, Confirmed
  <2> QED BY <1>0, <1>2, <2>1, <2>2 DEF Belief, BrokerInv
<1>8. AcksOK'
  BY <1>0, <1>2 DEF AcksOK, BrokerInv
<1> QED BY <1>5, <1>6, <1>7, <1>8 DEF BrokerInv

\* Whatever the state task does to the table, the events it sends make up for.
LEMMA TableKeeps ==
    ASSUME BrokerInv, TableTask, UNCHANGED sessionVars
    PROVE  BrokerInv'
<1>0. /\ Typed
      /\ UNCHANGED <<up, plan, inventory, orphans, space, stale, count, retained, shown, cutShort,
                     unnamed>>
  BY DEF BrokerInv, sessionVars
<1>1. Catalogue' /\ Deferred'
  BY <1>0, CatalogueTask, DeferredTask DEF Typed
<1>2. /\ events' \in Seq(Events) /\ Len(events') <= EVENTS /\ missed' \in BOOLEAN
      /\ ~missed' => ~missed /\ \A k \in Keys :
             \A base : Told(events, k, base, Fact(registry, k))
                          => Told(events', k, base, Fact(registry', k))
  BY <1>0, TellsTask
<1>3. acks \in Seq(Answers) /\ Len(acks) <= ACKS /\ ACKS \in Nat
  BY <1>0, BrokerAssumption DEF Typed
<1>4. acks' = acks \/ (acks # <<>> /\ acks' = Tail(acks))
  BY <1>0, AnswersTask
<1>5. acks' \in Seq(Answers) /\ Len(acks') <= ACKS
  <2>1. CASE acks # <<>> /\ acks' = Tail(acks)
    <3>1. acks' \in Seq(Answers) /\ Len(acks') = Len(acks) - 1 /\ Len(acks) \in Nat
      BY <1>3, <2>1, RestIs
    <3>2. Len(acks') <= ACKS
      BY <1>3, <3>1
    <3> QED BY <3>1, <3>2
  <2>2. CASE acks' = acks
    BY <1>3, <2>2
  <2> QED BY <1>4, <2>1, <2>2
<1>6. PlanOK(plan)' /\ ClearedOK'
  <2>1. PlanOK(plan) /\ ClearedOK
    BY <1>0 DEF Typed
  <2> QED BY <1>0, <2>1 DEF PlanOK, WantOf, ClearedOK
<1>7. Typed'
  BY <1>0, <1>1, <1>2, <1>5, <1>6 DEF Typed, Listed
<1>8. OrphansOK' /\ ShownOK' /\ GoneOK' /\ StaleOK'
  BY <1>0 DEF BrokerInv, OrphansOK, ShownOK, GoneOK, StaleOK
<1>9. \A x : Want(x)' = Want(x)
  BY <1>0 DEF Want, WantOf
<1>10. HereOK'
  BY <1>0, <1>9 DEF HereOK, BrokerInv
<1>11. Belief'
  <2>1. \A k : Base(k)' = Base(k)
    BY <1>0, <1>9 DEF Base
  <2>2. ASSUME ~missed', ~cutShort, NEW k \in Keys
        PROVE  Told(events', k, Base(k), Fact(registry', k))
    <3>1. Told(events, k, Base(k), Fact(registry, k))
      BY <1>2, <2>2 DEF Belief, BrokerInv
    <3> QED BY <1>2, <2>2, <3>1
  <2>3. \A k \in Keys : Fact(registry, k)' = Fact(registry', k)
    BY DEF Fact, Awaiting, Entities, Live, Confirmed
  <2> QED BY <1>0, <2>1, <2>2, <2>3 DEF Belief
<1>12. AcksOK'
  <2>1. CASE acks' = acks
    BY <1>0, <2>1 DEF AcksOK, BrokerInv
  <2>2. CASE acks # <<>> /\ acks' = Tail(acks)
    <3>1. /\ Len(acks') = Len(acks) - 1 /\ Len(acks) \in Nat
          /\ \A i \in 1..Len(acks') : acks'[i] = acks[i + 1] /\ i + 1 \in 1..Len(acks)
      BY <1>3, <2>2, RestIs
    <3>2. ASSUME ~cutShort, NEW i \in 1..Len(acks'), acks'[i].is = "retired"
          PROVE  \/ inventory[acks'[i].id] = None /\ retained[space][acks'[i].id] = None
                 \/ In(plan, AckAnnounced(acks'[i].id))
                 \/ \E j \in 1..Len(acks') : j > i /\ acks'[j] = Announced(acks'[i].id)
      <4>1. acks'[i] = acks[i + 1] /\ i + 1 \in 1..Len(acks)
        BY <3>1
      <4>2. \/ inventory[acks[i + 1].id] = None /\ retained[space][acks[i + 1].id] = None
            \/ In(plan, AckAnnounced(acks[i + 1].id))
            \/ \E j \in 1..Len(acks) : j > i + 1 /\ acks[j] = Announced(acks[i + 1].id)
        BY <3>2, <4>1 DEF AcksOK, BrokerInv
      <4>3. ASSUME NEW j \in 1..Len(acks), j > i + 1, acks[j] = Announced(acks[i + 1].id)
            PROVE  j - 1 \in 1..Len(acks') /\ j - 1 > i /\ acks'[j - 1] = Announced(acks'[i].id)
        <5>1. j - 1 \in 1..Len(acks') /\ j - 1 > i /\ (j - 1) + 1 = j
          BY <3>1, <4>3
        <5> QED BY <3>1, <4>1, <4>3, <5>1
      <4> QED BY <4>1, <4>2, <4>3
    <3> QED BY <1>0, <3>2 DEF AcksOK
  <2> QED BY <1>4, <2>1, <2>2
<1> QED BY <1>7, <1>8, <1>10, <1>11, <1>12 DEF BrokerInv

\* A boot knows what it reads.
LEMMA BootIs ==
    ASSUME Boot, Faithful(flash)
    PROVE  /\ Catalogue' /\ Deferred' /\ events' = <<>> /\ acks' = <<>> /\ missed' = FALSE
           /\ registry' = Registered(flash) /\ announced' = flash.announced
           /\ registry' \in Registries /\ announced' \in SUBSET Ids
<1>1. /\ registry' = Registered(flash) /\ seeds' = Catalogued(flash)
      /\ announced' = flash.announced /\ group' = Grouped(flash) /\ pending' = None
      /\ events' = <<>> /\ acks' = <<>> /\ missed' = FALSE /\ flash' = flash
  BY DEF Boot
<1>2. /\ registry' \in Registries /\ seeds' \in [Ids -> Nat \cup {None}]
      /\ \A id \in Live(registry') : seeds'[id] = SeedOf(registry'[id].unit)
      /\ announced' \in SUBSET Ids /\ group' \in SUBSET Live(registry')
  BY <1>1, ReadBack
<1>3. Faithful(flash)'
  BY <1>1 DEF Faithful
<1>4. Catalogue'
  BY <1>2, <1>3 DEF Catalogue, Live
<1>5. Deferred'
  BY <1>1 DEF Deferred
<1> QED BY <1>1, <1>2, <1>4, <1>5

\* After a restart the session begins with the shades of the record and the
\* orphans that its bits name; the entities no bit names are counted unnamed.
LEMMA RestartKeeps ==
    ASSUME BrokerInv, NEW s \in {space, space + 1} \cap Spaces, Restart(s)
    PROVE  BrokerInv'
<1>0. /\ Typed /\ Boot /\ up' = FALSE /\ plan' = <<>> /\ Len(<<>>) = 0
      /\ inventory' = Entities(registry') /\ orphans' = Orphans(registry', announced')
      /\ space' = s /\ stale' = 1..(s - 1) /\ count' = Awaiting(registry') /\ cutShort' = FALSE
      /\ unnamed' = unnamed \cup
             {entity \in (1..s) \X Ids :
                 LET n == entity[1]
                     id == entity[2]
                 IN /\ retained[n][id] # None
                    /\ IF n = s THEN ~Recorded(flash, id) ELSE inventory'[id] = None}
      /\ UNCHANGED <<retained, shown>>
  BY DEF BrokerInv, Restart
<1>1. /\ Catalogue' /\ Deferred' /\ events' = <<>> /\ acks' = <<>> /\ missed' = FALSE
      /\ registry' = Registered(flash) /\ announced' = flash.announced
      /\ registry' \in Registries /\ announced' \in SUBSET Ids
  BY <1>0, BootIs DEF Typed, Catalogue
<1>2. inventory' \in [Ids -> Units \cup {None}] /\ count' \in Nat
  BY <1>0, <1>1, FactIs
<1>3. orphans' \in SUBSET Ids /\ \A x \in orphans' : inventory'[x] = None
  <2>1. orphans' \in SUBSET Ids /\ \A x \in orphans' : x \notin Live(registry')
    BY <1>0, <1>1 DEF Orphans
  <2> QED BY <1>0, <2>1, EntityIs
<1>4. space \in Nat /\ s \in Nat /\ Spaces = 1..Namespaces /\ Namespaces \in Nat /\ s \in Spaces
      /\ (s = space \/ s = space + 1)
  BY <1>0, BrokerAssumption DEF Typed, Listed, Spaces
<1>5. stale' \in SUBSET (Spaces \ {s}) /\ stale' \subseteq 1..(s - 1)
      /\ \A n \in Spaces : n # s /\ n \notin stale' => n > space
  BY <1>0, <1>4
<1>6. ASSUME NEW n \in 1..s, NEW x \in Ids, retained[n][x] # None,
             IF n = s THEN ~Recorded(flash, x) ELSE inventory'[x] = None
      PROVE  <<n, x>> \in unnamed'
  BY <1>0, <1>6
<1>7. PlanOK(plan)' /\ ClearedOK'
  <2>1. plan' \in Seq(Steps) /\ Len(plan') = 0
    BY <1>0
  <2> QED BY <2>1 DEF PlanOK, ClearedOK
<1>8. events' \in Seq(Events) /\ Len(events') = 0 /\ acks' \in Seq(Answers) /\ Len(acks') = 0
      /\ EVENTS \in Nat /\ ACKS \in Nat
  BY <1>1, TableAssumption, BrokerAssumption
<1>20. Typed'
  <2>1. Listed' /\ (stale \subseteq 1..(space - 1))'
    BY <1>0, <1>2, <1>3, <1>4, <1>5 DEF Listed
  <2>2. Len(events') <= EVENTS /\ Len(acks') <= ACKS
    BY <1>8
  <2>3. up' \in BOOLEAN /\ missed' \in BOOLEAN /\ cutShort' \in BOOLEAN
    BY <1>0, <1>1
  <2>4. retained' \in [Spaces -> [Ids -> Units \cup {None}]]
    BY <1>0 DEF Typed
  <2>5. Catalogue' /\ Deferred' /\ events' \in Seq(Events) /\ acks' \in Seq(Answers)
        /\ plan' = <<>>
    BY <1>0, <1>1, <1>8
  <2> QED BY <1>7, <2>1, <2>2, <2>3, <2>4, <2>5, Zenon DEF Typed
<1>9. OrphansOK' /\ ShownOK' /\ HereOK' /\ AcksOK'
  BY <1>0, <1>3, <1>8 DEF OrphansOK, ShownOK, HereOK, AcksOK
<1>10. Belief'
  <2>1. ASSUME NEW k \in Keys PROVE Base(k)' = Fact(registry, k)'
    <3>1. \A x : Want(x)' = inventory'[x]
      BY <1>0 DEF Want, WantOf, In
    <3> QED BY <1>0, <3>1 DEF Base, Fact
  <2>2. \A k \in Keys : Told(events', k, Base(k)', Fact(registry, k)')
    BY <1>8, <2>1 DEF Told
  <2> QED BY <2>2 DEF Belief
<1>11. GoneOK'
  <2>1. ASSUME NEW x \in Ids, inventory'[x] = None, retained[s][x] # None, x \notin orphans'
        PROVE  <<s, x>> \in unnamed'
    <3>1. x \notin Confirmed(registry')
      <4>1. ASSUME x \in Confirmed(registry') PROVE FALSE
        <5>1. x \in Live(registry') /\ registry'[x].unit \in Units
          BY <1>1, <4>1, LiveIs DEF Confirmed
        <5>2. inventory'[x] = registry'[x].unit
          BY <1>0, <4>1 DEF Entities
        <5> QED BY <2>1, <5>1, <5>2, NoneIsNone
      <4> QED BY <4>1
    <3>2. ~Recorded(flash, x)
      BY <1>0, <1>1, <2>1, <3>1 DEF Recorded
    <3> QED BY <1>4, <1>6, <2>1, <3>2
  <2> QED BY <1>0, <2>1 DEF GoneOK
<1>12. StaleOK'
  <2>1. ASSUME NEW n \in Spaces \ {s}, NEW x \in Ids
        PROVE  \/ <<n, x>> \in unnamed'
               \/ retained[n][x] = None
               \/ n \in stale' /\ inventory'[x] # None
    <3>1. CASE n \in stale'
      <4>1. n \in 1..s
        BY <1>4, <1>5, <3>1
      <4> QED BY <1>6, <2>1, <3>1, <4>1
    <3>2. CASE n \notin stale'
      <4>1. n > space
        BY <1>5, <3>2
      <4>2. n \in Spaces \ {space} /\ n \notin stale
        BY <1>0, <1>4, <4>1 DEF Typed
      <4>3. <<n, x>> \in unnamed \/ retained[n][x] = None
        BY <4>2 DEF StaleOK, BrokerInv
      <4> QED BY <1>0, <4>3
    <3> QED BY <3>1, <3>2
  <2> QED BY <1>0, <2>1 DEF StaleOK
<1> QED BY <1>9, <1>10, <1>11, <1>12, <1>20 DEF BrokerInv

\* A device as it was provisioned, with nothing on the broker.
LEMMA BrokerStarts ==
    ASSUME BrokerInit
    PROVE  BrokerInv
<1>0. /\ flash = [rows |-> Rows, announced |-> 0..Len(Rows) - 1]
      /\ registry = Registered(flash) /\ seeds = Catalogued(flash)
      /\ announced = flash.announced /\ group = Grouped(flash) /\ pending = None
      /\ events = <<>> /\ acks = <<>> /\ missed = FALSE
      /\ up = FALSE /\ plan = <<>> /\ Len(<<>>) = 0
      /\ inventory = Entities(registry) /\ orphans = {} /\ space = 1 /\ stale = {}
      /\ count = Awaiting(registry)
      /\ retained = [s \in Spaces |-> [id \in Ids |-> IF s = 1 THEN inventory[id] ELSE None]]
      /\ shown = 0 /\ cutShort = FALSE /\ unnamed = {}
  BY DEF BrokerInit, TableInit
<1>1. Catalogue /\ registry \in Registries
  BY <1>0, RowsFaithful, ReadBack DEF Catalogue
<1>2. inventory \in [Ids -> Units \cup {None}] /\ count \in Nat
  BY <1>0, <1>1, FactIs
<1>3. 1 \in Spaces /\ Namespaces \in Nat /\ EVENTS \in Nat /\ ACKS \in Nat
  BY TableAssumption, BrokerAssumption DEF Spaces
<1>4. PlanOK(plan) /\ ClearedOK
  <2>1. plan \in Seq(Steps) /\ Len(plan) = 0
    BY <1>0
  <2> QED BY <2>1 DEF PlanOK, ClearedOK
<1>5. events \in Seq(Events) /\ Len(events) = 0 /\ acks \in Seq(Answers) /\ Len(acks) = 0
  BY <1>0
<1>6. retained \in [Spaces -> [Ids -> Units \cup {None}]]
  BY <1>0, <1>2
<1>7. Typed
  <2>1. Listed /\ stale \subseteq 1..(space - 1)
    BY <1>0, <1>2, <1>3 DEF Listed
  <2>2. Len(events) <= EVENTS /\ Len(acks) <= ACKS
    BY <1>3, <1>5
  <2>3. up \in BOOLEAN /\ missed \in BOOLEAN /\ cutShort \in BOOLEAN /\ plan = <<>>
    BY <1>0
  <2>4. Deferred
    BY <1>0 DEF Deferred
  <2> QED BY <1>1, <1>4, <1>5, <1>6, <2>1, <2>2, <2>3, <2>4, Zenon DEF Typed
<1>8. OrphansOK /\ ShownOK /\ HereOK /\ AcksOK /\ GoneOK /\ StaleOK
  BY <1>0, <1>2, <1>3, <1>5 DEF OrphansOK, ShownOK, HereOK, AcksOK, GoneOK, StaleOK
<1>9. Belief
  <2>1. ASSUME NEW k \in Keys PROVE Base(k) = Fact(registry, k)
    <3>1. \A x : Want(x) = inventory[x]
      BY <1>0 DEF Want, WantOf, In
    <3> QED BY <1>0, <3>1 DEF Base, Fact
  <2>2. \A k \in Keys : Told(events, k, Base(k), Fact(registry, k))
    BY <1>5, <2>1 DEF Told
  <2> QED BY <2>2 DEF Belief
<1> QED BY <1>7, <1>8, <1>9 DEF BrokerInv

-----------------------------------------------------------------------------
(* The session keeps its promises                                          *)

\* Every step of the table, the session and the device keeps the invariant.
LEMMA BrokerSteps ==
    ASSUME BrokerInv, [BrokerNext]_brokerVars
    PROVE  BrokerInv'
<1>1. CASE TableTask /\ UNCHANGED sessionVars
  BY <1>1, TableKeeps
<1>2. CASE Connect
  BY <1>2, ConnectKeeps
<1>3. CASE Lose
  BY <1>3, LoseKeeps
<1>4. CASE SessionStep
  BY <1>4, ShowKeeps, HideKeeps, AckAnnouncedKeeps, AckRetiredKeeps, FigureKeeps, Zenon
     DEF SessionStep
<1>5. CASE TakeEvent
  BY <1>5, EventKeeps
<1>6. ASSUME NEW s \in {space, space + 1} \cap Spaces, Restart(s) PROVE BrokerInv'
  BY <1>6, RestartKeeps
<1>7. CASE UNCHANGED brokerVars
  <2>1. UNCHANGED <<registry, seeds, announced, pending, group, flash, events, acks, missed,
                    up, plan, inventory, orphans, space, stale, count, retained, shown,
                    cutShort, unnamed>>
    BY <1>7 DEF brokerVars, tableVars, sessionVars
  <2>2. Typed'
    <3>1. Catalogue' /\ Deferred'
      BY <2>1, SameTable DEF BrokerInv, Typed
    <3>2. PlanOK(plan)' /\ ClearedOK'
      BY <2>1 DEF BrokerInv, Typed, PlanOK, WantOf, ClearedOK
    <3> QED BY <2>1, <3>1, <3>2 DEF BrokerInv, Typed, Listed
  <2>3. OrphansOK' /\ ShownOK' /\ GoneOK' /\ StaleOK' /\ AcksOK'
    BY <2>1 DEF BrokerInv, OrphansOK, ShownOK, GoneOK, StaleOK, AcksOK
  <2>4. \A x : Want(x)' = Want(x)
    BY <2>1 DEF Want, WantOf
  <2>5. HereOK'
    BY <2>1, <2>4 DEF BrokerInv, HereOK
  <2>6. Belief'
    <3>1. \A k : Base(k)' = Base(k)
      BY <2>1, <2>4 DEF Base
    <3>2. \A k \in Keys : Fact(registry, k)' = Fact(registry, k)
      BY <2>1 DEF Fact, Awaiting, Entities, Live, Confirmed
    <3> QED BY <2>1, <3>1, <3>2 DEF Belief, BrokerInv
  <2> QED BY <2>2, <2>3, <2>5, <2>6 DEF BrokerInv
<1> QED BY <1>1, <1>2, <1>3, <1>4, <1>5, <1>6, <1>7 DEF BrokerNext

\* The table, the plans and the queues hold what they are meant to.
LEMMA TypesFollow ==
    ASSUME BrokerInv
    PROVE  BrokerTypeOK
<1>1. /\ registry \in Registries /\ announced \in SUBSET Ids /\ group \in SUBSET Live(registry)
      /\ Deferred /\ Len(events) <= EVENTS /\ Len(acks) <= ACKS
      /\ orphans \in SUBSET Ids /\ stale \subseteq 1..(space - 1) /\ (~up => plan = <<>>)
  BY DEF BrokerInv, Typed, Catalogue, Listed
<1>2. \A id \in Ids : registry[id] = None \/ registry[id].unit \in Units
  BY <1>1, LiveIs DEF Live
<1> QED BY <1>1, <1>2 DEF BrokerTypeOK, Deferred

\* A session that has heard everything and said everything agrees with the table.
LEMMA SettledAgrees ==
    ASSUME BrokerInv
    PROVE  BrokerMatchesTable
<1>1. SUFFICES ASSUME Settled, ~missed, ~cutShort
               PROVE  /\ shown = Awaiting(registry)
                      /\ \A s \in Spaces, id \in Ids :
                            \/ retained[s][id] = IF s = space THEN Entities(registry)[id] ELSE None
                            \/ <<s, id>> \in unnamed
  BY DEF BrokerMatchesTable
<1>2. Quiet /\ events = <<>> /\ Len(<<>>) = 0 /\ registry \in Registries
  BY <1>1 DEF Settled, BrokerInv, Typed, Catalogue
<1>3. \A k \in Keys : Base(k) = Fact(registry, k)
  BY <1>1, <1>2 DEF BrokerInv, Belief, Told
<1>4. count = Awaiting(registry)
  BY <1>2, <1>3, FactIs DEF Keys, Base
<1>5. \A id \in Ids : Want(id) = Entities(registry)[id]
  <2>1. ASSUME NEW id \in Ids PROVE Want(id) = Entities(registry)[id]
    <3>1. id # Figure /\ id \in Keys
      BY FewIds DEF Figure, Keys
    <3>2. Base(id) = Want(id)
      BY <3>1 DEF Base
    <3> QED BY <1>2, <1>3, <3>1, <3>2, FactIs
  <2> QED BY <2>1
<1> QED BY <1>2, <1>4, <1>5, QuietIs

\* Every row is written with its unit's seed.
LEMMA SeedsFollow ==
    ASSUME BrokerInv
    PROVE  SeedsFollowShades
<1>1. Faithful(flash)
  BY DEF BrokerInv, Typed, Catalogue
<1>2. flash.rows \in Seq(Shades)
  BY <1>1 DEF Faithful, Records
<1>3. \A r \in DOMAIN flash.rows : flash.rows[r].seed = SeedOf(flash.rows[r].unit)
  BY <1>1, <1>2 DEF Faithful
<1> QED BY <1>3 DEF SeedsFollowShades, SeedOf

\* The broker, the table and the flash agree on the shades there are: what the
\* broker keeps once the session has said everything is what the table holds
\* (mqtt.rs, Broker::serve and resync; tasks.rs, apply_edit), and a shade keeps
\* its seed through every renumbering (shades.rs, table_record).
THEOREM BrokerSafety == BrokerSpec => []BrokerSafe
<1>1. BrokerInit => BrokerInv
  BY BrokerStarts
<1>2. BrokerInv /\ [BrokerNext]_brokerVars => BrokerInv'
  BY BrokerSteps
<1>3. BrokerInv => BrokerSafe
  BY TypesFollow, SettledAgrees, SeedsFollow DEF BrokerSafe
<1> QED BY <1>1, <1>2, <1>3, PTL DEF BrokerSpec

\* The bit of a slot goes only after its entities (catalog.rs, mark_retired,
\* called by the state task for an answer the session gave).
THEOREM BitsOutlive == BrokerSpec => BitOutlivesEntity
<1> DEFINE Kept == \A id \in announced \ Confirmed(registry) :
                      id \notin announced' /\ ~cutShort =>
                          \/ retained'[space][id] = None
                          \/ \E i \in DOMAIN acks' : acks'[i] = Announced(id)
                          \/ \E i \in DOMAIN plan' : plan'[i] = AckAnnounced(id)
           Again == \E s \in Spaces : Restart(s)
<1>1. BrokerInit => BrokerInv
  BY BrokerStarts
<1>2. BrokerInv /\ [BrokerNext]_brokerVars => BrokerInv'
  BY BrokerSteps
<1>3. ASSUME BrokerInv, [BrokerNext]_brokerVars PROVE [Again \/ Kept]_brokerVars
  <2>1. announced' = announced => Kept
    OBVIOUS
  <2>2. ASSUME TableTask, UNCHANGED sessionVars PROVE Kept
    <3>1. CASE acks' = acks /\ announced' = announced
      BY <2>1, <3>1
    <3>2. CASE TakeAck /\ acks # <<>> /\ acks' = Tail(acks)
      <4>1. /\ announced' = IF Head(acks).is = "announced" THEN announced \cup {Head(acks).id}
                                                           ELSE announced \ {Head(acks).id}
            /\ retained' = retained /\ plan' = plan
        BY <2>2, <3>2 DEF TakeAck, sessionVars
      <4>2. acks \in Seq(Answers) /\ plan \in Seq(Steps)
        BY <1>3 DEF BrokerInv, Typed, PlanOK
      <4>3. /\ acks' \in Seq(Answers) /\ Len(acks') = Len(acks) - 1 /\ Len(acks) \in Nat
            /\ \A i \in 1..Len(acks') : acks'[i] = acks[i + 1] /\ i + 1 \in 1..Len(acks)
            /\ 1 \in 1..Len(acks) /\ acks[1] = Head(acks) /\ Head(acks) \in Answers
        BY <3>2, <4>2, RestIs
      <4>4. ASSUME NEW id \in announced, id \notin announced', ~cutShort
            PROVE  \/ retained'[space][id] = None
                   \/ \E i \in 1..Len(acks') : acks'[i] = Announced(id)
                   \/ \E i \in 1..Len(plan) : plan[i] = AckAnnounced(id)
        <5>1. Head(acks).id = id /\ Head(acks).is = "retired"
          BY <4>1, <4>3, <4>4 DEF Answers
        <5>2. \/ retained[space][id] = None
              \/ In(plan, AckAnnounced(id))
              \/ \E j \in 1..Len(acks) : j > 1 /\ acks[j] = Announced(id)
          BY <1>3, <4>3, <4>4, <5>1 DEF BrokerInv, AcksOK
        <5>3. ASSUME NEW j \in 1..Len(acks), j > 1, acks[j] = Announced(id)
              PROVE  \E i \in 1..Len(acks') : acks'[i] = Announced(id)
          <6>1. j - 1 \in 1..Len(acks') /\ (j - 1) + 1 = j
            BY <4>3, <5>3
          <6> QED BY <4>3, <5>3, <6>1
        <5> QED BY <4>1, <5>2, <5>3 DEF In
      <4>5. DOMAIN acks' = 1..Len(acks') /\ DOMAIN plan' = 1..Len(plan)
        BY <4>1, <4>2, <4>3
      <4> QED BY <4>1, <4>4, <4>5
    <3> QED BY <1>3, <2>2, <3>1, <3>2, AnswersTask DEF BrokerInv
  <2>3. ASSUME Connect \/ Lose \/ SessionStep \/ TakeEvent PROVE Kept
    <3>1. announced' = announced
      BY <2>3, Zenon DEF Connect, Lose, SessionStep, DoShow, DoHide, DoAckAnnounced, DoAckRetired,
                  DoAck, EndAnnouncement, DoReport, TakeEvent, tableVars
    <3> QED BY <2>1, <3>1
  <2>4. ASSUME NEW s \in {space, space + 1} \cap Spaces, Restart(s) PROVE Again
    BY <2>4
  <2>5. CASE UNCHANGED brokerVars
    BY <2>5
  <2> HIDE DEF Kept, Again
  <2> QED BY <1>3, <2>2, <2>3, <2>4, <2>5, Zenon DEF BrokerNext
<1>4. ASSUME BrokerInv, [BrokerNext]_brokerVars
      PROVE  [\/ \E s \in Spaces : Restart(s)
              \/ \A id \in announced \ Confirmed(registry) :
                    id \notin announced' /\ ~cutShort =>
                        \/ retained'[space][id] = None
                        \/ \E i \in DOMAIN acks' : acks'[i] = Announced(id)
                        \/ \E i \in DOMAIN plan' : plan'[i] = AckAnnounced(id)]_brokerVars
  BY <1>3, <1>4, Zenon DEF Kept, Again
<1> HIDE DEF Kept, Again
<1> QED BY <1>1, <1>2, <1>4, PTL DEF BrokerSpec, BitOutlivesEntity
=============================================================================
