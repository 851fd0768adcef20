--------------------------- MODULE ChannelsProofs ---------------------------
(***************************************************************************)
(* What the state task has on its sides. The seam: a call is answered only *)
(* with its own answer and carried out only once. The radio task: between  *)
(* requests a controller listens, and hears the first frame of a press as  *)
(* it was sent. A frame, from its bytes over the air to its bytes again.   *)
(* The deduper: the repeats of a press are one event. And the loops that   *)
(* keep the device on its network: a signal on record is of a link that is *)
(* there, and no loop attempts sooner than its failures in a row let it.   *)
(* For any number of callers, calls, places, remotes and retries.          *)
(***************************************************************************)
EXTENDS Rpc, Uplink, RxDeduper, RadioLoop, AirTrip, FiniteSetTheorems, NaturalsInduction,
        WellFoundedInduction, TLAPS

-----------------------------------------------------------------------------
(* The seam (Rpc)                                                          *)

(* The permit is the right to be in the exchange, and it is one.             *)
OneHolder == \A c \in Callers : phase[c] = "asking" =>
               /\ permits = 0
               /\ \A d \in Callers : phase[d] = "asking" => d = c

(* While a caller is in the exchange both signals hold nothing but its call. *)
Paired == \A c \in Callers : phase[c] = "asking" =>
               /\ request \subseteq {Mine(c)}
               /\ reply \subseteq {Mine(c)}

(* No call is raised or done before it has begun.                            *)
NoneEarly == \A c \in Callers, n \in 1..MAX_CALLS :
               <<c, n>> \in request \cup served => n <= calls[c]

(* A caller in the queue has asked nothing yet.                              *)
NotYet == \A c \in Callers : phase[c] = "waiting" => Mine(c) \notin request \cup served

(* Whoever is inside the call has begun one.                                 *)
Begun == \A c \in Callers : phase[c] # "idle" => calls[c] >= 1

Inv == /\ TypeOK
       /\ OneHolder
       /\ Paired
       /\ NoneEarly
       /\ NotYet
       /\ Begun
       /\ ServedOnce
       /\ AnswerIsMine

(* The exchange starts only with the permit, so nobody else is in it, and    *)
(* leaves the signals holding the new call alone.                            *)
LEMMA Exchanging ==
  ASSUME Inv, NEW c \in Callers, AskAtOnce(c) \/ Acquire(c)
  PROVE  Inv'
<1> DEFINE call == <<c, calls'[c]>>
<1>1. /\ permits = 1 /\ permits' = 0
      /\ phase' = [phase EXCEPT ![c] = "asking"]
      /\ reply' = {}
      /\ request' = {call}
      /\ calls'[c] \in 1..MAX_CALLS
      /\ served' = served /\ ticket' = ticket /\ issued' = issued
  BY RpcAssumption DEF Inv, TypeOK, AskAtOnce, Acquire, First, Waiting, Begin, Exchange, Mine, Begun
<1>2. /\ calls' = [calls EXCEPT ![c] = calls'[c]]
      /\ \A d \in Callers : calls'[d] >= calls[d] /\ (d # c => calls'[d] = calls[d])
      /\ calls' \in [Callers -> 0..MAX_CALLS]
  BY <1>1, RpcAssumption DEF Inv, TypeOK, AskAtOnce, Acquire, Begin
<1>3. call \notin served
  <2>1. CASE AskAtOnce(c)
    BY <1>1, <2>1, RpcAssumption DEF Inv, TypeOK, NoneEarly, AskAtOnce, Begin
  <2>2. CASE Acquire(c)
    BY <2>2 DEF Inv, NotYet, Acquire, First, Waiting, Mine
  <2> QED BY <2>1, <2>2
<1>4. call \in Named
  BY <1>1 DEF Named
<1>5. \A d \in Callers : phase[d] # "asking"
  BY <1>1 DEF Inv, OneHolder
<1>6. got' \in [Callers -> SUBSET Named] /\ \A d \in Callers : got'[d] \subseteq {<<d, calls'[d]>>}
  <2>1. CASE AskAtOnce(c)
    BY <1>2, <2>1 DEF Inv, TypeOK, AnswerIsMine, Mine, AskAtOnce, Begin
  <2>2. CASE Acquire(c)
    BY <2>2 DEF Inv, TypeOK, AnswerIsMine, Mine, Acquire
  <2> QED BY <2>1, <2>2
<1>7. TypeOK'
  BY <1>1, <1>2, <1>4, <1>6 DEF Inv, TypeOK
<1>8. OneHolder' /\ Paired'
  BY <1>1, <1>5 DEF Inv, TypeOK, OneHolder, Paired, Mine
<1>9. NoneEarly'
  <2> SUFFICES ASSUME NEW d \in Callers, NEW n \in 1..MAX_CALLS, <<d, n>> \in request' \cup served'
               PROVE  n <= calls'[d]
    BY DEF NoneEarly
  <2>1. CASE <<d, n>> = call
    BY <1>1, <2>1, RpcAssumption
  <2>2. CASE <<d, n>> \in served
    BY <1>2, <2>2, RpcAssumption DEF Inv, TypeOK, NoneEarly
  <2> QED BY <1>1, <2>1, <2>2
<1>10. NotYet'
  BY <1>1, <1>2 DEF Inv, TypeOK, NotYet, Mine
<1>11. Begun'
  BY <1>1, <1>2 DEF Inv, TypeOK, Begun
<1>12. ServedOnce' /\ AnswerIsMine'
  BY <1>1, <1>3, <1>6 DEF ServedOnce, AnswerIsMine, Mine
<1> QED BY <1>7, <1>8, <1>9, <1>10, <1>11, <1>12 DEF Inv

(* A call that joins the queue, or is turned away, raises nothing.           *)
LEMMA Joining ==
  ASSUME Inv, NEW c \in Callers, AskAndQueue(c) \/ AskRefused(c)
  PROVE  Inv'
<1>1. /\ calls' = [calls EXCEPT ![c] = calls[c] + 1] /\ calls[c] + 1 \in 1..MAX_CALLS
      /\ got' = [got EXCEPT ![c] = {}]
      /\ permits' = permits /\ request' = request /\ reply' = reply /\ served' = served
  BY RpcAssumption DEF Inv, TypeOK, AskAndQueue, AskRefused, Begin
<1>2. /\ phase[c] = "idle"
      /\ phase' \in [Callers -> {"idle", "waiting", "asking"}]
      /\ phase'[c] # "asking"
      /\ \A d \in Callers \ {c} : phase'[d] = phase[d]
      /\ ticket' \in [Callers -> Nat] /\ issued' \in Nat
  BY DEF Inv, TypeOK, AskAndQueue, AskRefused, Begin
<1>3. calls' \in [Callers -> 0..MAX_CALLS] /\ \A d \in Callers \ {c} : calls'[d] = calls[d]
  BY <1>1, RpcAssumption DEF Inv, TypeOK
<1>4. <<c, calls'[c]>> \notin request \cup served
  BY <1>1, RpcAssumption DEF Inv, TypeOK, NoneEarly
<1>5. TypeOK'
  BY <1>1, <1>2, <1>3 DEF Inv, TypeOK
<1>6. OneHolder' /\ Paired'
  BY <1>1, <1>2, <1>3 DEF Inv, OneHolder, Paired, Mine
<1>7. NoneEarly'
  BY <1>1, <1>3, RpcAssumption DEF Inv, TypeOK, NoneEarly
<1>8. NotYet'
  BY <1>1, <1>2, <1>3, <1>4 DEF Inv, NotYet, Mine
<1>9. Begun'
  BY <1>1, <1>2, <1>3 DEF Inv, TypeOK, Begun
<1>10. ServedOnce' /\ AnswerIsMine'
  BY <1>1, <1>3 DEF Inv, TypeOK, ServedOnce, AnswerIsMine, Mine
<1> QED BY <1>5, <1>6, <1>7, <1>8, <1>9, <1>10 DEF Inv

(* However a call ends, its caller gives back what it held and no more, and  *)
(* takes away nothing but its own answer.                                    *)
LEMMA Leaving ==
  ASSUME Inv, NEW c \in Callers, Receive(c) \/ Timeout(c) \/ Drop(c)
  PROVE  Inv'
<1>1. /\ phase' = [phase EXCEPT ![c] = "idle"]
      /\ permits' = IF phase[c] = "asking" THEN permits + 1 ELSE permits
      /\ calls' = calls /\ request' = request /\ served' = served
      /\ ticket' = ticket /\ issued' = issued /\ reply' \subseteq reply
  BY DEF Receive, Timeout, Drop, Leave
<1>2. /\ \A d \in Callers : phase'[d] = "asking" => d # c /\ phase[d] = "asking"
      /\ \A d \in Callers : phase'[d] = "waiting" => d # c /\ phase[d] = "waiting"
  BY <1>1 DEF Inv, TypeOK
<1>3. permits' \in 0..1
  BY <1>1 DEF Inv, TypeOK, OneHolder
<1>4. got' \in [Callers -> SUBSET Named] /\ AnswerIsMine'
  <2>1. CASE Receive(c)
    <3>1. reply \subseteq {Mine(c)} /\ reply \subseteq Named
      BY <2>1 DEF Inv, Paired, Receive, TypeOK
    <3>2. got' = [got EXCEPT ![c] = reply]
      BY <2>1 DEF Receive
    <3> QED BY <1>1, <3>1, <3>2 DEF Inv, TypeOK, AnswerIsMine, Mine
  <2>2. CASE Timeout(c) \/ Drop(c)
    BY <1>1, <2>2 DEF Inv, TypeOK, AnswerIsMine, Mine, Timeout, Drop
  <2> QED BY <2>1, <2>2
<1>5. TypeOK'
  BY <1>1, <1>3, <1>4 DEF Inv, TypeOK
<1>6. OneHolder'
  <2> SUFFICES ASSUME NEW d \in Callers, phase'[d] = "asking"
               PROVE  permits' = 0 /\ \A e \in Callers : phase'[e] = "asking" => e = d
    BY DEF OneHolder
  <2>1. phase[d] = "asking" /\ d # c
    BY <1>2
  <2>2. phase[c] # "asking" /\ permits = 0
    BY <2>1 DEF Inv, OneHolder
  <2> QED BY <1>1, <1>2, <2>1, <2>2 DEF Inv, OneHolder
<1>7. Paired' /\ NoneEarly' /\ NotYet' /\ Begun' /\ ServedOnce'
  BY <1>1, <1>2 DEF Inv, TypeOK, Paired, NoneEarly, NotYet, Begun, ServedOnce, Mine
<1> QED BY <1>4, <1>5, <1>6, <1>7 DEF Inv

(* The state task's answer is to what was raised, and is given once.         *)
LEMMA Serving ==
  ASSUME Inv, Serve
  PROVE  Inv'
<1>1. TypeOK' /\ AnswerIsMine' /\ ServedOnce'
  BY DEF Inv, TypeOK, Serve, AnswerIsMine, ServedOnce, Mine
<1>2. OneHolder' /\ Paired' /\ Begun'
  BY DEF Inv, Serve, OneHolder, Paired, Begun, Mine
<1>3. NoneEarly' /\ NotYet'
  BY DEF Inv, Serve, NoneEarly, NotYet, Mine
<1> QED BY <1>1, <1>2, <1>3 DEF Inv

(* The invariant of the seam.                                                *)
THEOREM SeamInvariant == Spec => []Inv
<1>1. Init => Inv
  BY RpcAssumption DEF Init, Inv, TypeOK, OneHolder, Paired, NoneEarly, NotYet, Begun,
                      ServedOnce, AnswerIsMine, Mine
<1>2. Inv /\ [Next]_vars => Inv'
  <2> SUFFICES ASSUME Inv, [Next]_vars PROVE Inv'
    OBVIOUS
  <2>1. CASE Serve
    BY <2>1, Serving
  <2>2. ASSUME NEW c \in Callers, AskAtOnce(c) \/ Acquire(c) PROVE Inv'
    BY <2>2, Exchanging
  <2>3. ASSUME NEW c \in Callers, AskAndQueue(c) \/ AskRefused(c) PROVE Inv'
    BY <2>3, Joining
  <2>4. ASSUME NEW c \in Callers, Receive(c) \/ Timeout(c) \/ Drop(c) PROVE Inv'
    BY <2>4, Leaving
  <2>5. CASE UNCHANGED vars
    BY <2>5 DEF vars, Inv, TypeOK, OneHolder, Paired, NoneEarly, NotYet, Begun,
                ServedOnce, AnswerIsMine, Mine
  <2> QED BY <2>1, <2>2, <2>3, <2>4, <2>5 DEF Next
<1> QED BY <1>1, <1>2, PTL DEF Spec

(* Rpc::call returns the answer to its own question or none, for any number  *)
(* of callers, calls, timeouts and dropped futures.                          *)
THEOREM OwnAnswer == Spec => []AnswerIsMine
<1>1. Inv => AnswerIsMine
  BY DEF Inv
<1> QED BY <1>1, SeamInvariant, PTL

(* The state task carries out no call twice.                                 *)
THEOREM OnceEach == Spec => []ServedOnce
<1>1. Inv => ServedOnce
  BY DEF Inv
<1> QED BY <1>1, SeamInvariant, PTL

(* Rpc::call, next and answer: own answers only, each call carried out once, *)
(* one permit, for any number of callers, calls and places in the queue.     *)
THEOREM SeamSafety == Spec => []SeamSafe
<1>1. Inv => SeamSafe
  BY DEF Inv, SeamSafe
<1> QED BY <1>1, SeamInvariant, PTL

-----------------------------------------------------------------------------
(* The loops that keep the device on its network (Uplink). The invariant   *)
(* ties three things a loop keeps apart: the delay its Backoff stands at   *)
(* is what one more failure will cost, what is left of a wait and the time *)
(* since the last attempt make up what the failures so far cost, and a     *)
(* loop with no wait before it has paid.                                   *)

RestOK ==
    /\ services \in Images
    /\ good \in BOOLEAN /\ requested \in BOOLEAN /\ lease \in BOOLEAN
    /\ clock \in BOOLEAN /\ kissed \in BOOLEAN

\* What a loop would wait next is what its next failure in a row costs.
DelayOK ==
    /\ delay \in [Loops -> RETRY_MIN_MS..RETRY_MAX_MS]
    /\ row \in [Loops -> 0..MOST] /\ hollow \in 0..MOST
    /\ gap \in [Loops -> 0..Longest]
    /\ \A loop \in Loops : delay[loop] >= Owed(Up(row[loop], MOST))

LinkOK ==
    /\ link \in [at : {"connecting", "held", "waiting"}, for : Nat]
    /\ signal \in BOOLEAN /\ SignalIsOfThisLink
    /\ link.at = "waiting" => gap["wifi"] + link.for >= Owed(row["wifi"])

SessionOK ==
    /\ broker \in [at : {"route", "connecting", "session", "waiting"}, for : Nat,
                   silent : 0..SOCKET_TIMEOUT_S]
    /\ broker.at = "waiting" => gap["mqtt"] + broker.for >= Owed(row["mqtt"])
    /\ broker.at = "route" => gap["mqtt"] >= Owed(row["mqtt"])

\* What is owed before the next question: the interval, after an answer.
Due == IF row["sntp"] = 0 THEN RESYNC_INTERVAL_S ELSE Owed(row["sntp"])

TimeOK ==
    /\ ntp \in [at : {"route", "asking", "waiting"}, for : Nat]
    /\ ntp.at = "waiting" => gap["sntp"] + ntp.for >= Due
    /\ ntp.at = "route" => gap["sntp"] >= Due

NameOK == responder \in [at : {"route", "serving", "waiting"}, for : Nat]

UplinkInv == RestOK /\ DelayOK /\ LinkOK /\ SessionOK /\ TimeOK /\ NameOK

-----------------------------------------------------------------------------
(* What failures cost                                                      *)

\* The ranges of the constants.
LEMMA RangeType ==
    /\ RETRY_MIN_MS \in Nat /\ RETRY_MAX_MS \in Nat /\ 0 < RETRY_MIN_MS /\ RETRY_MIN_MS <= RETRY_MAX_MS
    /\ Longest \in Nat /\ RETRY_MAX_MS <= Longest /\ RESYNC_INTERVAL_S <= Longest
    /\ RESYNC_INTERVAL_S \in Nat /\ RETRY_MIN_MS <= RESYNC_INTERVAL_S
    /\ STABLE_LINK_MS \in Nat /\ STABLE_SESSION_MS \in Nat /\ SOCKET_TIMEOUT_S \in Nat
    /\ REQUEST_TIMEOUT_S \in Nat /\ RESTART_DELAY_MS \in Nat
BY RangeAssumption, LimitAssumption DEF Longest

\* What is owed is never more than the longest wait, and nothing but the least at first.
LEMMA OwedType ==
    ASSUME NEW n \in 0..MOST
    PROVE  /\ Owed(n) \in Nat /\ Owed(n) <= RETRY_MAX_MS
           /\ n \in {0, 1} => Owed(n) = RETRY_MIN_MS
           /\ Up(n, MOST) \in 1..MOST
<1>1. n = 0 \/ n = 1 \/ n = 2 \/ n = 3 \/ n = 4
  BY DEF MOST
<1>2. CASE n = 0
  BY <1>2, RangeType DEF Owed, Up, MOST
<1>3. CASE n = 1
  BY <1>3, RangeType DEF Owed, Up, MOST
<1>4. CASE n = 2
  BY <1>4, RangeType DEF Owed, Up, MOST
<1>5. CASE n = 3
  BY <1>5, RangeType DEF Owed, Up, MOST
<1>6. CASE n = 4
  BY <1>6, RangeType DEF Owed, Up, MOST
<1> QED BY <1>1, <1>2, <1>3, <1>4, <1>5, <1>6

\* A delay that covers a failure covers the next when it is doubled.
LEMMA DoubledCovers ==
    ASSUME NEW n \in 1..MOST, NEW d \in RETRY_MIN_MS..RETRY_MAX_MS, d >= Owed(n)
    PROVE  Doubled(d) \in RETRY_MIN_MS..RETRY_MAX_MS /\ Doubled(d) >= Owed(Up(n, MOST))
<1>1. n = 1 \/ n = 2 \/ n = 3 \/ n = 4
  BY DEF MOST
<1>2. CASE n = 1
  BY <1>2, RangeType DEF Owed, Up, MOST, Doubled
<1>3. CASE n = 2
  BY <1>3, RangeType DEF Owed, Up, MOST, Doubled
<1>4. CASE n = 3
  BY <1>4, RangeType DEF Owed, Up, MOST, Doubled
<1>5. CASE n = 4
  BY <1>5, RangeType DEF Owed, Up, MOST, Doubled
<1> QED BY <1>1, <1>2, <1>3, <1>4, <1>5

\* An attempt that worked waits the least and one that did not waits the delay in force;
\* either covers what the row it leaves costs, and the delay it leaves what the next will.
LEMMA AttemptCosts ==
    ASSUME DelayOK, hollow' \in 0..MOST, NEW loop \in Loops, NEW d \in Nat, NEW worked \in BOOLEAN,
           d = (IF worked THEN RETRY_MIN_MS ELSE delay[loop]),
           EndOfAttempt(loop, Doubled(d), worked)
    PROVE  /\ DelayOK' /\ gap'[loop] = 0 /\ row'[loop] \in 0..MOST /\ d >= Owed(row'[loop])
           /\ row'[loop] = 0 => worked
           /\ \A other \in Loops \ {loop} : gap'[other] = gap[other] /\ row'[other] = row[other]
<1>1. /\ delay' = [delay EXCEPT ![loop] = Doubled(d)]
      /\ row' = [row EXCEPT ![loop] = IF worked THEN 0 ELSE Up(row[loop], MOST)]
      /\ gap' = [gap EXCEPT ![loop] = 0]
  BY DEF EndOfAttempt
<1>2. row[loop] \in 0..MOST /\ delay[loop] \in RETRY_MIN_MS..RETRY_MAX_MS
  BY DEF DelayOK
<1>3. row'[loop] = (IF worked THEN 0 ELSE Up(row[loop], MOST)) /\ row'[loop] \in 0..MOST
      /\ (row'[loop] = 0 => worked)
  BY <1>1, <1>2, OwedType DEF DelayOK, MOST
<1>4. /\ d \in RETRY_MIN_MS..RETRY_MAX_MS /\ d >= Owed(row'[loop])
      /\ Doubled(d) \in RETRY_MIN_MS..RETRY_MAX_MS
      /\ Doubled(d) >= Owed(Up(row'[loop], MOST))
  <2>1. CASE worked
    <3>1. d = RETRY_MIN_MS /\ row'[loop] = 0
      BY <1>3, <2>1
    <3>2. Owed(0) = RETRY_MIN_MS /\ Owed(1) = RETRY_MIN_MS /\ Up(0, MOST) = 1
      BY OwedType DEF MOST, Up
    <3> QED BY <3>1, <3>2, RangeType DEF Doubled
  <2>2. CASE ~worked
    <3>1. d = delay[loop] /\ row'[loop] = Up(row[loop], MOST) /\ row'[loop] \in 1..MOST
      BY <1>2, <1>3, <2>2, OwedType
    <3>2. d >= Owed(row'[loop])
      BY <3>1 DEF DelayOK
    <3> QED BY <1>2, <3>1, <3>2, DoubledCovers
  <2> QED BY <2>1, <2>2
<1>5. \A other \in Loops \ {loop} :
          delay'[other] = delay[other] /\ gap'[other] = gap[other] /\ row'[other] = row[other]
  BY <1>1 DEF DelayOK
<1>6. delay'[loop] = Doubled(d) /\ gap'[loop] = 0
  BY <1>1 DEF DelayOK
<1>7. /\ delay' \in [Loops -> RETRY_MIN_MS..RETRY_MAX_MS] /\ row' \in [Loops -> 0..MOST]
      /\ gap' \in [Loops -> 0..Longest]
  <2>1. 0 \in 0..Longest
    BY RangeType
  <2> QED BY <1>1, <1>3, <1>4, <2>1 DEF DelayOK
<1>8. \A other \in Loops : delay'[other] >= Owed(Up(row'[other], MOST))
  <2> SUFFICES ASSUME NEW other \in Loops PROVE delay'[other] >= Owed(Up(row'[other], MOST))
    OBVIOUS
  <2>1. CASE other = loop
    BY <1>4, <1>6, <2>1
  <2>2. CASE other # loop
    BY <1>5, <2>2 DEF DelayOK
  <2> QED BY <2>1, <2>2
<1> QED BY <1>3, <1>4, <1>5, <1>6, <1>7, <1>8 DEF DelayOK

-----------------------------------------------------------------------------
(* What the steps of one loop leave of the others                          *)

\* Steps that do not end an attempt leave the costs.
LEMMA DelayFrame ==
    ASSUME DelayOK, UNCHANGED <<delay, row, hollow, gap>> PROVE DelayOK'
BY DEF DelayOK

\* A step that leaves the link, and what its loop owes, keeps what holds of it.
LEMMA LinkFrame ==
    ASSUME LinkOK, UNCHANGED <<link, signal>>, gap'["wifi"] = gap["wifi"], row'["wifi"] = row["wifi"]
    PROVE  LinkOK'
BY DEF LinkOK, SignalIsOfThisLink

\* So does one that leaves the broker's loop,
LEMMA SessionFrame ==
    ASSUME SessionOK, UNCHANGED broker, gap'["mqtt"] = gap["mqtt"], row'["mqtt"] = row["mqtt"]
    PROVE  SessionOK'
BY DEF SessionOK

\* the time client,
LEMMA TimeFrame ==
    ASSUME TimeOK, UNCHANGED ntp, gap'["sntp"] = gap["sntp"], row'["sntp"] = row["sntp"]
    PROVE  TimeOK'
BY DEF TimeOK, Due

\* or the name responder.
LEMMA NameFrame == ASSUME NameOK, UNCHANGED responder PROVE NameOK'
BY DEF NameOK

-----------------------------------------------------------------------------
(* The steps                                                               *)

\* The link's attempt ends, and the wait that follows covers what it cost.
LEMMA LinkWaitsStep ==
    ASSUME UplinkInv, NEW lasted \in Int, LinkWaits(lasted), hollow' = hollow, signal' \in BOOLEAN,
           signal' = FALSE, UNCHANGED <<broker, ntp, responder>>
    PROVE  DelayOK' /\ LinkOK' /\ SessionOK' /\ TimeOK' /\ NameOK'
<1>1. /\ RestOK /\ DelayOK /\ LinkOK /\ SessionOK /\ TimeOK /\ NameOK
      /\ delay["wifi"] \in RETRY_MIN_MS..RETRY_MAX_MS /\ hollow' \in 0..MOST
  BY DEF UplinkInv, DelayOK, Loops
<1> DEFINE d == After(delay["wifi"], lasted, STABLE_LINK_MS)
           worked == lasted >= STABLE_LINK_MS
<1>2. d = (IF worked THEN RETRY_MIN_MS ELSE delay["wifi"]) /\ d \in Nat /\ worked \in BOOLEAN
  BY <1>1, RangeType DEF After
<1>3. link' = Until("waiting", d) /\ EndOfAttempt("wifi", Doubled(d), worked)
  BY DEF LinkWaits
<1> HIDE DEF d, worked
<1>4. /\ DelayOK' /\ gap'["wifi"] = 0 /\ row'["wifi"] \in 0..MOST /\ d >= Owed(row'["wifi"])
      /\ \A other \in Loops \ {"wifi"} : gap'[other] = gap[other] /\ row'[other] = row[other]
  BY <1>1, <1>2, <1>3, AttemptCosts DEF Loops
<1>5. LinkOK'
  <2>1. link' = [at |-> "waiting", for |-> d]
    BY <1>3 DEF Until
  <2>2. Owed(row'["wifi"]) \in Nat
    BY <1>4, OwedType
  <2>3. gap'["wifi"] + link'.for >= Owed(row'["wifi"])
    BY <1>2, <1>4, <2>1, <2>2
  <2> QED BY <1>2, <2>1, <2>3 DEF LinkOK, SignalIsOfThisLink
<1>6. SessionOK' /\ TimeOK' /\ NameOK'
  BY <1>1, <1>4, SessionFrame, TimeFrame, NameFrame DEF Loops
<1> QED BY <1>4, <1>5, <1>6

\* The link's steps.
LEMMA LinkStep == ASSUME UplinkInv, LinkWork \/ Sample \/ Lease \/ LeaseLapses PROVE UplinkInv'
<1>1. RestOK /\ DelayOK /\ LinkOK /\ SessionOK /\ TimeOK /\ NameOK
  BY DEF UplinkInv
<1>2. CASE Join
  <2>1. RestOK' /\ link' = [at |-> "held", for |-> 0] /\ signal' \in BOOLEAN
    <3>1. RestOK' /\ link' = [at |-> "held", for |-> 0]
      BY <1>1, <1>2 DEF Join, RestOK, At, told
    <3>2. signal' \in BOOLEAN
      BY <1>1, <1>2, Zenon DEF Join, RestOK
    <3> QED BY <3>1, <3>2
  <2>2. LinkOK'
    BY <2>1 DEF LinkOK, SignalIsOfThisLink
  <2> QED BY <1>1, <1>2, <2>1, <2>2, DelayFrame, SessionFrame, TimeFrame, NameFrame
         DEF Join, UplinkInv, told
<1>3. CASE Refused
  <2>1. link.at = "connecting" /\ signal' = signal /\ LinkWaits(-1) /\ hollow' = hollow
        /\ UNCHANGED <<broker, ntp, responder>> /\ RestOK'
    BY <1>1, <1>3 DEF Refused, RestOK
  <2>2. signal' = FALSE /\ -1 \in Int
    BY <1>1, <2>1 DEF LinkOK, SignalIsOfThisLink
  <2>3. DelayOK' /\ LinkOK' /\ SessionOK' /\ TimeOK' /\ NameOK'
    BY <2>1, <2>2, LinkWaitsStep
  <2> QED BY <2>1, <2>3 DEF UplinkInv
<1>4. CASE LinkEnds
  <2>1. signal' = FALSE /\ LinkWaits(link.for) /\ hollow' = hollow
        /\ UNCHANGED <<broker, ntp, responder>> /\ RestOK'
    BY <1>1, <1>4 DEF LinkEnds, Lost, RestOK
  <2>2. link.for \in Int
    BY <1>1 DEF LinkOK
  <2> QED BY <2>1, <2>2, LinkWaitsStep DEF UplinkInv
<1>5. CASE NextLink
  <2>1. RestOK' /\ link' = [at |-> "connecting", for |-> 0] /\ signal' = signal /\ link.at = "waiting"
    BY <1>1, <1>5 DEF NextLink, RestOK, At
  <2>2. LinkOK'
    BY <1>1, <2>1 DEF LinkOK, SignalIsOfThisLink
  <2>3. /\ delay' = (IF requested THEN [delay EXCEPT !["wifi"] = RETRY_MIN_MS] ELSE delay)
        /\ row' = (IF requested THEN [row EXCEPT !["wifi"] = 0] ELSE row)
        /\ UNCHANGED <<hollow, gap, broker, ntp, responder>>
    BY <1>5 DEF NextLink
  <2>4. DelayOK' /\ row'["mqtt"] = row["mqtt"] /\ row'["sntp"] = row["sntp"]
    <3>1. CASE ~requested
      BY <1>1, <2>3, <3>1 DEF DelayOK
    <3>2. CASE requested
      <4>1. delay' = [delay EXCEPT !["wifi"] = RETRY_MIN_MS] /\ row' = [row EXCEPT !["wifi"] = 0]
        BY <2>3, <3>2
      <4>2. delay' \in [Loops -> RETRY_MIN_MS..RETRY_MAX_MS] /\ row' \in [Loops -> 0..MOST]
        <5>1. RETRY_MIN_MS \in RETRY_MIN_MS..RETRY_MAX_MS /\ 0 \in 0..MOST
          BY RangeType DEF MOST
        <5> QED BY <1>1, <4>1, <5>1 DEF DelayOK
      <4>3. RETRY_MIN_MS >= Owed(Up(0, MOST))
        <5>1. Up(0, MOST) = 1 /\ Owed(1) = RETRY_MIN_MS
          BY OwedType DEF Up, MOST
        <5> QED BY <5>1, RangeType
      <4>4. \A loop \in Loops : delay'[loop] >= Owed(Up(row'[loop], MOST))
        BY <1>1, <4>1, <4>3 DEF DelayOK
      <4> QED BY <1>1, <2>3, <4>1, <4>2, <4>4 DEF DelayOK, Loops
    <3> QED BY <3>1, <3>2
  <2> QED BY <1>1, <2>1, <2>2, <2>3, <2>4, SessionFrame, TimeFrame, NameFrame DEF UplinkInv
<1>6. CASE Sample
  <2>1. RestOK' /\ link' = link /\ link.at = "held" /\ signal' \in BOOLEAN
    BY <1>1, <1>6 DEF Sample, RestOK, tasks, told
  <2>2. LinkOK'
    BY <1>1, <2>1 DEF LinkOK, SignalIsOfThisLink
  <2> QED BY <1>1, <1>6, <2>1, <2>2, DelayFrame, SessionFrame, TimeFrame, NameFrame
         DEF Sample, UplinkInv, tasks, told
<1>7. CASE Lease \/ LeaseLapses
  <2>1. RestOK' /\ UNCHANGED <<signal, delay, tasks, told>>
    BY <1>1, <1>7 DEF Lease, LeaseLapses, RestOK, told
  <2> QED BY <1>1, <2>1, DelayFrame, LinkFrame, SessionFrame, TimeFrame, NameFrame
         DEF UplinkInv, tasks, told
<1> QED BY <1>2, <1>3, <1>4, <1>5, <1>6, <1>7 DEF LinkWork

\* The steps of the broker's loop.
LEMMA SessionStep == ASSUME UplinkInv, SessionWork PROVE UplinkInv'
<1>1. RestOK /\ DelayOK /\ LinkOK /\ SessionOK /\ TimeOK /\ NameOK
  BY DEF UplinkInv
<1>2. CASE StartConnect
  <2>1. /\ RestOK' /\ broker' = [at |-> "connecting", for |-> 0, silent |-> 0]
        /\ UNCHANGED <<link, signal, ntp, responder, delay, told>>
    BY <1>1, <1>2 DEF StartConnect, RestOK, told
  <2>2. SessionOK'
    BY <2>1, RangeType DEF SessionOK
  <2> QED BY <1>1, <2>1, <2>2, DelayFrame, LinkFrame, TimeFrame, NameFrame DEF UplinkInv, told
<1>3. CASE Established
  <2>1. /\ RestOK' /\ broker' = [broker EXCEPT !.at = "session", !.silent = 0]
        /\ UNCHANGED <<link, signal, ntp, responder, delay, told>>
    BY <1>1, <1>3 DEF Established, RestOK, told
  <2>2. SessionOK'
    <3>1. broker'.at = "session" /\ broker'.for = broker.for /\ broker'.silent = 0
          /\ broker' = [at |-> "session", for |-> broker.for, silent |-> 0]
      BY <1>1, <2>1 DEF SessionOK
    <3>2. broker.for \in Nat /\ 0 \in 0..SOCKET_TIMEOUT_S
      BY <1>1, RangeType DEF SessionOK
    <3> QED BY <3>1, <3>2 DEF SessionOK
  <2> QED BY <1>1, <2>1, <2>2, DelayFrame, LinkFrame, TimeFrame, NameFrame DEF UplinkInv, told
<1>4. CASE SessionEnds
  <2> DEFINE d == After(delay["mqtt"], broker.for, STABLE_SESSION_MS)
             worked == broker.for >= STABLE_SESSION_MS
  <2>1. /\ d = (IF worked THEN RETRY_MIN_MS ELSE delay["mqtt"]) /\ d \in Nat /\ worked \in BOOLEAN
        /\ hollow' \in 0..MOST
    <3>1. delay["mqtt"] \in RETRY_MIN_MS..RETRY_MAX_MS /\ hollow \in 0..MOST
      BY <1>1 DEF DelayOK, Loops
    <3>2. Up(hollow, MOST) \in 0..MOST
      BY <3>1 DEF Up, MOST
    <3>3. hollow' \in 0..MOST
      BY <1>4, <3>2 DEF SessionEnds, MOST
    <3> QED BY <3>1, <3>3, RangeType DEF After
  <2>2. /\ broker' = [at |-> "waiting", for |-> d, silent |-> 0]
        /\ EndOfAttempt("mqtt", Doubled(d), worked)
        /\ RestOK' /\ UNCHANGED <<link, signal, ntp, responder>>
    BY <1>1, <1>4 DEF SessionEnds, RestOK
  <2> HIDE DEF d, worked
  <2>3. /\ DelayOK' /\ gap'["mqtt"] = 0 /\ row'["mqtt"] \in 0..MOST /\ d >= Owed(row'["mqtt"])
        /\ \A other \in Loops \ {"mqtt"} : gap'[other] = gap[other] /\ row'[other] = row[other]
    BY <1>1, <2>1, <2>2, AttemptCosts DEF Loops
  <2>4. SessionOK'
    <3>1. Owed(row'["mqtt"]) \in Nat
      BY <2>3, OwedType
    <3>2. gap'["mqtt"] + broker'.for >= Owed(row'["mqtt"])
      BY <2>1, <2>2, <2>3, <3>1
    <3> QED BY <2>1, <2>2, <3>2, RangeType DEF SessionOK
  <2> QED BY <1>1, <2>2, <2>3, <2>4, LinkFrame, TimeFrame, NameFrame DEF UplinkInv, Loops
<1>5. CASE NextSession
  <2>1. /\ RestOK' /\ broker' = [broker EXCEPT !.at = "route"] /\ broker.at = "waiting" /\ broker.for = 0
        /\ UNCHANGED <<link, signal, ntp, responder, delay, told>>
    BY <1>1, <1>5 DEF NextSession, RestOK, told
  <2>2. gap["mqtt"] \in Nat
    BY <1>1, RangeType DEF DelayOK, Loops
  <2>3. SessionOK'
    BY <1>1, <2>1, <2>2 DEF SessionOK, told
  <2> QED BY <1>1, <2>1, <2>3, DelayFrame, LinkFrame, TimeFrame, NameFrame DEF UplinkInv, told
<1> QED BY <1>2, <1>3, <1>4, <1>5 DEF SessionWork

\* A question that got no time, for whatever reason.
LEMMA NoTimeStep == ASSUME UplinkInv, NEW kiss \in BOOLEAN, NoTime(kiss) PROVE UplinkInv'
<1>1. /\ RestOK /\ DelayOK /\ LinkOK /\ SessionOK /\ TimeOK /\ NameOK
      /\ delay["sntp"] \in RETRY_MIN_MS..RETRY_MAX_MS /\ hollow \in 0..MOST
  BY DEF UplinkInv, DelayOK, Loops
<1>2. PICK d \in Nat : d = delay["sntp"]
  BY <1>1, RangeType
<1>3. /\ ntp' = [at |-> "waiting", for |-> d] /\ EndOfAttempt("sntp", Doubled(d), FALSE)
      /\ RestOK' /\ UNCHANGED <<link, signal, broker, responder, hollow>>
  BY <1>1, <1>2 DEF NoTime, RestOK, Until
<1>4. /\ DelayOK' /\ gap'["sntp"] = 0 /\ row'["sntp"] \in 0..MOST /\ d >= Owed(row'["sntp"])
      /\ row'["sntp"] # 0
      /\ \A other \in Loops \ {"sntp"} : gap'[other] = gap[other] /\ row'[other] = row[other]
  BY <1>1, <1>2, <1>3, AttemptCosts DEF Loops
<1>5. TimeOK'
  <2>1. Due' = Owed(row'["sntp"]) /\ Due' \in Nat
    BY <1>4, OwedType DEF Due
  <2>2. gap'["sntp"] + ntp'.for >= Due'
    BY <1>2, <1>3, <1>4, <2>1
  <2> QED BY <1>2, <1>3, <2>2 DEF TimeOK
<1> QED BY <1>1, <1>3, <1>4, <1>5, LinkFrame, SessionFrame, NameFrame DEF UplinkInv, Loops

\* The steps of the time client.
LEMMA TimeStep == ASSUME UplinkInv, TimeWork PROVE UplinkInv'
<1>1. RestOK /\ DelayOK /\ LinkOK /\ SessionOK /\ TimeOK /\ NameOK /\ hollow \in 0..MOST
  BY DEF UplinkInv, DelayOK
<1>2. CASE Ask
  <2>1. RestOK' /\ ntp' = [at |-> "asking", for |-> 0]
        /\ UNCHANGED <<link, signal, broker, responder, delay, told>>
    BY <1>1, <1>2 DEF Ask, RestOK, At, told
  <2>2. TimeOK'
    BY <2>1 DEF TimeOK
  <2> QED BY <1>1, <2>1, <2>2, DelayFrame, LinkFrame, SessionFrame, NameFrame DEF UplinkInv, told
<1>3. CASE Answered
  <2>1. /\ RestOK' /\ ntp' = [at |-> "waiting", for |-> RESYNC_INTERVAL_S]
        /\ UNCHANGED <<link, signal, broker, responder, hollow>>
        /\ delay' = [delay EXCEPT !["sntp"] = RETRY_MIN_MS]
        /\ row' = [row EXCEPT !["sntp"] = 0] /\ gap' = [gap EXCEPT !["sntp"] = 0]
    BY <1>1, <1>3 DEF Answered, RestOK, Until, EndOfAttempt
  <2>2. /\ delay' \in [Loops -> RETRY_MIN_MS..RETRY_MAX_MS] /\ row' \in [Loops -> 0..MOST]
        /\ gap' \in [Loops -> 0..Longest]
    <3>1. RETRY_MIN_MS \in RETRY_MIN_MS..RETRY_MAX_MS /\ 0 \in 0..MOST /\ 0 \in 0..Longest
      BY RangeType DEF MOST
    <3> QED BY <1>1, <2>1, <3>1 DEF DelayOK
  <2>3. RETRY_MIN_MS >= Owed(Up(0, MOST))
    <3>1. Up(0, MOST) = 1 /\ Owed(1) = RETRY_MIN_MS
      BY OwedType DEF Up, MOST
    <3> QED BY <3>1, RangeType
  <2>4. \A loop \in Loops : delay'[loop] >= Owed(Up(row'[loop], MOST))
    BY <1>1, <2>1, <2>3 DEF DelayOK
  <2>5. DelayOK'
    BY <1>1, <2>1, <2>2, <2>4 DEF DelayOK
  <2>6. gap'["sntp"] = 0 /\ row'["sntp"] = 0
        /\ \A other \in Loops \ {"sntp"} : gap'[other] = gap[other] /\ row'[other] = row[other]
    BY <1>1, <2>1 DEF DelayOK, Loops
  <2>7. TimeOK'
    BY <2>1, <2>6, RangeType DEF TimeOK, Due
  <2> QED BY <1>1, <2>1, <2>5, <2>6, <2>7, LinkFrame, SessionFrame, NameFrame DEF UplinkInv, Loops
<1>4. CASE Unresolved
  BY <1>4, NoTimeStep DEF Unresolved
<1>5. CASE \E kiss \in BOOLEAN : Unanswered(kiss)
  BY <1>5, NoTimeStep DEF Unanswered
<1>6. CASE NextQuestion
  <2>1. RestOK' /\ ntp' = [at |-> "route", for |-> 0] /\ ntp.at = "waiting" /\ ntp.for = 0
        /\ UNCHANGED <<link, signal, broker, responder, delay, told>>
    BY <1>1, <1>6 DEF NextQuestion, RestOK, At, told
  <2>2. gap["sntp"] \in Nat
    BY <1>1, RangeType DEF DelayOK, Loops
  <2>3. TimeOK'
    BY <1>1, <2>1, <2>2 DEF TimeOK, Due, told
  <2> QED BY <1>1, <2>1, <2>3, DelayFrame, LinkFrame, SessionFrame, NameFrame DEF UplinkInv, told
<1> QED BY <1>2, <1>3, <1>4, <1>5, <1>6 DEF TimeWork

\* Every wait there is time left of, and every gap, gets a tick nearer; no wait has run out.
LEMMA Ticked ==
    ASSUME NEW w \in Nat, NEW g \in 0..Longest, NEW o \in Nat, o <= Longest, g + w >= o, w # 0
    PROVE  Down(w) \in Nat /\ Up(g, Longest) \in 0..Longest /\ Up(g, Longest) + Down(w) >= o
BY RangeType DEF Down, Up

\* Time passes.
LEMMA TickStep == ASSUME UplinkInv, Tick PROVE UplinkInv'
<1>1. RestOK /\ DelayOK /\ LinkOK /\ SessionOK /\ TimeOK /\ NameOK
  BY DEF UplinkInv
<1>2. /\ gap["wifi"] \in 0..Longest /\ gap["mqtt"] \in 0..Longest /\ gap["sntp"] \in 0..Longest
      /\ row["wifi"] \in 0..MOST /\ row["mqtt"] \in 0..MOST /\ row["sntp"] \in 0..MOST
  BY <1>1 DEF DelayOK, Loops
<1>3. /\ gap' = [loop \in Loops |-> Up(gap[loop], Longest)]
      /\ UNCHANGED <<services, good, requested, lease, signal, clock, delay, row, hollow, kissed>>
  BY DEF Tick
<1>4. /\ gap'["wifi"] = Up(gap["wifi"], Longest) /\ gap'["mqtt"] = Up(gap["mqtt"], Longest)
      /\ gap'["sntp"] = Up(gap["sntp"], Longest)
  BY <1>3 DEF Loops
<1>5. DelayOK'
  <2>1. \A loop \in Loops : Up(gap[loop], Longest) \in 0..Longest
    BY <1>1, RangeType DEF DelayOK, Up
  <2> QED BY <1>1, <1>3, <2>1 DEF DelayOK
<1>6. /\ Owed(row["wifi"]) \in Nat /\ Owed(row["wifi"]) <= Longest
      /\ Owed(row["mqtt"]) \in Nat /\ Owed(row["mqtt"]) <= Longest
      /\ Due \in Nat /\ Due <= Longest
  <2>1. \A n \in 0..MOST : Owed(n) \in Nat /\ Owed(n) <= Longest
    BY OwedType, RangeType
  <2> QED BY <1>2, <2>1, RangeType DEF Due
<1>7. LinkOK'
  <2>1. link' = Aged(link, STABLE_LINK_MS) /\ (link.at = "waiting" => link.for # 0)
    BY DEF Tick, Expired
  <2>2. CASE link.at = "waiting"
    <3>1. link.for \in Nat /\ link' = [at |-> "waiting", for |-> Down(link.for)]
      BY <1>1, <2>1, <2>2 DEF LinkOK, Aged
    <3>2. Down(link.for) \in Nat /\ Up(gap["wifi"], Longest) + Down(link.for) >= Owed(row["wifi"])
      BY <1>1, <1>2, <1>6, <2>1, <2>2, <3>1, Ticked DEF LinkOK
    <3> QED BY <1>1, <1>3, <1>4, <2>2, <3>1, <3>2 DEF LinkOK, SignalIsOfThisLink
  <2>3. CASE link.at # "waiting"
    <3>1. link.for \in Nat /\ link' = [at |-> link.at, for |-> Up(link.for, STABLE_LINK_MS)]
      BY <1>1, <2>1, <2>3 DEF LinkOK, Aged
    <3>2. Up(link.for, STABLE_LINK_MS) \in Nat
      BY <3>1, RangeType DEF Up
    <3> QED BY <1>1, <1>3, <2>3, <3>1, <3>2 DEF LinkOK, SignalIsOfThisLink
  <2> QED BY <2>2, <2>3
<1>8. SessionOK'
  <2>1. /\ broker' = [Aged(broker, STABLE_SESSION_MS) EXCEPT !.silent = IF Silent THEN @ + 1 ELSE 0]
        /\ broker.at = "waiting" => broker.for # 0
        /\ broker.silent # SOCKET_TIMEOUT_S
    BY DEF Tick, Expired
  <2>2. broker.for \in Nat /\ broker.silent \in 0..SOCKET_TIMEOUT_S
    BY <1>1 DEF SessionOK
  <2>3. PICK silent \in 0..SOCKET_TIMEOUT_S : silent = IF Silent THEN broker.silent + 1 ELSE 0
    <3>1. broker.silent + 1 \in 0..SOCKET_TIMEOUT_S /\ 0 \in 0..SOCKET_TIMEOUT_S
      BY <2>1, <2>2, RangeType
    <3> QED BY <3>1
  <2>4. CASE broker.at = "waiting"
    <3>1. broker' = [at |-> "waiting", for |-> Down(broker.for), silent |-> silent]
      BY <1>1, <2>1, <2>3, <2>4 DEF SessionOK, Aged
    <3>2. Down(broker.for) \in Nat /\ Up(gap["mqtt"], Longest) + Down(broker.for) >= Owed(row["mqtt"])
      BY <1>1, <1>2, <1>6, <2>1, <2>2, <2>4, Ticked DEF SessionOK
    <3> QED BY <1>3, <1>4, <3>1, <3>2 DEF SessionOK
  <2>5. CASE broker.at # "waiting"
    <3>1. broker' = [at |-> broker.at, for |-> Up(broker.for, STABLE_SESSION_MS), silent |-> silent]
      BY <1>1, <2>1, <2>3, <2>5 DEF SessionOK, Aged
    <3>2. Up(broker.for, STABLE_SESSION_MS) \in Nat
      BY <2>2, RangeType DEF Up
    <3>3. Up(gap["mqtt"], Longest) >= gap["mqtt"] \/ Up(gap["mqtt"], Longest) = Longest
      BY <1>2, RangeType DEF Up
    <3>4. Up(gap["mqtt"], Longest) \in Nat
      BY <1>2, RangeType DEF Up
    <3>5. broker.at = "route" => Up(gap["mqtt"], Longest) >= Owed(row["mqtt"])
      BY <1>1, <1>2, <1>6, <3>3, <3>4, RangeType DEF SessionOK
    <3> QED BY <1>1, <1>3, <1>4, <2>5, <3>1, <3>2, <3>5 DEF SessionOK
  <2> QED BY <2>4, <2>5
<1>9. TimeOK'
  <2>1. ntp' = Aged(ntp, REQUEST_TIMEOUT_S) /\ (ntp.at = "waiting" => ntp.for # 0)
    BY DEF Tick, Expired
  <2>2. Due' = Due /\ ntp.for \in Nat
    BY <1>1, <1>3 DEF Due, TimeOK
  <2>3. CASE ntp.at = "waiting"
    <3>1. ntp' = [at |-> "waiting", for |-> Down(ntp.for)]
      BY <1>1, <2>1, <2>3 DEF TimeOK, Aged
    <3>2. Down(ntp.for) \in Nat /\ Up(gap["sntp"], Longest) + Down(ntp.for) >= Due
      BY <1>1, <1>2, <1>6, <2>1, <2>2, <2>3, Ticked DEF TimeOK
    <3> QED BY <1>4, <2>2, <3>1, <3>2 DEF TimeOK
  <2>4. CASE ntp.at # "waiting"
    <3>1. ntp' = [at |-> ntp.at, for |-> Up(ntp.for, REQUEST_TIMEOUT_S)]
      BY <1>1, <2>1, <2>4 DEF TimeOK, Aged
    <3>2. Up(ntp.for, REQUEST_TIMEOUT_S) \in Nat
      BY <2>2, RangeType DEF Up
    <3>3. Up(gap["sntp"], Longest) >= gap["sntp"] \/ Up(gap["sntp"], Longest) = Longest
      BY <1>2, RangeType DEF Up
    <3>4. Up(gap["sntp"], Longest) \in Nat
      BY <1>2, RangeType DEF Up
    <3>5. ntp.at = "route" => Up(gap["sntp"], Longest) >= Due
      BY <1>1, <1>2, <1>6, <3>3, <3>4, RangeType DEF TimeOK
    <3> QED BY <1>1, <1>4, <2>2, <2>4, <3>1, <3>2, <3>5 DEF TimeOK
  <2> QED BY <2>3, <2>4
<1>10. NameOK'
  <2>1. responder' = Aged(responder, 0) /\ responder.for \in Nat
    BY <1>1 DEF Tick, NameOK
  <2>2. Down(responder.for) \in Nat /\ Up(responder.for, 0) \in Nat
    BY <2>1 DEF Down, Up
  <2> QED BY <1>1, <2>1, <2>2 DEF NameOK, Aged
<1>11. RestOK'
  BY <1>1, <1>3 DEF RestOK
<1> QED BY <1>5, <1>7, <1>8, <1>9, <1>10, <1>11 DEF UplinkInv

\* The steps of the name responder, and of the network.
LEMMA OtherStep ==
    ASSUME UplinkInv, NameWork \/ Weather \/ Candidate \/ UNCHANGED uplinkVars PROVE UplinkInv'
<1>1. RestOK /\ DelayOK /\ LinkOK /\ SessionOK /\ TimeOK /\ NameOK
  BY DEF UplinkInv
<1>2. UNCHANGED <<link, signal, broker, ntp, delay, row, hollow, gap>>
  BY DEF NameWork, Respond, AddressGone, RespondFails, RespondAgain, Weather, Candidate,
         uplinkVars, tasks, told
<1>3. RestOK'
  BY <1>1 DEF NameWork, Respond, AddressGone, RespondFails, RespondAgain, Weather, Candidate,
              uplinkVars, told, RestOK
<1>4. NameOK'
  BY <1>1, RangeType DEF NameWork, Respond, AddressGone, RespondFails, RespondAgain, Weather,
              Candidate, uplinkVars, tasks, NameOK, At, Until
<1> QED BY <1>1, <1>2, <1>3, <1>4, DelayFrame, LinkFrame, SessionFrame, TimeFrame DEF UplinkInv

\* The invariant holds of a device that has just started.
LEMMA UplinkInitInv == UplinkInit => UplinkInv
<1> SUFFICES ASSUME UplinkInit PROVE UplinkInv
  OBVIOUS
<1>1. RestOK
  BY DEF UplinkInit, RestOK, told
<1>2. DelayOK
  <2>1. /\ delay = [loop \in Loops |-> RETRY_MIN_MS] /\ row = [loop \in Loops |-> 0]
        /\ gap = [loop \in Loops |-> Longest] /\ hollow = 0
    BY DEF UplinkInit
  <2>2. RETRY_MIN_MS \in RETRY_MIN_MS..RETRY_MAX_MS /\ 0 \in 0..MOST /\ Longest \in 0..Longest
    BY RangeType DEF MOST
  <2>3. Up(0, MOST) = 1 /\ Owed(1) = RETRY_MIN_MS
    BY OwedType DEF Up, MOST
  <2> QED BY <2>1, <2>2, <2>3 DEF DelayOK
<1>3. \A loop \in Loops : gap[loop] = Longest /\ row[loop] = 0
  BY DEF UplinkInit
<1>4. Owed(0) = RETRY_MIN_MS
  BY OwedType DEF MOST
<1>5. LinkOK
  BY DEF UplinkInit, LinkOK, SignalIsOfThisLink, At
<1>6. SessionOK
  BY <1>3, <1>4, RangeType DEF UplinkInit, SessionOK, Loops
<1>7. TimeOK
  BY <1>3, <1>4, RangeType DEF UplinkInit, TimeOK, Due, Loops, At
<1>8. NameOK
  BY DEF UplinkInit, NameOK, At
<1> QED BY <1>1, <1>2, <1>5, <1>6, <1>7, <1>8 DEF UplinkInv

\* The invariant holds throughout, whatever the network does.
THEOREM UplinkInvariant == UplinkSpec => []UplinkInv
<1>1. UplinkInv /\ [UplinkNext]_uplinkVars => UplinkInv'
  BY LinkStep, SessionStep, TimeStep, TickStep, OtherStep DEF UplinkNext
<1> QED BY UplinkInitInv, <1>1, PTL DEF UplinkSpec

\* Every variable is of its type, and a signal on record is of a link that is there.
THEOREM UplinkSafety == UplinkSpec => []UplinkSafe
<1>1. UplinkInv => UplinkSafe
  BY DEF UplinkInv, RestOK, DelayOK, LinkOK, SessionOK, TimeOK, NameOK, UplinkSafe, UplinkTypeOK
<1> QED BY <1>1, UplinkInvariant, PTL

\* No loop attempts sooner than its failures in a row let it, and none asks a time
\* server that answered before the interval is over.
THEOREM BacksOff == UplinkSpec => RetriesBackOff
<1>1. UplinkInv /\ [UplinkNext]_uplinkVars =>
          [\A loop \in Loops : Attempts(loop) /\ ~(loop = "wifi" /\ requested) =>
               /\ gap[loop] >= Owed(row[loop])
               /\ (loop = "sntp" /\ row[loop] = 0 => gap[loop] >= RESYNC_INTERVAL_S)]_uplinkVars
  <2> SUFFICES ASSUME UplinkInv, UplinkNext, NEW loop \in Loops,
                      Attempts(loop), ~(loop = "wifi" /\ requested)
               PROVE  /\ gap[loop] >= Owed(row[loop])
                      /\ (loop = "sntp" /\ row[loop] = 0 => gap[loop] >= RESYNC_INTERVAL_S)
    OBVIOUS
  <2>1. DelayOK /\ LinkOK /\ SessionOK /\ TimeOK
    BY DEF UplinkInv
  <2>2. CASE loop = "wifi"
    <3>1. link.at = "waiting" /\ link'.at = "connecting" /\ ~requested
      BY <2>2 DEF Attempts
    <3>2. NextLink
      <4>1. CASE UNCHANGED link
        BY <3>1, <4>1
      <4>2. CASE Tick
        BY <2>1, <3>1, <4>2 DEF Tick, Aged, LinkOK
      <4> QED BY <3>1, <4>1, <4>2
             DEF UplinkNext, LinkWork, Join, Refused, LinkEnds, Sample, Lease, LeaseLapses,
                 SessionWork, StartConnect, Established, SessionEnds, NextSession,
                 TimeWork, Ask, Answered, Unresolved, Unanswered, NoTime, NextQuestion,
                 NameWork, Respond, AddressGone, RespondFails, RespondAgain, Weather, Candidate,
                 tasks
    <3>3. link.for = 0
      BY <3>1, <3>2 DEF NextLink, Waited
    <3>4. gap["wifi"] \in Nat
      BY <2>1, RangeType DEF DelayOK, Loops
    <3> QED BY <2>1, <2>2, <3>1, <3>3, <3>4 DEF LinkOK
  <2>3. CASE loop = "mqtt"
    BY <2>1, <2>3 DEF Attempts, SessionOK
  <2>4. CASE loop = "sntp"
    <3>1. gap["sntp"] >= Due
      BY <2>1, <2>4 DEF Attempts, TimeOK
    <3>2. Owed(0) = RETRY_MIN_MS
      BY OwedType DEF MOST
    <3>3. gap["sntp"] \in Nat
      BY <2>1, RangeType DEF DelayOK, Loops
    <3> QED BY <2>4, <3>1, <3>2, <3>3, RangeType DEF Due
  <2> QED BY <2>2, <2>3, <2>4 DEF Loops
<1> QED BY <1>1, UplinkInvariant, PTL DEF UplinkSpec, RetriesBackOff

-----------------------------------------------------------------------------
(* The repeats of a press (RxDeduper)                                      *)

\* The time that passes is less than the clock takes to come round: 49 days of a u32 of
\* milliseconds. A pair that stays in the map for longer than that could be taken for fresh.
WithinAWrap ==
    /\ IsFiniteSet(Pairs)
    /\ REMEMBERED \in Nat /\ WINDOW \in Nat /\ MODULUS \in Nat /\ MAX_TIME \in Nat
    /\ MAX_TIME < MODULUS

Hearings == [pair : Pairs, at : Nat, through : BOOLEAN]

\* The frames let through, all of them and those of a pair.
AllLetIn == {k \in DOMAIN heard : heard[k].through}
LetIn(pair) == {k \in AllLetIn : heard[k].pair = pair}

\* The time at which the map has a pair let through.
LastIn(pair) == passed - Since(seen[pair])

MapTypes ==
    /\ DOMAIN seen \subseteq Pairs /\ Cardinality(DOMAIN seen) <= REMEMBERED
    /\ \A p \in DOMAIN seen : seen[p] \in 0..(MODULUS - 1)
    /\ now_ms \in 0..(MODULUS - 1) /\ passed \in 0..MAX_TIME

HeardTypes ==
    /\ heard \in Seq(Hearings)
    /\ \A k \in DOMAIN heard : heard[k].at <= passed

\* What the map holds of a pair is when it was last let through.
Remembered ==
    \A p \in DOMAIN seen :
        /\ Since(seen[p]) <= passed
        /\ \E k \in LetIn(p) : heard[k].at = LastIn(p)
        /\ \A k \in LetIn(p) : heard[k].at <= LastIn(p)

\* A pair let through and not in the map has made room for that many others.
CrowdedOut ==
    \A p \in Pairs \ DOMAIN seen : \A k \in LetIn(p) :
        Cardinality(OthersSince(k, Len(heard) + 1)) >= REMEMBERED

DedupeInv ==
    /\ MapTypes
    /\ HeardTypes
    /\ Remembered
    /\ CrowdedOut
    /\ OneEventAPress
    /\ OnlyRepeatsDropped

\* A clock that wraps, near its ends.
LEMMA Wraps ==
    ASSUME NEW m \in Nat, NEW x \in Int, -m < x, x < m
    PROVE  x % m = IF x >= 0 THEN x ELSE x + m
<1>1. CASE x >= 0
  BY <1>1
<1>2. CASE x < 0
  BY <1>2
<1> QED BY <1>1, <1>2

\* What the wrapping clock makes of the time since a pair was let through.
LEMMA SinceIs ==
    ASSUME WithinAWrap, MapTypes, NEW p \in DOMAIN seen
    PROVE  /\ Since(seen[p]) \in 0..(MODULUS - 1)
           /\ Since(seen[p]) = IF now_ms >= seen[p] THEN now_ms - seen[p] ELSE now_ms - seen[p] + MODULUS
BY Wraps DEF Since, WithinAWrap, MapTypes

\* No time has passed since now.
LEMMA SinceNow ==
    ASSUME WithinAWrap, now_ms \in 0..(MODULUS - 1)
    PROVE  Since(now_ms) = 0
BY Wraps DEF Since, WithinAWrap

\* When a frame is let through.
LEMMA LetInIs ==
    ASSUME heard \in Seq(Hearings)
    PROVE  /\ AllLetIn \subseteq 1..Len(heard)
           /\ \A p : LetIn(p) \subseteq AllLetIn
           /\ \A k \in DOMAIN heard : heard[k].pair \in Pairs /\ heard[k].at \in Nat
           /\ \A k \in DOMAIN heard : heard[k].through <=> k \in LetIn(heard[k].pair)
<1>1. DOMAIN heard = 1..Len(heard) /\ \A k \in DOMAIN heard : heard[k] \in Hearings
  OBVIOUS
<1>2. \A k \in DOMAIN heard : heard[k].pair \in Pairs /\ heard[k].at \in Nat
  BY <1>1 DEF Hearings
<1> QED BY <1>1, <1>2, Zenon DEF AllLetIn, LetIn

\* Who else was let through from one frame to another, and the frames let through, of a record.
OthersIn(h, i, j) ==
    {h[k].pair : k \in {k \in 1..(j - 1) : h[k].through /\ h[k].at >= h[i].at}} \ {h[i].pair}
ThroughIn(h) == {k \in DOMAIN h : h[k].through}

\* The pairs, other than that of a frame, let through no earlier than it.
LEMMA OthersAre ==
    ASSUME NEW h \in Seq(Hearings), NEW i \in 1..Len(h), NEW j \in 1..(Len(h) + 1)
    PROVE  \A x : x \in OthersIn(h, i, j) <=>
                /\ x # h[i].pair
                /\ \E k \in ThroughIn(h) : k < j /\ h[k].at >= h[i].at /\ h[k].pair = x
<1> DEFINE K == {k \in 1..(j - 1) : h[k].through /\ h[k].at >= h[i].at}
<1>1. DOMAIN h = 1..Len(h)
  OBVIOUS
<1>2. \A k : k \in 1..(j - 1) <=> k \in 1..Len(h) /\ k < j
  OBVIOUS
<1>3. \A k : k \in K <=> k \in ThroughIn(h) /\ k < j /\ h[k].at >= h[i].at
  BY <1>1, <1>2, Zenon DEF ThroughIn
<1>4. OthersIn(h, i, j) = {h[k].pair : k \in K} \ {h[i].pair}
  BY DEF OthersIn
<1> HIDE DEF K
<1> QED BY <1>3, <1>4

\* The definitions of the state, as operators of the frames heard.
LEMMA OthersNames ==
    /\ \A i, j : OthersSince(i, j) = OthersIn(heard, i, j)
    /\ \A i, j : OthersSince(i, j)' = OthersIn(heard', i, j)
    /\ AllLetIn = ThroughIn(heard) /\ AllLetIn' = ThroughIn(heard')
BY DEF OthersSince, OthersIn, AllLetIn, ThroughIn

\* More of them are more.
LEMMA OthersCount ==
    ASSUME WithinAWrap, NEW h \in Seq(Hearings), NEW i \in 1..Len(h), NEW j \in 1..(Len(h) + 1),
           NEW S \in SUBSET OthersIn(h, i, j)
    PROVE  Cardinality(S) \in Nat /\ Cardinality(S) <= Cardinality(OthersIn(h, i, j))
           /\ Cardinality(OthersIn(h, i, j)) \in Nat
<1>1. \A k \in ThroughIn(h) : h[k].pair \in Pairs
  <2>1. \A k \in DOMAIN h : h[k] \in Hearings
    OBVIOUS
  <2>2. \A k \in DOMAIN h : h[k].pair \in Pairs
    BY <2>1 DEF Hearings
  <2> QED BY <2>2, Zenon DEF ThroughIn
<1>2. OthersIn(h, i, j) \subseteq Pairs
  BY <1>1, OthersAre
<1>3. IsFiniteSet(OthersIn(h, i, j))
  BY <1>2, FS_Subset DEF WithinAWrap
<1> QED BY <1>3, FS_Subset, FS_CardinalityType

\* Time goes by and nothing is heard.
LEMMA LaterKeeps ==
    ASSUME WithinAWrap, DedupeInv, Later
    PROVE  DedupeInv'
<1>1. /\ passed \in 0..MAX_TIME /\ passed < MAX_TIME /\ passed' = passed + 1 /\ seen' = seen
      /\ heard' = heard /\ now_ms \in 0..(MODULUS - 1) /\ MODULUS \in Nat /\ MAX_TIME \in Nat
      /\ MAX_TIME < MODULUS
  BY DEF DedupeInv, MapTypes, Later, WithinAWrap
<1>2. now_ms' = IF now_ms + 1 = MODULUS THEN 0 ELSE now_ms + 1
  BY <1>1 DEF Later
<1>3. MapTypes'
  BY <1>1, <1>2 DEF DedupeInv, MapTypes
<1>4. HeardTypes'
  <2>1. heard \in Seq(Hearings) /\ \A k \in DOMAIN heard : heard[k].at <= passed
    BY DEF DedupeInv, HeardTypes
  <2>2. \A k \in DOMAIN heard : heard[k].at <= passed + 1
    BY <1>1, <2>1, LetInIs
  <2> QED BY <1>1, <2>1, <2>2 DEF HeardTypes
<1>5. ASSUME NEW p \in DOMAIN seen
      PROVE  Since(seen[p])' = Since(seen[p]) + 1 /\ Since(seen[p])' <= passed' /\ LastIn(p)' = LastIn(p)
  <2>1. /\ seen[p] \in 0..(MODULUS - 1) /\ Since(seen[p]) <= passed
        /\ Since(seen[p]) \in 0..(MODULUS - 1)
        /\ Since(seen[p]) = IF now_ms >= seen[p] THEN now_ms - seen[p] ELSE now_ms - seen[p] + MODULUS
    BY SinceIs DEF DedupeInv, MapTypes, Remembered
  <2>2. (Since(seen[p]))' = (now_ms' - seen[p]) % MODULUS
    BY <1>1 DEF Since
  <2>3. (now_ms' - seen[p]) % MODULUS = IF now_ms' >= seen[p] THEN now_ms' - seen[p] ELSE now_ms' - seen[p] + MODULUS
    BY <1>1, <1>2, <2>1, Wraps, SMTT(30)
  <2>4. (Since(seen[p]))' = Since(seen[p]) + 1
    BY <1>1, <1>2, <2>1, <2>2, <2>3
  <2>5. LastIn(p)' = passed' - (Since(seen[p]))' /\ LastIn(p) = passed - Since(seen[p])
    BY DEF LastIn
  <2> QED BY <1>1, <2>1, <2>4, <2>5
<1>6. Remembered'
  <2>1. \A p : LetIn(p)' = LetIn(p)
    BY <1>1 DEF LetIn, AllLetIn
  <2> QED BY <1>1, <1>5, <2>1 DEF DedupeInv, Remembered
<1>7. CrowdedOut' /\ OneEventAPress' /\ OnlyRepeatsDropped'
  BY <1>1 DEF DedupeInv, CrowdedOut, OneEventAPress, OnlyRepeatsDropped, OthersSince, LetIn, AllLetIn
<1> QED BY <1>3, <1>4, <1>6, <1>7 DEF DedupeInv

\* One more frame is heard.
LEMMA OneMore ==
    ASSUME heard \in Seq(Hearings), NEW frame \in Hearings, heard' = Append(heard, frame)
    PROVE  LET n == Len(heard) + 1 IN
           /\ heard' \in Seq(Hearings) /\ Len(heard') = n /\ DOMAIN heard' = 1..n
           /\ DOMAIN heard = 1..Len(heard) /\ Len(heard) \in Nat
           /\ heard'[n] = frame /\ \A k \in 1..Len(heard) : heard'[k] = heard[k]
           /\ \A k \in 1..Len(heard) : k \in AllLetIn' <=> k \in AllLetIn
           /\ \A k \in AllLetIn' : k \in 1..Len(heard) \/ k = n
           /\ n \in AllLetIn' <=> frame.through
           /\ \A p : LetIn(p)' \subseteq IF frame.through /\ frame.pair = p THEN LetIn(p) \cup {n}
                                         ELSE LetIn(p)
           /\ \A p : LetIn(p) \subseteq LetIn(p)'
           /\ frame.through => n \in LetIn(frame.pair)'
<1> DEFINE n == Len(heard) + 1
<1>1. /\ Len(heard) \in Nat /\ DOMAIN heard = 1..Len(heard)
      /\ heard' \in Seq(Hearings) /\ Len(heard') = n /\ DOMAIN heard' = 1..n
      /\ heard'[n] = frame /\ \A k \in 1..Len(heard) : heard'[k] = heard[k]
  OBVIOUS
<1>2. n \notin 1..Len(heard) /\ \A k : k \in 1..n <=> k \in 1..Len(heard) \/ k = n
  BY <1>1
<1> HIDE DEF n
<1>3. /\ \A k \in 1..Len(heard) : k \in AllLetIn' <=> k \in AllLetIn
      /\ \A k \in AllLetIn' : k \in 1..Len(heard) \/ k = n
      /\ n \in AllLetIn' <=> frame.through
      /\ AllLetIn \subseteq 1..Len(heard)
  BY <1>1, <1>2, Zenon DEF AllLetIn
<1>4. ASSUME NEW p
      PROVE  /\ LetIn(p)' \subseteq IF frame.through /\ frame.pair = p THEN LetIn(p) \cup {n} ELSE LetIn(p)
             /\ LetIn(p) \subseteq LetIn(p)'
  BY <1>1, <1>3, Zenon DEF LetIn
<1>5. frame.through => n \in LetIn(frame.pair)'
  <2>1. frame.through => n \in AllLetIn' /\ heard'[n].pair = frame.pair
    BY <1>1, <1>3, Zenon
  <2> QED BY <2>1, Zenon DEF LetIn
<1> QED BY <1>1, <1>3, <1>4, <1>5, Zenon DEF n

\* Who came between two earlier frames is as it was, and more come since one.
LEMMA OthersStay ==
    ASSUME heard \in Seq(Hearings), NEW frame \in Hearings, heard' = Append(heard, frame),
           NEW i \in 1..Len(heard)
    PROVE  /\ \A j \in 1..(Len(heard) + 1) : OthersSince(i, j)' = OthersSince(i, j)
           /\ OthersSince(i, Len(heard) + 1) \subseteq OthersIn(heard', i, Len(heard') + 1)
           /\ frame.through /\ frame.pair # heard[i].pair /\ frame.at >= heard[i].at =>
                frame.pair \in OthersIn(heard', i, Len(heard') + 1)
<1> DEFINE n == Len(heard) + 1
<1>1. /\ heard' \in Seq(Hearings) /\ Len(heard') = n /\ Len(heard) \in Nat /\ heard'[n] = frame
      /\ \A k \in 1..Len(heard) : heard'[k] = heard[k] /\ (k \in AllLetIn' <=> k \in AllLetIn)
      /\ \A k \in AllLetIn' : k \in 1..Len(heard) \/ k = n
      /\ AllLetIn \subseteq 1..Len(heard)
      /\ frame.through => n \in AllLetIn'
  BY OneMore, LetInIs, Zenon
<1>2. ASSUME NEW j \in 1..(n + 1)
      PROVE  \A x : x \in OthersIn(heard', i, j) <=>
                /\ x # heard[i].pair
                /\ \E k \in AllLetIn' : k < j /\ heard'[k].at >= heard[i].at /\ heard'[k].pair = x
  <2>1. i \in 1..Len(heard') /\ j \in 1..(Len(heard') + 1) /\ heard'[i] = heard[i]
    BY <1>1
  <2>2. \A x : x \in OthersIn(heard', i, j) <=>
                /\ x # heard'[i].pair
                /\ \E k \in ThroughIn(heard') : k < j /\ heard'[k].at >= heard'[i].at /\ heard'[k].pair = x
    <3>1. heard' \in Seq(Hearings)
      BY <1>1, Zenon
    <3>2. ASSUME NEW h \in Seq(Hearings), i \in 1..Len(h), j \in 1..(Len(h) + 1), NEW x
          PROVE  x \in OthersIn(h, i, j) <=>
                   /\ x # h[i].pair
                   /\ \E k \in ThroughIn(h) : k < j /\ h[k].at >= h[i].at /\ h[k].pair = x
      BY <3>2, OthersAre
    <3> HIDE DEF n
    <3> QED BY <2>1, <3>1, <3>2, Zenon
  <2> QED BY <2>1, <2>2, OthersNames, Zenon
<1>3. ASSUME NEW j \in 1..n
      PROVE  \A x : x \in OthersIn(heard, i, j) <=>
                /\ x # heard[i].pair
                /\ \E k \in AllLetIn : k < j /\ heard[k].at >= heard[i].at /\ heard[k].pair = x
  BY OthersAre, OthersNames
<1>4. ASSUME NEW j \in 1..n PROVE OthersIn(heard', i, j) = OthersIn(heard, i, j)
  <2>1. n \notin AllLetIn /\ ~(n < j) /\ j \in 1..(n + 1)
    BY <1>1
  <2> HIDE DEF n
  <2>2. ASSUME NEW x, x \in OthersIn(heard', i, j) PROVE x \in OthersIn(heard, i, j)
    <3>1. PICK k \in AllLetIn' : k < j /\ heard'[k].at >= heard[i].at /\ heard'[k].pair = x
      BY <1>2, <2>1, <2>2, Zenon
    <3>2. k \in AllLetIn /\ heard'[k] = heard[k]
      BY <1>1, <2>1, <3>1, Zenon
    <3> QED BY <1>2, <1>3, <2>1, <2>2, <3>1, <3>2, Zenon
  <2>3. ASSUME NEW x, x \in OthersIn(heard, i, j) PROVE x \in OthersIn(heard', i, j)
    <3>1. PICK k \in AllLetIn : k < j /\ heard[k].at >= heard[i].at /\ heard[k].pair = x
      BY <1>3, <2>3, Zenon
    <3>2. k \in AllLetIn' /\ heard'[k] = heard[k]
      BY <1>1, <3>1, Zenon
    <3> QED BY <1>2, <1>3, <2>1, <2>3, <3>1, <3>2, Zenon
  <2> QED BY <2>2, <2>3
<1>5. OthersIn(heard, i, n) \subseteq OthersIn(heard', i, n + 1)
  <2>1. n \in 1..n /\ n + 1 \in 1..(n + 1) /\ \A k \in AllLetIn : k < n + 1
    BY <1>1
  <2> HIDE DEF n
  <2> SUFFICES ASSUME NEW x, x \in OthersIn(heard, i, n) PROVE x \in OthersIn(heard', i, n + 1)
    BY Zenon
  <2>2. PICK k \in AllLetIn : k < n /\ heard[k].at >= heard[i].at /\ heard[k].pair = x
    BY <1>3, <2>1, Zenon
  <2>3. k \in AllLetIn' /\ heard'[k] = heard[k] /\ k < n + 1
    BY <1>1, <2>1, Zenon
  <2> QED BY <1>2, <1>3, <2>1, <2>2, <2>3, Zenon
<1>6. ASSUME frame.through, frame.pair # heard[i].pair, frame.at >= heard[i].at
      PROVE  frame.pair \in OthersIn(heard', i, n + 1)
  <2>1. n \in AllLetIn' /\ n < n + 1 /\ n + 1 \in 1..(n + 1)
    BY <1>1, <1>6
  <2> HIDE DEF n
  <2>2. heard'[n].at >= heard[i].at /\ heard'[n].pair = frame.pair
    BY <1>1, <1>6, Zenon
  <2> QED BY <1>2, <1>6, <2>1, <2>2, Zenon
<1>7. Len(heard') + 1 = n + 1
  BY <1>1, Zenon
<1>8. frame.through /\ frame.pair # heard[i].pair /\ frame.at >= heard[i].at =>
        frame.pair \in OthersIn(heard', i, Len(heard') + 1)
  BY <1>6, <1>7, Zenon
<1>9. /\ \A j \in 1..n : OthersSince(i, j)' = OthersSince(i, j)
      /\ OthersSince(i, n) \subseteq OthersIn(heard', i, Len(heard') + 1)
  <2> HIDE DEF n
  <2> QED BY <1>4, <1>5, <1>7, OthersNames
<1> QED BY <1>8, <1>9, Zenon

\* What a frame must meet, let through or dropped, for a press to be one event.
LEMMA PressesStay ==
    ASSUME DedupeInv, NEW frame \in Hearings, heard' = Append(heard, frame), frame.at = passed,
           frame.through => \A i \in LetIn(frame.pair) :
               passed - heard[i].at >= WINDOW \/ Cardinality(OthersSince(i, Len(heard) + 1)) >= REMEMBERED,
           ~frame.through => \E i \in LetIn(frame.pair) : passed - heard[i].at < WINDOW
    PROVE  OneEventAPress' /\ OnlyRepeatsDropped'
<1> DEFINE n == Len(heard) + 1
<1>1. heard \in Seq(Hearings) /\ OneEventAPress /\ OnlyRepeatsDropped
  BY DEF DedupeInv, HeardTypes
<1>2. /\ DOMAIN heard' = 1..n /\ DOMAIN heard = 1..Len(heard) /\ Len(heard) \in Nat
      /\ heard'[n] = frame /\ \A k \in 1..Len(heard) : heard'[k] = heard[k]
  BY <1>1, OneMore, Zenon
<1>3. /\ \A k \in 1..n : k \in 1..Len(heard) \/ k = n
      /\ \A i, j \in 1..n : i < j => i \in 1..Len(heard)
      /\ \A i \in 1..(n - 1) : i \in 1..Len(heard)
      /\ \A i \in 1..Len(heard) : i \in 1..(n - 1)
      /\ \A j \in 1..Len(heard) : \A i \in 1..(j - 1) : i \in 1..Len(heard)
      /\ \A j \in 1..Len(heard) : j \in 1..(Len(heard) + 1)
      /\ n \in 1..(Len(heard) + 1)
  BY <1>2
<1>4. \A i \in 1..Len(heard), j \in 1..(Len(heard) + 1) : OthersSince(i, j)' = OthersSince(i, j)
  BY <1>1, OthersStay, Zenon
<1>5. \A i \in 1..Len(heard) : heard[i].through <=> i \in LetIn(heard[i].pair)
  BY <1>1, <1>2, LetInIs, Zenon
<1>6. \A p : LetIn(p) \subseteq 1..Len(heard) /\ \A i \in LetIn(p) : heard[i].through /\ heard[i].pair = p
  BY <1>1, LetInIs, Zenon DEF LetIn, AllLetIn
<1> HIDE DEF n
<1>7. OneEventAPress'
  <2> SUFFICES ASSUME NEW i \in 1..n, NEW j \in 1..n, i < j, heard'[i].pair = heard'[j].pair,
                      heard'[i].through, heard'[j].through
               PROVE  \/ heard'[j].at - heard'[i].at >= WINDOW
                      \/ Cardinality(OthersSince(i, j)') >= REMEMBERED
    BY <1>2, Zenon DEF OneEventAPress
  <2>1. i \in 1..Len(heard) /\ heard'[i] = heard[i]
    BY <1>2, <1>3, Zenon
  <2>2. CASE j \in 1..Len(heard)
    <3>1. heard'[j] = heard[j] /\ OthersSince(i, j)' = OthersSince(i, j)
      BY <1>2, <1>3, <1>4, <2>1, <2>2, Zenon
    <3> QED BY <1>1, <1>2, <2>1, <2>2, <3>1, Zenon DEF OneEventAPress
  <2>3. CASE j = n
    <3>1. /\ heard'[j].at = passed /\ i \in LetIn(frame.pair)
          /\ OthersSince(i, j)' = OthersSince(i, n)
      BY <1>2, <1>3, <1>4, <1>5, <2>1, <2>3, Zenon DEF n
    <3> QED BY <1>2, <2>1, <2>3, <3>1, Zenon DEF n
  <2> QED BY <1>3, <2>2, <2>3, Zenon
<1>8. OnlyRepeatsDropped'
  <2> SUFFICES ASSUME NEW j \in 1..n, ~heard'[j].through
               PROVE  \E i \in 1..(j - 1) : /\ heard'[i].pair = heard'[j].pair /\ heard'[i].through
                                            /\ heard'[j].at - heard'[i].at < WINDOW
    BY <1>2, Zenon DEF OnlyRepeatsDropped
  <2>1. CASE j \in 1..Len(heard)
    <3>1. heard'[j] = heard[j]
      BY <1>2, <2>1, Zenon
    <3>2. PICK i \in 1..(j - 1) : /\ heard[i].pair = heard[j].pair /\ heard[i].through
                                  /\ heard[j].at - heard[i].at < WINDOW
      BY <1>1, <1>2, <2>1, <3>1, Zenon DEF OnlyRepeatsDropped
    <3>3. heard'[i] = heard[i]
      BY <1>2, <1>3, <2>1, Zenon
    <3> QED BY <3>1, <3>2, <3>3, Zenon
  <2>2. CASE j = n
    <3>1. PICK i \in LetIn(frame.pair) : passed - heard[i].at < WINDOW
      BY <1>2, <2>2, Zenon
    <3>2. i \in 1..(j - 1) /\ heard'[i] = heard[i] /\ heard[i].through /\ heard[i].pair = frame.pair
      BY <1>2, <1>3, <1>6, <2>2, <3>1, Zenon
    <3>3. heard'[j].at = passed /\ heard'[j].pair = frame.pair
      BY <1>2, <2>2, Zenon
    <3> QED BY <3>1, <3>2, <3>3, Zenon
  <2> QED BY <1>3, <2>1, <2>2, Zenon
<1> QED BY <1>7, <1>8

\* A frame dropped: the map stays, and one more frame was heard.
LEMMA DroppedKeeps ==
    ASSUME WithinAWrap, DedupeInv, NEW pair \in Pairs, Repeated(pair), Accept(pair)
    PROVE  DedupeInv'
<1> DEFINE frame == [pair |-> pair, at |-> passed, through |-> FALSE]
           n == Len(heard) + 1
<1>1. heard \in Seq(Hearings) /\ passed \in Nat /\ \A k \in DOMAIN heard : heard[k].at <= passed
  BY DEF DedupeInv, HeardTypes, MapTypes
<1>2. frame \in Hearings /\ frame.pair = pair /\ frame.at = passed /\ ~frame.through
  BY <1>1 DEF Hearings
<1>3. Repeated(pair) = TRUE
  BY Zenon DEF Repeated
<1>4. heard' = Append(heard, frame) /\ seen' = seen /\ now_ms' = now_ms /\ passed' = passed
  BY <1>3, Zenon DEF Accept
<1> HIDE DEF frame
<1>5. /\ heard' \in Seq(Hearings) /\ Len(heard') = n /\ DOMAIN heard' = 1..n
      /\ DOMAIN heard = 1..Len(heard) /\ Len(heard) \in Nat
      /\ heard'[n] = frame /\ \A k \in 1..Len(heard) : heard'[k] = heard[k]
  BY <1>1, <1>2, <1>4, OneMore, Zenon
<1>6. ASSUME NEW p PROVE LetIn(p)' = LetIn(p)
  <2>1. /\ LetIn(p)' \subseteq IF frame.through /\ frame.pair = p THEN LetIn(p) \cup {n} ELSE LetIn(p)
        /\ LetIn(p) \subseteq LetIn(p)'
    BY <1>1, <1>2, <1>4, OneMore, Zenon
  <2>2. (frame.through /\ frame.pair = p) = FALSE
    BY <1>2, Zenon
  <2>3. LetIn(p)' \subseteq LetIn(p)
    BY <2>1, <2>2, Zenon
  <2> QED BY <2>1, <2>3, Zenon
<1>7. MapTypes'
  BY <1>4 DEF DedupeInv, MapTypes
<1>8. HeardTypes'
  <2>1. \A k \in DOMAIN heard' : k \in DOMAIN heard \/ k = n
    BY <1>5
  <2>2. passed <= passed
    BY <1>1
  <2> QED BY <1>1, <1>2, <1>4, <1>5, <2>1, <2>2, Zenon DEF HeardTypes
<1>9. Remembered'
  <2>1. \A p : LastIn(p)' = LastIn(p) /\ (Since(seen[p]))' = Since(seen[p])
    BY <1>4 DEF LastIn, Since
  <2>2. \A p : \A k \in LetIn(p) : heard'[k] = heard[k]
    BY <1>1, <1>5, LetInIs
  <2> QED BY <1>4, <1>6, <2>1, <2>2 DEF DedupeInv, Remembered
<1>10. CrowdedOut'
  <2> SUFFICES ASSUME NEW p \in Pairs \ DOMAIN seen, NEW k \in LetIn(p)
               PROVE  Cardinality(OthersIn(heard', k, Len(heard') + 1)) >= REMEMBERED
    BY <1>4, <1>6, OthersNames, Zenon DEF CrowdedOut
  <2>1. k \in 1..Len(heard) /\ Len(heard) + 1 \in 1..(Len(heard) + 1)
    BY <1>1, <1>5, LetInIs
  <2>2. OthersSince(k, Len(heard) + 1) \subseteq OthersIn(heard', k, Len(heard') + 1)
    BY <1>1, <1>2, <1>4, <2>1, OthersStay, Zenon
  <2>3. Cardinality(OthersSince(k, Len(heard) + 1)) >= REMEMBERED
    BY DEF DedupeInv, CrowdedOut
  <2>4. k \in 1..Len(heard') /\ Len(heard') + 1 \in 1..(Len(heard') + 1) /\ heard' \in Seq(Hearings)
    BY <1>5, <2>1
  <2> QED BY <2>2, <2>3, <2>4, OthersCount DEF WithinAWrap
<1>11. OneEventAPress' /\ OnlyRepeatsDropped'
  <2>1. \E i \in LetIn(pair) : passed - heard[i].at < WINDOW
    <3>1. pair \in DOMAIN seen /\ Since(seen[pair]) < WINDOW
      BY DEF Repeated
    <3>2. PICK i \in LetIn(pair) : heard[i].at = passed - Since(seen[pair])
      BY <3>1 DEF DedupeInv, Remembered, LastIn
    <3>3. Since(seen[pair]) \in Int
      BY <3>1, SinceIs DEF DedupeInv
    <3> QED BY <1>1, <3>1, <3>2, <3>3
  <2> QED BY <1>2, <1>4, <2>1, PressesStay, Zenon
<1> QED BY <1>7, <1>8, <1>9, <1>10, <1>11 DEF DedupeInv

\* A frame let through, remembered with what the map keeps.
LEMMA LetThrough ==
    ASSUME WithinAWrap, DedupeInv, NEW pair \in Pairs, ~Repeated(pair), Accept(pair),
           NEW kept \in SUBSET DOMAIN seen, Remember(kept, pair),
           pair \in DOMAIN seen => kept = DOMAIN seen,
           Cardinality(kept \cup {pair}) <= REMEMBERED,
           \A p \in DOMAIN seen \ kept :
               /\ p # pair /\ kept = DOMAIN seen \ {p} /\ Cardinality(kept \cup {pair}) = REMEMBERED
               /\ \A q \in DOMAIN seen : Since(seen[q]) <= Since(seen[p])
    PROVE  DedupeInv'
<1> DEFINE frame == [pair |-> pair, at |-> passed, through |-> TRUE]
           n == Len(heard) + 1
<1>1. /\ heard \in Seq(Hearings) /\ passed \in Nat /\ \A k \in DOMAIN heard : heard[k].at <= passed
      /\ now_ms \in 0..(MODULUS - 1) /\ DOMAIN seen \subseteq Pairs
      /\ \A p \in DOMAIN seen : seen[p] \in 0..(MODULUS - 1)
  BY DEF DedupeInv, HeardTypes, MapTypes
<1>2. frame \in Hearings /\ frame.pair = pair /\ frame.at = passed /\ frame.through
  BY <1>1 DEF Hearings
<1>3. Repeated(pair) = FALSE
  BY Zenon DEF Repeated
<1>4. heard' = Append(heard, frame) /\ now_ms' = now_ms /\ passed' = passed
  BY <1>3, Zenon DEF Accept
<1> HIDE DEF frame
<1>5. /\ heard' \in Seq(Hearings) /\ Len(heard') = n /\ DOMAIN heard' = 1..n
      /\ DOMAIN heard = 1..Len(heard) /\ Len(heard) \in Nat
      /\ heard'[n] = frame /\ \A k \in 1..Len(heard) : heard'[k] = heard[k]
      /\ n \in LetIn(pair)'
      /\ \A p : LetIn(p) \subseteq LetIn(p)'
  BY <1>1, <1>2, <1>4, OneMore, Zenon
<1>6. /\ DOMAIN seen' = kept \cup {pair} /\ seen'[pair] = now_ms
      /\ \A p \in kept \ {pair} : seen'[p] = seen[p]
  BY DEF Remember
<1>7. /\ \A p : \A k \in LetIn(p)' : k \in LetIn(p) \/ (k = n /\ p = pair)
      /\ \A p : \A k \in LetIn(p) : k \in 1..Len(heard) /\ heard'[k] = heard[k]
      /\ heard'[n].at = passed /\ n \notin 1..Len(heard)
  <2>1. \A p : LetIn(p)' \subseteq IF frame.through /\ frame.pair = p THEN LetIn(p) \cup {n} ELSE LetIn(p)
    BY <1>1, <1>2, <1>4, OneMore, Zenon
  <2>2. \A p : \A k \in LetIn(p)' : k \in LetIn(p) \/ (k = n /\ p = pair)
    BY <1>2, <2>1, Zenon
  <2>3. \A p : LetIn(p) \subseteq 1..Len(heard)
    BY <1>1, LetInIs
  <2>4. n \notin 1..Len(heard)
    BY <1>5
  <2> QED BY <1>2, <1>5, <2>2, <2>3, <2>4, Zenon
<1>8. MapTypes'
  BY <1>1, <1>4, <1>6 DEF DedupeInv, MapTypes
<1>9. HeardTypes'
  <2>1. \A k \in DOMAIN heard' : k \in DOMAIN heard \/ k = n
    BY <1>5
  <2>2. passed <= passed
    BY <1>1
  <2> QED BY <1>1, <1>2, <1>4, <1>5, <2>1, <2>2, Zenon DEF HeardTypes
<1>10. Remembered'
  <2> SUFFICES ASSUME NEW p \in kept \cup {pair}
               PROVE  /\ (Since(seen[p]))' <= passed
                      /\ \E k \in LetIn(p)' : heard'[k].at = LastIn(p)'
                      /\ \A k \in LetIn(p)' : heard'[k].at <= LastIn(p)'
    BY <1>4, <1>6, Zenon DEF Remembered
  <2>1. LastIn(p)' = passed - (Since(seen[p]))'
    BY <1>4 DEF LastIn
  <2>2. CASE p = pair
    <3>1. (Since(seen[p]))' = 0
      BY <1>1, <1>4, <1>6, <2>2, SinceNow DEF Since
    <3>2. \A k \in LetIn(p)' : heard'[k].at <= passed
      BY <1>4, <1>9, <1>5, <2>2 DEF HeardTypes, LetIn, AllLetIn
    <3> QED BY <1>1, <1>5, <1>7, <2>1, <2>2, <3>1, <3>2
  <2>3. CASE p # pair
    <3>1. p \in DOMAIN seen /\ seen'[p] = seen[p]
      BY <1>6, <2>3
    <3>2. (Since(seen[p]))' = Since(seen[p]) /\ LastIn(p)' = LastIn(p)
      BY <1>4, <3>1 DEF Since, LastIn
    <3>3. /\ Since(seen[p]) <= passed
          /\ \E k \in LetIn(p) : heard[k].at = LastIn(p)
          /\ \A k \in LetIn(p) : heard[k].at <= LastIn(p)
      BY <3>1 DEF DedupeInv, Remembered
    <3>4. (Since(seen[p]))' <= passed
      BY <3>2, <3>3
    <3>5. \E k \in LetIn(p)' : heard'[k].at = LastIn(p)'
      BY <1>5, <1>7, <3>2, <3>3
    <3>6. \A k \in LetIn(p)' : heard'[k].at <= LastIn(p)'
      BY <1>7, <2>3, <3>2, <3>3
    <3> QED BY <3>4, <3>5, <3>6
  <2> QED BY <2>2, <2>3
<1>11. CrowdedOut'
  <2> SUFFICES ASSUME NEW p \in Pairs \ (kept \cup {pair}), NEW k \in LetIn(p)
               PROVE  Cardinality(OthersIn(heard', k, Len(heard') + 1)) >= REMEMBERED
    BY <1>6, <1>7, OthersNames, Zenon DEF CrowdedOut
  <2>1. /\ k \in 1..Len(heard) /\ Len(heard) + 1 \in 1..(Len(heard) + 1)
        /\ k \in 1..Len(heard') /\ Len(heard') + 1 \in 1..(Len(heard') + 1)
        /\ heard[k].pair = p /\ heard[k].at \in Nat
    BY <1>1, <1>5, <1>7, LetInIs DEF LetIn
  <2>2. OthersSince(k, Len(heard) + 1) \subseteq OthersIn(heard', k, Len(heard') + 1)
    BY <1>1, <1>2, <1>4, <2>1, OthersStay, Zenon
  <2>3. CASE p \notin DOMAIN seen
    <3>1. Cardinality(OthersSince(k, Len(heard) + 1)) >= REMEMBERED
      BY <2>3 DEF DedupeInv, CrowdedOut
    <3>2. heard' \in Seq(Hearings)
      BY <1>5 DEF HeardTypes
    <3> DEFINE few == OthersSince(k, Len(heard) + 1)  many == OthersIn(heard', k, Len(heard') + 1)
    <3>3. Cardinality(few) \in Nat /\ Cardinality(few) <= Cardinality(many) /\ Cardinality(many) \in Nat
      BY <2>1, <2>2, <3>2, OthersCount, Zenon
    <3>4. REMEMBERED \in Nat
      BY DEF WithinAWrap
    <3> HIDE DEF few, many
    <3>5. Cardinality(few) >= REMEMBERED => Cardinality(many) >= REMEMBERED
      BY <3>3, <3>4
    <3> QED BY <3>1, <3>5 DEF few, many
  <2>4. CASE p \in DOMAIN seen
    <3>1. /\ kept = DOMAIN seen \ {p} /\ Cardinality(kept \cup {pair}) = REMEMBERED
          /\ \A q \in DOMAIN seen : Since(seen[q]) <= Since(seen[p])
      BY <2>4
    <3>2. heard[k].at <= LastIn(p)
      BY <2>4 DEF DedupeInv, Remembered
    <3>3. passed >= heard[k].at
      BY <1>1, <1>5, <2>1
    <3>4. pair \in OthersIn(heard', k, Len(heard') + 1)
      BY <1>1, <1>2, <1>4, <2>1, <3>3, OthersStay, Zenon
    <3>5. ASSUME NEW q \in kept PROVE q \in OthersSince(k, Len(heard) + 1)
      <4>1. LastIn(q) >= LastIn(p)
        BY <1>1, <2>4, <3>1, SinceIs DEF LastIn, DedupeInv
      <4>2. PICK m \in LetIn(q) : heard[m].at = LastIn(q)
        BY DEF DedupeInv, Remembered
      <4>3. heard[m].at >= heard[k].at
        <5>1. p \in DOMAIN seen /\ q \in DOMAIN seen /\ MapTypes /\ passed \in Int
          BY <1>1, <2>4, <3>1 DEF DedupeInv
        <5>2. Since(seen[p]) \in Int /\ Since(seen[q]) \in Int
          BY <5>1, SinceIs DEF WithinAWrap
        <5>3. PICK a \in Int, b \in Int : a = LastIn(p) /\ b = LastIn(q)
          BY <5>1, <5>2 DEF LastIn
        <5>4. PICK t \in Int : t = heard[k].at
          BY <2>1
        <5>5. t <= a /\ a <= b
          BY <3>2, <4>1, <5>3, <5>4
        <5>6. t <= b
          BY <5>5
        <5> QED BY <4>2, <5>3, <5>4, <5>6
      <4>4. m \in AllLetIn /\ heard[m].pair = q /\ m < Len(heard) + 1 /\ q # heard[k].pair
        BY <1>5, <1>7, <2>1, <3>1 DEF LetIn
      <4>5. q \in OthersIn(heard, k, Len(heard) + 1)
        BY <1>1, <2>1, <4>3, <4>4, OthersAre, OthersNames
      <4> QED BY <4>5, OthersNames
    <3>6. kept \cup {pair} \in SUBSET OthersIn(heard', k, Len(heard') + 1)
      BY <2>2, <3>4, <3>5
    <3> QED BY <1>5, <2>1, <3>1, <3>6, OthersCount DEF WithinAWrap
  <2> QED BY <2>3, <2>4
<1>12. OneEventAPress' /\ OnlyRepeatsDropped'
  <2>1. ASSUME NEW i \in LetIn(pair)
        PROVE  \/ passed - heard[i].at >= WINDOW
               \/ Cardinality(OthersSince(i, Len(heard) + 1)) >= REMEMBERED
    <3>1. CASE pair \in DOMAIN seen
      <4>1. ~(Since(seen[pair]) < WINDOW)
        BY <1>3, <3>1, Zenon DEF Repeated
      <4>2. heard[i].at <= passed - Since(seen[pair])
        BY <3>1 DEF DedupeInv, Remembered, LastIn
      <4>3. Since(seen[pair]) \in Int /\ heard[i].at \in Nat /\ WINDOW \in Nat
        BY <1>1, <1>5, <1>7, <3>1, LetInIs, SinceIs DEF DedupeInv, WithinAWrap
      <4> QED BY <1>1, <4>1, <4>2, <4>3
    <3>2. CASE pair \notin DOMAIN seen
      BY <3>2 DEF DedupeInv, CrowdedOut
    <3> QED BY <3>1, <3>2
  <2> QED BY <1>2, <1>4, <2>1, PressesStay, Zenon
<1> QED BY <1>8, <1>9, <1>10, <1>11, <1>12 DEF DedupeInv

\* Who makes room for whom.
LEMMA PassedKeeps ==
    ASSUME WithinAWrap, DedupeInv, NEW pair \in Pairs, ~Repeated(pair), Accept(pair)
    PROVE  DedupeInv'
<1>1. /\ IsFiniteSet(DOMAIN seen) /\ Cardinality(DOMAIN seen) <= REMEMBERED /\ REMEMBERED \in Nat
      /\ Cardinality(DOMAIN seen) \in Nat
  BY FS_Subset, FS_CardinalityType DEF WithinAWrap, DedupeInv, MapTypes
<1>2. Passed(pair)
  <2>1. Repeated(pair) = FALSE
    BY Zenon DEF Repeated
  <2> QED BY <2>1, Zenon DEF Accept
<1>3. CASE /\ pair \in DOMAIN seen \/ Cardinality(DOMAIN seen) < REMEMBERED
           /\ Remember(DOMAIN seen, pair)
  <2>1. Cardinality(DOMAIN seen \cup {pair}) <= REMEMBERED
    <3>1. Cardinality(DOMAIN seen \cup {pair}) =
             IF pair \in DOMAIN seen THEN Cardinality(DOMAIN seen) ELSE Cardinality(DOMAIN seen) + 1
      BY <1>1, FS_AddElement, Zenon
    <3> QED BY <1>1, <1>3, <3>1
  <2> QED BY <1>3, <2>1, LetThrough, Zenon
<1>4. CASE /\ pair \notin DOMAIN seen /\ Cardinality(DOMAIN seen) = REMEMBERED
           /\ \E oldest \in Oldest : Remember(DOMAIN seen \ {oldest}, pair)
  <2>1. PICK oldest \in Oldest : Remember(DOMAIN seen \ {oldest}, pair)
    BY <1>4
  <2> DEFINE kept == DOMAIN seen \ {oldest}
  <2>2. oldest \in DOMAIN seen /\ \A q \in DOMAIN seen : Since(seen[q]) <= Since(seen[oldest])
    BY DEF Oldest
  <2>3. IsFiniteSet(kept) /\ Cardinality(kept) = REMEMBERED - 1
    BY <1>1, <1>4, <2>2, FS_RemoveElement
  <2>4. Cardinality(kept \cup {pair}) = REMEMBERED
    <3>1. pair \notin kept
      BY <1>4
    <3> HIDE DEF kept
    <3>2. Cardinality(kept \cup {pair}) =
             IF pair \in kept THEN Cardinality(kept) ELSE Cardinality(kept) + 1
      BY <2>3, FS_AddElement, Zenon
    <3> QED BY <1>1, <2>3, <3>1, <3>2
  <2>5. /\ kept \in SUBSET DOMAIN seen /\ Remember(kept, pair)
        /\ Cardinality(kept \cup {pair}) <= REMEMBERED
        /\ \A p \in DOMAIN seen \ kept : p = oldest
    BY <1>1, <2>1, <2>4
  <2>6. oldest # pair
    BY <1>4, <2>2
  <2> HIDE DEF kept
  <2>7. \A p \in DOMAIN seen \ kept :
           /\ p # pair /\ kept = DOMAIN seen \ {p} /\ Cardinality(kept \cup {pair}) = REMEMBERED
           /\ \A q \in DOMAIN seen : Since(seen[q]) <= Since(seen[p])
    BY <2>2, <2>4, <2>5, <2>6 DEF kept
  <2> QED BY <1>4, <2>5, <2>7, LetThrough, Zenon
<1> QED BY <1>2, <1>3, <1>4, Zenon DEF Passed

\* A map that holds nothing, before anything is heard.
LEMMA DedupeStarts ==
    ASSUME WithinAWrap, DedupeInit
    PROVE  DedupeInv
<1>1. /\ seen = <<>> /\ heard = <<>> /\ passed = 0 /\ now_ms \in 0..(MODULUS - 1)
      /\ DOMAIN seen = {} /\ DOMAIN heard = {} /\ heard \in Seq(Hearings)
  BY DEF DedupeInit
<1>2. MapTypes
  BY <1>1, FS_EmptySet DEF MapTypes, WithinAWrap
<1>3. LetIn(0) = {} /\ \A p : LetIn(p) = {}
  BY <1>1 DEF LetIn, AllLetIn
<1> QED BY <1>1, <1>2, <1>3 DEF DedupeInv, HeardTypes, Remembered, CrowdedOut, OneEventAPress, OnlyRepeatsDropped

\* Nothing is lost where nothing is heard.
LEMMA DedupeStutters ==
    ASSUME DedupeInv, UNCHANGED dedupeVars
    PROVE  DedupeInv'
<1>1. seen' = seen /\ now_ms' = now_ms /\ passed' = passed /\ heard' = heard
  BY DEF dedupeVars
<1>2. MapTypes' /\ HeardTypes'
  BY <1>1 DEF DedupeInv, MapTypes, HeardTypes
<1>3. \A p : LetIn(p)' = LetIn(p) /\ LastIn(p)' = LastIn(p) /\ (Since(seen[p]))' = Since(seen[p])
  BY <1>1, Zenon DEF LetIn, AllLetIn, LastIn, Since
<1>4. Remembered'
  BY <1>1, <1>3, Zenon DEF DedupeInv, Remembered
<1>5. CrowdedOut' /\ OneEventAPress' /\ OnlyRepeatsDropped'
  BY <1>1 DEF DedupeInv, CrowdedOut, OneEventAPress, OnlyRepeatsDropped, OthersSince, LetIn, AllLetIn
<1> QED BY <1>2, <1>4, <1>5 DEF DedupeInv

\* Over a time shorter than the millisecond clock takes to come round, wherever it stood at the
\* start, a press is one event and two presses are two (somfy-rts dedupe.rs, accept and
\* evict_oldest): for any number of remotes, places in the map, presses and repeats.
THEOREM DedupeSafety ==
    ASSUME WithinAWrap
    PROVE  DedupeSpec => []DedupeSafe
<1>1. DedupeInit => DedupeInv
  BY DedupeStarts
<1>2. DedupeInv /\ [DedupeNext]_dedupeVars => DedupeInv'
  BY DedupeStutters, LaterKeeps, DroppedKeeps, PassedKeeps, Zenon DEF DedupeNext
<1>3. DedupeInv => DedupeSafe
  BY Zenon DEF DedupeInv, DedupeSafe, DedupeTypeOK, MapTypes
<1> QED BY <1>1, <1>2, <1>3, PTL DEF DedupeSpec

-----------------------------------------------------------------------------
(* The radio task (RadioLoop)                                              *)

\* The transceiver is keyed exactly while a request is on the air.
Keying ==
    /\ chip \in Modes
    /\ sending # {} => chip = "tx"
    /\ NeverDeaf

\* A request of which no more than its frames are sent.
Started(tx) ==
    /\ tx \in [request : Requests, sent : Nat]
    /\ tx.sent <= tx.request.repeats

\* The requests that are asked, taken and sent.
Requested ==
    /\ queue \in Seq(Requests) /\ Len(queue) <= TXN
    /\ \A tx \in sending : Started(tx)

\* A decoder, between frames and inside one.
Shapes ==
    [state : {"waiting", "data"}, syncs : 0..HW_SYNCS_MAX, length : {Narrow, Wide},
     payload : Seq({0, 1}), half : BOOLEAN]

Decoders ==
    {d \in Shapes :
        /\ d.state = "data" => Len(d.payload) < d.length
        /\ d.state = "waiting" => ~d.half}

Published ==
    /\ frames \in Seq(Payloads) /\ Len(frames) <= RXN
    /\ event.tag \in Tags \cup {Quiet.tag}

\* A sequence, whatever of.
Sequence(s) == Len(s) \in Nat /\ s = [i \in 1..Len(s) |-> s[i]]

\* What was measured, up to where it was looked at.
Receiving == decoder \in Decoders /\ Sequence(burst)

RadioInv == Keying /\ Requested /\ Receiving /\ Published

\* A set of natural numbers that is not empty has a least one.
LEMMA Least ==
    ASSUME NEW S \in SUBSET Nat, S # {}
    PROVE  \E m \in S : \A n \in S : m <= n
<1>1. PICK m \in S : \A n \in S : ~(<<n, m>> \in OpToRel(<, Nat))
  BY WFMin, NatLessThanWellFounded
<1>2. \A n \in S : ~(n < m)
  BY <1>1 DEF OpToRel
<1> QED BY <1>2

\* The sync counter stays in its byte.
LEMMA Counts ==
    ASSUME NEW n \in 0..HW_SYNCS_MAX
    PROVE  Min({n + 1, HW_SYNCS_MAX}) \in 0..HW_SYNCS_MAX
<1>1. \E x \in {n + 1, HW_SYNCS_MAX} : \A y \in {n + 1, HW_SYNCS_MAX} : x <= y
  BY DEF HW_SYNCS_MAX
<1>2. /\ Min({n + 1, HW_SYNCS_MAX}) \in {n + 1, HW_SYNCS_MAX}
      /\ \A y \in {n + 1, HW_SYNCS_MAX} : Min({n + 1, HW_SYNCS_MAX}) <= y
  BY <1>1 DEF Min
<1> QED BY <1>2 DEF HW_SYNCS_MAX

\* What a decoder becomes by one pulse, before it is looked at whether a frame is complete.
Pushed ==
    {d \in Shapes :
        /\ d.state = "data" => Len(d.payload) <= d.length
        /\ d.state = "waiting" => ~d.half}

\* A new decoder is between frames.
LEMMA NewIsDecoder == NewDecoder \in Decoders /\ NewDecoder \in Pushed
BY WidthAssumption DEF NewDecoder, Decoders, Pushed, HW_SYNCS_MAX, Shapes

\* A pulse leaves a decoder with no more bits than its frame has.
LEMMA PushTypes ==
    ASSUME NEW d \in Decoders, NEW p
    PROVE  PushPulse(d, p) \in Pushed
<1>1. /\ d.state \in {"waiting", "data"} /\ d.syncs \in 0..HW_SYNCS_MAX
      /\ d.length \in {Narrow, Wide} /\ d.payload \in Seq({0, 1}) /\ d.half \in BOOLEAN
      /\ d.state = "data" => Len(d.payload) < d.length
      /\ d.state = "waiting" => ~d.half
      /\ d = [state |-> d.state, syncs |-> d.syncs, length |-> d.length, payload |-> d.payload,
              half |-> d.half]
  BY DEF Decoders, Shapes
<1>2. d.state = "waiting" => WaitingSync(d, p) \in Pushed
  <2>1. CASE Within(p.micros, HW_SYNC_HALF)
    BY <1>1, <2>1, Counts DEF WaitingSync, Pushed, Shapes
  <2>2. CASE /\ ~Within(p.micros, HW_SYNC_HALF)
             /\ d.syncs >= MIN_HW_SYNCS /\ p.high /\ Within(p.micros, SW_SYNC_HIGH)
    <3>1. PICK length \in {Narrow, Wide} : length = DetectBitLength(d.syncs)
      BY DEF DetectBitLength
    <3>2. [state |-> "data", syncs |-> 0, length |-> length, payload |-> <<>>, half |-> FALSE] \in Pushed
      BY <3>1, WidthAssumption DEF Pushed, HW_SYNCS_MAX, Shapes
    <3>3. WaitingSync(d, p) = [d EXCEPT !.state = "data", !.length = length, !.syncs = 0,
                                        !.payload = <<>>, !.half = FALSE]
      BY <2>2, <3>1, Zenon DEF WaitingSync
    <3>4. WaitingSync(d, p) = [state |-> "data", syncs |-> 0, length |-> length,
                               payload |-> <<>>, half |-> FALSE]
      BY <1>1, <3>3
    <3> QED BY <3>2, <3>4
  <2>3. CASE /\ ~Within(p.micros, HW_SYNC_HALF)
             /\ ~(d.syncs >= MIN_HW_SYNCS /\ p.high /\ Within(p.micros, SW_SYNC_HIGH))
    BY <1>1, <2>3, WidthAssumption DEF WaitingSync, Pushed, HW_SYNCS_MAX, Shapes
  <2> QED BY <2>1, <2>2, <2>3
<1>3. d.state = "data" => StoreBit(d, p) \in Pushed
  <2>1. PICK bit \in {0, 1} : bit = IF p.high THEN 0 ELSE 1
    OBVIOUS
  <2>2. StoreBit(d, p) = [d EXCEPT !.payload = Append(d.payload, bit), !.half = FALSE]
    BY <1>1, <2>1 DEF StoreBit
  <2>3. d.state = "data" => Len(Append(d.payload, bit)) <= d.length /\ Append(d.payload, bit) \in Seq({0, 1})
    BY <1>1, WidthAssumption
  <2> QED BY <1>1, <2>2, <2>3 DEF Pushed, Shapes
<1>4. d.state = "data" => [d EXCEPT !.half = TRUE] \in Pushed
  <2> SUFFICES ASSUME d.state = "data" PROVE [d EXCEPT !.half = TRUE] \in Pushed
    OBVIOUS
  <2> DEFINE e == [d EXCEPT !.half = TRUE]
  <2>1. d \in Shapes
    BY DEF Decoders, Shapes
  <2>2. e \in Shapes
    BY <2>1 DEF Shapes
  <2>3. e.state = d.state /\ e.payload = d.payload /\ e.length = d.length
    BY <2>1 DEF Shapes
  <2> HIDE DEF e
  <2>4. Len(e.payload) <= e.length
    BY <1>1, <2>3, WidthAssumption
  <2>5. e.state = "data"
    BY <2>3
  <2>6. e \in Pushed
    BY <2>2, <2>4, <2>5, Zenon DEF Pushed
  <2> QED BY <2>6 DEF e
<1>5. d.state = "data" => ReceivingData(d, p) \in Pushed
  BY <1>3, <1>4, NewIsDecoder DEF ReceivingData
<1> QED BY <1>1, <1>2, <1>5 DEF PushPulse

\* A completed frame leaves a new decoder.
LEMMA CompleteTypes ==
    ASSUME NEW d \in Pushed, NEW left
    PROVE  Complete(d, left).decoder \in Decoders
<1>1. CASE d.state = "data" /\ Len(d.payload) = d.length
  BY <1>1, NewIsDecoder DEF Complete
<1>2. CASE ~(d.state = "data" /\ Len(d.payload) = d.length)
  <2>1. d.state = "data" => Len(d.payload) < d.length
    BY <1>2, WidthAssumption DEF Pushed, Shapes
  <2>2. d \in Decoders
    BY <2>1 DEF Pushed, Decoders, Shapes
  <2> QED BY <1>2, <2>2 DEF Complete
<1> QED BY <1>1, <1>2

\* A sequence of a set is one.
LEMMA TypedIsSequence ==
    ASSUME NEW S, NEW s \in Seq(S)
    PROVE  Sequence(s)
<1>1. Len(s) \in Nat /\ s = [i \in 1..Len(s) |-> s[i]]
  OBVIOUS
<1> QED BY <1>1, Zenon DEF Sequence

\* What a pump has come to after so many of the pulses: while no frame is complete, the rest
\* of them is left.
Underway(s, left) ==
    /\ s.decoder \in Decoders
    /\ Sequence(s.left)
    /\ s.bits = {} => Len(s.left) = left

\* Each pulse keeps what a pump has come to.
LEMMA PumpedTypes ==
    ASSUME NEW s, NEW left \in Nat, Underway(s, left + 1), NEW p
    PROVE  Underway(Pumped(s, p), left)
<1>1. Only({Complete(d, Tail(s.left)) : d \in {PushPulse(s.decoder, p)}}) = Complete(PushPulse(s.decoder, p), Tail(s.left))
  BY DEF Only
<1>2. CASE s.bits # {}
  <2>1. Pumped(s, p) = s
    BY <1>2 DEF Pumped
  <2> QED BY <1>2, <2>1 DEF Underway
<1>3. CASE s.bits = {}
  <2> DEFINE d == PushPulse(s.decoder, p)  rest == Tail(s.left)
  <2>1. Pumped(s, p) = Complete(d, rest)
    BY <1>1, <1>3 DEF Pumped
  <2>2. Sequence(rest) /\ Len(rest) = left
    <3>1. Len(s.left) = left + 1 /\ s.left = [i \in 1..(left + 1) |-> s.left[i]]
      BY <1>3 DEF Underway, Sequence
    <3>2. s.left \in Seq({s.left[i] : i \in 1..(left + 1)})
      BY <3>1
    <3>3. rest \in Seq({s.left[i] : i \in 1..(left + 1)}) /\ Len(rest) = left
      BY <3>1, <3>2, SMTT(30)
    <3> QED BY <3>3, TypedIsSequence
  <2>3. d \in Pushed
    BY PushTypes DEF Underway
  <2>4. Complete(d, rest).decoder \in Decoders
    BY <2>3, CompleteTypes
  <2>5. Complete(d, rest).left = rest
    BY DEF Complete
  <2> QED BY <2>1, <2>2, <2>4, <2>5 DEF Underway
<1> QED BY <1>2, <1>3

\* What a pulse makes of what a pump has come to.
PumpedBy(S, pulse) == {Pumped(s, p) : s \in S, p \in {pulse}}

Runs(at, start, pulses, upto) ==
    at = [i \in 0..upto |-> IF i = 0 THEN {start} ELSE PumpedBy(at[i - 1], pulses[i])]

\* A burst of any length is pumped to an end (the least length for which it were not leads to a
\* contradiction).
LEMMA PumpExists ==
    ASSUME NEW start, NEW pulses, NEW upto \in Nat
    PROVE  \E at : Runs(at, start, pulses, upto)
<1> DEFINE Turn(at, i) ==
               IF i = 0 THEN {start} ELSE PumpedBy(at[i - 1], pulses[i])
           Defined(k) == \E at : at = [i \in 0..k |-> Turn(at, i)]
           bad == {k \in Nat : ~Defined(k)}
<1>1. SUFFICES ASSUME bad # {} PROVE FALSE
  BY DEF Runs
<1>2. PICK k \in bad : \A j \in bad : k <= j
  BY <1>1, Least
<1>3. k # 0
  <2>1. [i \in 0..0 |-> {start}] = [i \in 0..0 |-> Turn([j \in 0..0 |-> {start}], i)]
    OBVIOUS
  <2>2. Defined(0)
    BY <2>1
  <2> QED BY <1>2, <2>2
<1>4. k - 1 \in Nat /\ k - 1 \notin bad
  <2>1. k \in Nat
    BY <1>2
  <2> HIDE DEF bad
  <2>2. k - 1 \in Nat /\ ~(k <= k - 1)
    BY <2>1, <1>3
  <2> QED BY <2>2, <1>2
<1>5. PICK old : old = [i \in 0..(k - 1) |-> Turn(old, i)]
  BY <1>4
<1> DEFINE new == [i \in 0..k |->
                      IF i = k THEN PumpedBy(old[k - 1], pulses[k]) ELSE old[i]]
<1>6. ASSUME NEW i \in 0..k PROVE new[i] = Turn(new, i)
  <2>1. CASE i = k
    BY <2>1, <1>3, <1>4
  <2>2. CASE i # k
    <3>1. i \in 0..(k - 1) /\ new[i] = old[i]
      BY <2>2, <1>4
    <3>3. old[i] = Turn(old, i)
      BY <1>5, <3>1
    <3>2. i # 0 => i - 1 \in 0..k /\ i - 1 # k /\ new[i - 1] = old[i - 1]
      BY <3>1
    <3> QED BY <3>1, <3>2, <3>3
  <2> QED BY <2>1, <2>2
<1>7. new = [i \in 0..k |-> Turn(new, i)]
  BY <1>6
<1>8. Defined(k)
  BY <1>7
<1>9. FALSE
  BY <1>2, <1>8
<1> QED BY <1>9 DEF Runs

\* Whatever is received, cut anywhere, leaves a decoder between frames or inside one.
LEMMA PumpTypes ==
    ASSUME NEW d, d \in Decoders, NEW pulses, Sequence(pulses), NEW r, r \in Pump(d, pulses)
    PROVE  r.decoder \in Decoders /\ Sequence(r.left)
<1> DEFINE at[i \in 0..Len(pulses)] ==
               IF i = 0 THEN {Complete(d, pulses)}
               ELSE PumpedBy(at[i - 1], pulses[i])
           Typed(i) == \A x \in at[i] : Underway(x, Len(pulses) - i)
           bad == {i \in 0..Len(pulses) : ~Typed(i)}
<1>0. Len(pulses) \in Nat
  BY DEF Sequence
<1>1. at = [i \in 0..Len(pulses) |->
               IF i = 0 THEN {Complete(d, pulses)}
               ELSE PumpedBy(at[i - 1], pulses[i])]
  <2>1. \E g : Runs(g, Complete(d, pulses), pulses, Len(pulses))
    BY <1>0, PumpExists, Zenon
  <2>2. at = CHOOSE g : Runs(g, Complete(d, pulses), pulses, Len(pulses))
    BY DEF Runs
  <2> HIDE DEF at
  <2>3. Runs(at, Complete(d, pulses), pulses, Len(pulses))
    BY <2>1, <2>2, Zenon
  <2> QED BY <2>3 DEF Runs
<1>2. Pump(d, pulses) = at[Len(pulses)]
  BY DEF Pump, Through, PumpedBy
<1> HIDE DEF at
<1>3. Typed(0)
  <2>1. d \in Pushed
    BY WidthAssumption DEF Decoders, Pushed, Shapes
  <2>2. Complete(d, pulses).decoder \in Decoders
    BY <2>1, CompleteTypes
  <2>3. Complete(d, pulses).left = pulses
    BY DEF Complete
  <2>4. at[0] = {Complete(d, pulses)}
    BY <1>0, <1>1
  <2> QED BY <1>0, <2>2, <2>3, <2>4 DEF Underway
<1>4. bad = {}
  <2>1. SUFFICES ASSUME bad # {} PROVE FALSE
    OBVIOUS
  <2>2. PICK i \in bad : \A j \in bad : i <= j
    <3>1. bad \in SUBSET Nat
      BY <1>0
    <3> QED BY <2>1, <3>1, Least
  <2>3. i # 0
    BY <1>3, <2>2
  <2>4. i \in 0..Len(pulses) /\ i - 1 \in 0..Len(pulses) /\ i - 1 \notin bad
    <3>1. i \in 0..Len(pulses)
      BY <2>2
    <3> HIDE DEF bad
    <3>2. i - 1 \in 0..Len(pulses) /\ ~(i <= i - 1)
      BY <1>0, <2>3, <3>1
    <3> QED BY <2>2, <3>1, <3>2
  <2>5. at[i] = PumpedBy(at[i - 1], pulses[i])
    BY <1>1, <2>3, <2>4
  <2>6. Typed(i - 1)
    BY <2>4
  <2>7. ASSUME NEW x \in at[i] PROVE Underway(x, Len(pulses) - i)
    <3>1. PICK s \in at[i - 1] : x = Pumped(s, pulses[i])
      BY <2>5 DEF PumpedBy
    <3> DEFINE left == Len(pulses) - i
    <3>2. left \in Nat /\ left + 1 = Len(pulses) - (i - 1)
      BY <1>0, <2>4
    <3>3. Underway(s, left + 1)
      BY <2>6, <3>2
    <3> HIDE DEF left
    <3>4. Underway(Pumped(s, pulses[i]), left)
      BY <3>2, <3>3, PumpedTypes
    <3> QED BY <3>1, <3>4 DEF left
  <2> QED BY <2>2, <2>7
<1>5. Typed(Len(pulses))
  BY <1>0, <1>4
<1> QED BY <1>2, <1>5 DEF Underway

\* A stretch of anything is a sequence.
LEMMA StretchIsSequence ==
    ASSUME NEW s, NEW from \in Int, NEW to \in Int
    PROVE  Sequence(SubSeq(s, from, to))
<1> DEFINE count == IF to - from + 1 < 0 THEN 0 ELSE to - from + 1
<1>1. SubSeq(s, from, to) = [i \in 1..count |-> s[i + from - 1]]
  OBVIOUS
<1>2. count \in Nat
  OBVIOUS
<1> HIDE DEF count
<1> DEFINE stretch == [i \in 1..count |-> s[i + from - 1]]
<1>3. stretch = [i \in 1..count |-> stretch[i]]
  OBVIOUS
<1> HIDE DEF stretch
<1>4. stretch \in Seq({stretch[i] : i \in 1..count})
  BY <1>2, <1>3
<1>5. Sequence(stretch)
  BY <1>4, TypedIsSequence
<1> QED BY <1>1, <1>5 DEF stretch

\* What a receiver measures of a signal is a sequence of pulses.
LEMMA MeasuredIsSequence ==
    ASSUME NEW symbols, Len(symbols) \in 0..MAX_SYMBOLS
    PROVE  Sequence(FromPulseCode(symbols))
<1> DEFINE count == 2 * Len(symbols)
           entries == [i \in 1..count |-> symbols[(i + 1) \div 2][2 - (i % 2)]]
           ends == {i \in 1..count : entries[i].micros = 0}
           last == IF ends = {} THEN count ELSE Min(ends) - 1
<1>1. count \in Nat
  BY DEF MAX_SYMBOLS
<1>2. last \in Int
  <2>1. ends \in SUBSET Nat
    BY <1>1
  <2> HIDE DEF ends, count
  <2>2. ends # {} => Min(ends) \in Nat
    BY <2>1, Least DEF Min
  <2> QED BY <1>1, <2>2
<1>3. Unpack(symbols) = SubSeq(entries, 1, last)
  BY DEF Unpack
<1> HIDE DEF entries, last
<1>4. Sequence(Unpack(symbols))
  BY <1>2, <1>3, StretchIsSequence
<1>5. Len(Unpack(symbols)) - 1 \in Int
  BY <1>4 DEF Sequence
<1>6. Sequence(Front(Unpack(symbols)))
  BY <1>5, StretchIsSequence DEF Front
<1> QED BY <1>4, <1>6 DEF FromPulseCode

-----------------------------------------------------------------------------
(* A frame on the air (RtsSignal)                                          *)

\* Pulses as they are played.
Pulses == [high : BOOLEAN, micros : Nat \ {0}]

\* What joining neighbours has come to after each of the pulses.
Joins(h, pulses, upto) ==
    h[0] = <<>> /\ \A j \in 1..upto : h[j] = Joined(h[j - 1], pulses[j])

\* What a pulse makes of what joining neighbours has come to.
JoinedBy(S, pulse) == {Joined(merged, p) : merged \in S, p \in {pulse}}

JoinRuns(at, pulses, upto) ==
    at = [i \in 0..upto |-> IF i = 0 THEN {<<>>} ELSE JoinedBy(at[i - 1], pulses[i])]

\* What is joined one pulse after the other is the merged signal.
LEMMA MergeIs ==
    ASSUME NEW pulses, Len(pulses) \in Nat, NEW h, Joins(h, pulses, Len(pulses))
    PROVE  Merge(pulses) = h[Len(pulses)]
<1> DEFINE n == Len(pulses)
           at[i \in 0..n] == IF i = 0 THEN {<<>>} ELSE JoinedBy(at[i - 1], pulses[i])
<1>1. PICK turns : turns = [i \in 0..n |-> {h[i]}]
  OBVIOUS
<1>2. JoinRuns(turns, pulses, n)
  <2>1. ASSUME NEW i \in 0..n
        PROVE  {h[i]} = IF i = 0 THEN {<<>>} ELSE JoinedBy(turns[i - 1], pulses[i])
    <3>1. CASE i = 0
      BY <3>1 DEF Joins
    <3>2. CASE i # 0
      <4>1. i \in 1..n /\ i - 1 \in 0..n
        BY <3>2
      <4>2. h[i] = Joined(h[i - 1], pulses[i]) /\ turns[i - 1] = {h[i - 1]}
        BY <1>1, <4>1 DEF Joins
      <4>3. JoinedBy({h[i - 1]}, pulses[i]) = {Joined(h[i - 1], pulses[i])}
        BY DEF JoinedBy
      <4> QED BY <3>2, <4>2, <4>3
    <3> QED BY <3>1, <3>2
  <2> QED BY <1>1, <2>1 DEF JoinRuns
<1>4. at = [i \in 0..n |-> IF i = 0 THEN {<<>>} ELSE JoinedBy(at[i - 1], pulses[i])]
  <2>2. at = CHOOSE g : JoinRuns(g, pulses, n)
    BY DEF JoinRuns
  <2> HIDE DEF at
  <2>3. JoinRuns(at, pulses, n)
    BY <1>2, <2>2, Zenon
  <2> QED BY <2>3 DEF JoinRuns
<1>7. Merge(pulses) = Only(at[n])
  BY DEF Merge, Through, JoinedBy
<1> HIDE DEF at
<1> DEFINE bad == {i \in 0..n : at[i] # {h[i]}}
<1>5. bad = {}
  <2> SUFFICES ASSUME bad # {} PROVE FALSE
    OBVIOUS
  <2>1. PICK i \in bad : \A j \in bad : i <= j
    <3>1. bad \in SUBSET Nat
      OBVIOUS
    <3> QED BY <3>1, Least
  <2>2. i \in 0..n
    BY <2>1
  <2>3. i # 0
    <3>1. at[0] = {<<>>}
      BY <1>4
    <3> QED BY <2>1, <3>1 DEF Joins
  <2>4. i \in 1..n /\ i - 1 \in 0..n /\ ~(i <= i - 1)
    BY <2>2, <2>3
  <2>5. at[i - 1] = {h[i - 1]}
    BY <2>1, <2>4
  <2>6. at[i] = JoinedBy({h[i - 1]}, pulses[i])
    BY <1>4, <2>2, <2>3, <2>5
  <2>7. JoinedBy({h[i - 1]}, pulses[i]) = {Joined(h[i - 1], pulses[i])}
    BY DEF JoinedBy
  <2>8. at[i] = {h[i]}
    BY <2>4, <2>6, <2>7 DEF Joins
  <2> QED BY <2>1, <2>8
<1>6. at[n] = {h[n]}
  BY <1>5
<1> QED BY <1>6, <1>7 DEF Only

\* What a pump has come to, but for the pulses it has left.
Felt(s, p) ==
    IF s.bits # {} THEN s
    ELSE [decoder |-> Complete(PushPulse(s.decoder, p), <<>>).decoder,
          bits |-> Complete(PushPulse(s.decoder, p), <<>>).bits]

Unfelt(d) == [decoder |-> d, bits |-> {}]

Feels(w, d, pulses, upto) ==
    w[0] = Unfelt(d) /\ \A j \in 1..upto : w[j] = Felt(w[j - 1], pulses[j])

\* A pump comes to what its decoder makes of the pulses, one after the other.
LEMMA PumpFeels ==
    ASSUME NEW d, d \in Decoders, NEW pulses, Sequence(pulses),
           NEW w, Feels(w, d, pulses, Len(pulses))
    PROVE  \E r : Pump(d, pulses) = {r} /\ r.bits = w[Len(pulses)].bits
<1> DEFINE at[i \in 0..Len(pulses)] ==
               IF i = 0 THEN {Complete(d, pulses)}
               ELSE PumpedBy(at[i - 1], pulses[i])
           Same(x, s) == x.decoder = s.decoder /\ x.bits = s.bits
           Goes(i) == \E x : at[i] = {x} /\ Same(x, w[i])
           bad == {i \in 0..Len(pulses) : ~Goes(i)}
<1>0. Len(pulses) \in Nat
  BY DEF Sequence
<1>1. at = [i \in 0..Len(pulses) |->
               IF i = 0 THEN {Complete(d, pulses)}
               ELSE PumpedBy(at[i - 1], pulses[i])]
  <2>1. \E g : Runs(g, Complete(d, pulses), pulses, Len(pulses))
    BY <1>0, PumpExists, Zenon
  <2>2. at = CHOOSE g : Runs(g, Complete(d, pulses), pulses, Len(pulses))
    BY DEF Runs
  <2> HIDE DEF at
  <2>3. Runs(at, Complete(d, pulses), pulses, Len(pulses))
    BY <2>1, <2>2, Zenon
  <2> QED BY <2>3 DEF Runs
<1>2. Pump(d, pulses) = at[Len(pulses)]
  BY DEF Pump, Through, PumpedBy
<1> HIDE DEF at
<1>3. Goes(0)
  <2>1. ~(d.state = "data" /\ Len(d.payload) = d.length)
    BY WidthAssumption DEF Decoders, Shapes
  <2>2. Same(Complete(d, pulses), Unfelt(d))
    BY <2>1 DEF Complete, Unfelt
  <2>3. at[0] = {Complete(d, pulses)} /\ w[0] = Unfelt(d)
    BY <1>0, <1>1 DEF Feels
  <2> QED BY <2>2, <2>3
<1>4. bad = {}
  <2>1. SUFFICES ASSUME bad # {} PROVE FALSE
    OBVIOUS
  <2>2. PICK i \in bad : \A j \in bad : i <= j
    <3>1. bad \in SUBSET Nat
      BY <1>0
    <3> QED BY <2>1, <3>1, Least
  <2>3. i # 0
    BY <1>3, <2>2
  <2>4. i \in 1..Len(pulses) /\ i \in 0..Len(pulses) /\ i - 1 \in 0..Len(pulses) /\ i - 1 \notin bad
    <3>1. i \in 0..Len(pulses)
      BY <2>2
    <3> HIDE DEF bad
    <3>2. i \in 1..Len(pulses) /\ i - 1 \in 0..Len(pulses) /\ ~(i <= i - 1)
      BY <1>0, <2>3, <3>1
    <3> QED BY <2>2, <3>1, <3>2
  <2>5. at[i] = PumpedBy(at[i - 1], pulses[i])
    BY <1>1, <2>3, <2>4
  <2>6. PICK x : at[i - 1] = {x} /\ Same(x, w[i - 1])
    BY <2>4
  <2>7. at[i] = {Pumped(x, pulses[i])}
    BY <2>5, <2>6 DEF PumpedBy
  <2>8. w[i] = Felt(w[i - 1], pulses[i])
    BY <2>4 DEF Feels
  <2>9. Same(Pumped(x, pulses[i]), Felt(w[i - 1], pulses[i]))
    <3>1. CASE x.bits # {}
      BY <2>6, <3>1 DEF Pumped, Felt
    <3>2. CASE x.bits = {}
      <4> DEFINE e == PushPulse(x.decoder, pulses[i])
      <4>1. Pumped(x, pulses[i]) = Complete(e, Tail(x.left))
        BY <3>2 DEF Pumped, Only
      <4>2. Felt(w[i - 1], pulses[i]) = [decoder |-> Complete(e, <<>>).decoder, bits |-> Complete(e, <<>>).bits]
        BY <2>6, <3>2 DEF Felt
      <4>3. Same(Complete(e, Tail(x.left)), Complete(e, <<>>))
        BY DEF Complete
      <4> QED BY <4>1, <4>2, <4>3
    <3> QED BY <3>1, <3>2
  <2>10. Goes(i)
    BY <2>7, <2>8, <2>9
  <2> QED BY <2>2, <2>10
<1>5. Goes(Len(pulses))
  BY <1>0, <1>4
<1> QED BY <1>2, <1>5

Slow(p, pace) == [p EXCEPT !.micros = (@ * pace) \div 100]

\* What has come of so many pulses that were played: the last segment, which the next pulse may
\* yet make longer, and what a decoder makes of those before it by the clock of a receiver.
Standing(d, pace, pulses, i, p, s) ==
    \E past, h, w :
        /\ past \in Seq(Pulses) /\ p \in Pulses /\ Len(past) + 1 <= i
        /\ Joins(h, pulses, i) /\ h[i] = Append(past, p)
        /\ Feels(w, d, Slower(past, pace), Len(past)) /\ w[Len(past)] = s

\* A pulse that is played is of a level and of a length.
LEMMA PulseTypes ==
    ASSUME NEW high \in BOOLEAN, NEW micros \in Nat \ {0}
    PROVE  Pulse(high, micros) \in Pulses
BY DEF Pulse, Pulses

\* Two pulses one after the other last longer than either.
LEMMA PulsesAdd ==
    ASSUME NEW p \in Pulses, NEW q \in Pulses
    PROVE  Pulse(p.high, p.micros + q.micros) \in Pulses
<1>1. PICK high \in BOOLEAN : high = p.high
  BY DEF Pulses
<1>2. PICK micros \in Nat \ {0} : micros = p.micros + q.micros
  BY DEF Pulses
<1> QED BY <1>1, <1>2, PulseTypes

\* Sequences of one length that agree at each place are one.
LEMMA SameSequence ==
    ASSUME NEW S, NEW s \in Seq(S), NEW t \in Seq(S), Len(s) = Len(t),
           \A i \in 1..Len(s) : s[i] = t[i]
    PROVE  s = t
<1>1. Sequence(s) /\ Sequence(t)
  BY TypedIsSequence
<1> QED BY <1>1 DEF Sequence

\* A pulse is lengthened by a neighbour of its level.
LEMMA Lengthens ==
    ASSUME NEW past \in Seq(Pulses), NEW p \in Pulses, NEW q \in Pulses, q.high = p.high
    PROVE  Joined(Append(past, p), q) = Append(past, Pulse(p.high, p.micros + q.micros))
<1> DEFINE m == Append(past, p)  n == Len(past)
<1>1. m \in Seq(Pulses) /\ Len(m) = n + 1 /\ n \in Nat /\ m[n + 1] = p /\ m # <<>>
  OBVIOUS
<1>2. \A i \in 1..n : m[i] = past[i]
  OBVIOUS
<1> HIDE DEF m
<1>3. Joined(m, q) = [m EXCEPT ![n + 1].micros = @ + q.micros]
  BY <1>1 DEF Joined, Last
<1>4. [p EXCEPT !.micros = @ + q.micros] = Pulse(p.high, p.micros + q.micros)
  BY DEF Pulses, Pulse
<1>5. Joined(m, q) = [m EXCEPT ![n + 1] = Pulse(p.high, p.micros + q.micros)]
  BY <1>1, <1>3, <1>4
<1>6. PICK r \in Pulses : r = Pulse(p.high, p.micros + q.micros)
  BY PulsesAdd
<1>7. [m EXCEPT ![n + 1] = r] = Append(past, r)
  <2>1. [m EXCEPT ![n + 1] = r] \in Seq(Pulses) /\ Len([m EXCEPT ![n + 1] = r]) = n + 1
    BY <1>1, <1>6
  <2>2. \A i \in 1..(n + 1) : [m EXCEPT ![n + 1] = r][i] = Append(past, r)[i]
    BY <1>1, <1>2
  <2>3. Append(past, r) \in Seq(Pulses) /\ Len(Append(past, r)) = n + 1
    BY <1>6
  <2> QED BY <2>1, <2>2, <2>3, SameSequence
<1> QED BY <1>5, <1>6, <1>7 DEF m

\* A pulse of the other level is a segment of its own.
LEMMA Separates ==
    ASSUME NEW past \in Seq(Pulses), NEW p \in Pulses, NEW q \in Pulses, q.high # p.high
    PROVE  Joined(Append(past, p), q) = Append(Append(past, p), q)
BY DEF Joined, Last

\* One more pulse is joined.
LEMMA JoinsMore ==
    ASSUME NEW pulses, NEW i \in Nat, NEW h, Joins(h, pulses, i)
    PROVE  \E g : Joins(g, pulses, i + 1) /\ g[i + 1] = Joined(h[i], pulses[i + 1])
<1>1. PICK g : g = [j \in 0..(i + 1) |-> IF j = i + 1 THEN Joined(h[i], pulses[i + 1]) ELSE h[j]]
  OBVIOUS
<1>2. g[i + 1] = Joined(h[i], pulses[i + 1]) /\ \A j \in 0..i : g[j] = h[j]
  BY <1>1
<1>3. ASSUME NEW j \in 1..(i + 1) PROVE g[j] = Joined(g[j - 1], pulses[j])
  <2>1. CASE j = i + 1
    BY <1>2, <2>1
  <2>2. CASE j # i + 1
    <3>1. j \in 1..i /\ j \in 0..i /\ j - 1 \in 0..i
      BY <2>2
    <3> QED BY <1>2, <3>1 DEF Joins
  <2> QED BY <2>1, <2>2
<1> QED BY <1>2, <1>3 DEF Joins

\* One more segment is felt.
LEMMA FeelsMore ==
    ASSUME NEW past \in Seq(Pulses), NEW p \in Pulses, NEW pace \in Nat, NEW d, NEW w,
           Feels(w, d, Slower(past, pace), Len(past))
    PROVE  \E v : /\ Feels(v, d, Slower(Append(past, p), pace), Len(Append(past, p)))
                  /\ v[Len(Append(past, p))] = Felt(w[Len(past)], Slow(p, pace))
<1> DEFINE n == Len(past)
<1>0. n \in Nat /\ Len(Append(past, p)) = n + 1
  OBVIOUS
<1>1. PICK v : v = [j \in 0..(n + 1) |-> IF j = n + 1 THEN Felt(w[n], Slow(p, pace)) ELSE w[j]]
  OBVIOUS
<1>2. v[n + 1] = Felt(w[n], Slow(p, pace)) /\ \A j \in 0..n : v[j] = w[j]
  BY <1>0, <1>1
<1>3. PICK all : all = Slower(Append(past, p), pace)
  OBVIOUS
<1>4. PICK old : old = Slower(past, pace)
  OBVIOUS
<1>5. all[n + 1] = Slow(p, pace) /\ \A j \in 1..n : all[j] = old[j]
  <2>0. Append(past, p) \in Seq(Pulses)
    OBVIOUS
  <2>1. PICK more \in Seq(Pulses) : more = Append(past, p)
    BY <2>0
  <2>2. DOMAIN more = 1..(n + 1) /\ DOMAIN past = 1..n /\ more[n + 1] = p
    BY <2>1
  <2>3. \A j \in 1..n : more[j] = past[j]
    BY <2>1
  <2>4. all = [j \in 1..(n + 1) |-> [more[j] EXCEPT !.micros = (@ * pace) \div 100]]
    BY <1>3, <2>1, <2>2 DEF Slower
  <2>5. old = [j \in 1..n |-> [past[j] EXCEPT !.micros = (@ * pace) \div 100]]
    BY <1>4, <2>2 DEF Slower
  <2>6. all[n + 1] = Slow(p, pace)
    BY <1>0, <2>2, <2>4, SMTT(30) DEF Slow
  <2>7. ASSUME NEW j \in 1..n PROVE all[j] = old[j]
    <3>1. j \in 1..(n + 1) /\ more[j] = past[j]
      BY <1>0, <2>3
    <3> QED BY <2>4, <2>5, <3>1, Zenon
  <2> QED BY <2>6, <2>7
<1>6. ASSUME NEW j \in 1..(n + 1) PROVE v[j] = Felt(v[j - 1], all[j])
  <2>1. CASE j = n + 1
    BY <1>0, <1>2, <1>5, <2>1
  <2>2. CASE j # n + 1
    <3>1. j \in 1..n /\ j \in 0..n /\ j - 1 \in 0..n
      BY <1>0, <2>2
    <3>2. w[j] = Felt(w[j - 1], old[j])
      BY <1>4, <3>1 DEF Feels
    <3> QED BY <1>2, <1>5, <3>1, <3>2
  <2> QED BY <2>1, <2>2
<1>7. v[0] = Unfelt(d)
  BY <1>0, <1>2 DEF Feels
<1> QED BY <1>0, <1>2, <1>3, <1>6, <1>7 DEF Feels

\* Nothing is felt while the first segment may yet grow.
LEMMA StandsFirst ==
    ASSUME NEW pulses, pulses[1] \in Pulses, NEW d, NEW pace \in Nat
    PROVE  Standing(d, pace, pulses, 1, pulses[1], Unfelt(d))
<1>1. PICK h : h = [j \in 0..1 |-> IF j = 0 THEN <<>> ELSE <<pulses[1]>>]
  OBVIOUS
<1>2. Joined(<<>>, pulses[1]) = <<pulses[1]>>
  BY DEF Joined
<1>3. Joins(h, pulses, 1)
  BY <1>1, <1>2 DEF Joins
<1>4. PICK w : w = [j \in {0} |-> Unfelt(d)]
  OBVIOUS
<1>5. Feels(w, d, Slower(<<>>, pace), 0) /\ w[0] = Unfelt(d)
  BY <1>4 DEF Feels
<1>6. h[1] = Append(<<>>, pulses[1]) /\ <<>> \in Seq(Pulses) /\ Len(<<>>) = 0
  BY <1>1
<1>7. PICK none \in Seq(Pulses) : none = <<>> /\ Len(none) = 0
  BY <1>6
<1>8. PICK p \in Pulses : p = pulses[1]
  OBVIOUS
<1>9. h[1] = Append(none, p) /\ Feels(w, d, Slower(none, pace), Len(none)) /\ w[Len(none)] = Unfelt(d)
  BY <1>5, <1>6, <1>7, <1>8
<1>10. Len(none) + 1 <= 1
  BY <1>7
<1>11. Standing(d, pace, pulses, 1, p, Unfelt(d))
  BY <1>3, <1>9, <1>10, Zenon DEF Standing
<1> QED BY <1>8, <1>11

\* A pulse of the same level makes the segment longer.
LEMMA StandsLonger ==
    ASSUME NEW d, NEW pace \in Nat, NEW pulses, NEW i \in Nat, NEW p, NEW s,
           Standing(d, pace, pulses, i, p, s),
           pulses[i + 1] \in Pulses, pulses[i + 1].high = p.high
    PROVE  Standing(d, pace, pulses, i + 1, Pulse(p.high, p.micros + pulses[i + 1].micros), s)
<1>1. PICK past, h, w :
        /\ past \in Seq(Pulses) /\ p \in Pulses /\ Len(past) + 1 <= i
        /\ Joins(h, pulses, i) /\ h[i] = Append(past, p)
        /\ Feels(w, d, Slower(past, pace), Len(past)) /\ w[Len(past)] = s
  BY DEF Standing
<1>2. PICK g : Joins(g, pulses, i + 1) /\ g[i + 1] = Joined(h[i], pulses[i + 1])
  BY <1>1, JoinsMore
<1>3. PICK q \in Pulses : q = Pulse(p.high, p.micros + pulses[i + 1].micros)
  BY <1>1, PulsesAdd
<1>4. g[i + 1] = Append(past, q)
  BY <1>1, <1>2, <1>3, Lengthens
<1>5. Len(past) + 1 <= i + 1
  BY <1>1
<1>6. Standing(d, pace, pulses, i + 1, q, s)
  BY <1>1, <1>2, <1>4, <1>5 DEF Standing
<1> QED BY <1>3, <1>6

\* A pulse of the other level lets the decoder feel the segment before it.
LEMMA StandsApart ==
    ASSUME NEW d, NEW pace \in Nat, NEW pulses, NEW i \in Nat, NEW p, NEW s,
           Standing(d, pace, pulses, i, p, s),
           pulses[i + 1] \in Pulses, pulses[i + 1].high # p.high
    PROVE  Standing(d, pace, pulses, i + 1, pulses[i + 1], Felt(s, Slow(p, pace)))
<1>1. PICK past, h, w :
        /\ past \in Seq(Pulses) /\ p \in Pulses /\ Len(past) + 1 <= i
        /\ Joins(h, pulses, i) /\ h[i] = Append(past, p)
        /\ Feels(w, d, Slower(past, pace), Len(past)) /\ w[Len(past)] = s
  BY DEF Standing
<1>2. PICK g : Joins(g, pulses, i + 1) /\ g[i + 1] = Joined(h[i], pulses[i + 1])
  BY <1>1, JoinsMore
<1>3. PICK q \in Pulses : q = pulses[i + 1]
  OBVIOUS
<1>4. PICK more : more = Append(past, p)
  OBVIOUS
<1>5. g[i + 1] = Append(more, q) /\ more \in Seq(Pulses) /\ Len(more) + 1 <= i + 1
  BY <1>1, <1>2, <1>3, <1>4, Separates
<1>6. PICK v : Feels(v, d, Slower(more, pace), Len(more)) /\ v[Len(more)] = Felt(s, Slow(p, pace))
  BY <1>1, <1>4, FeelsMore
<1>7. Standing(d, pace, pulses, i + 1, q, Felt(s, Slow(p, pace)))
  BY <1>2, <1>5, <1>6 DEF Standing
<1> QED BY <1>3, <1>7

\* The clocks of receivers, in hundredths of the sender's, that the decoder allows for.
Allowed == 80..120

\* A clock within the tolerance is a number.
LEMMA AllowedNat ==
    ASSUME NEW pace \in Allowed
    PROVE  pace \in Nat
  BY DEF Allowed

\* A decoder between frames that has counted so many half syncs.
Waits(s, count) ==
    /\ s.bits = {} /\ s.decoder \in Decoders
    /\ s.decoder.state = "waiting" /\ s.decoder.syncs = count

\* A decoder inside a frame, with so many of its bits.
Gathers(s, bits, count, half) ==
    /\ s.bits = {} /\ s.decoder \in Decoders
    /\ s.decoder.state = "data" /\ s.decoder.half = half /\ s.decoder.length = Len(bits)
    /\ s.decoder.payload = SubSeq(bits, 1, count)

\* What a decoder has of a frame when it has so many of its bits.
Has(s, bits, count) ==
    IF count < Len(bits) THEN Gathers(s, bits, count, FALSE) ELSE s.bits = {bits}

\* A frame of a width.
Framed(bits) == bits \in Seq({0, 1}) /\ Len(bits) \in {Narrow, Wide}

\* A length by a clock, and what each length of a frame may be.
ByClock(micros, pace) == (micros * pace) \div 100

WakeupTimes == 8736..13104
RestTimes == 5885..8829
SyncTimes == 2048..3072
StartTimes == 3880..5820
WholeTimes == 1024..1536
HalfTimes == 512..768

\* What each length of a frame is by the clock of a receiver.
LEMMA Slowed ==
    ASSUME NEW pace \in Allowed
    PROVE  /\ ByClock(WAKEUP_HIGH, pace) \in WakeupTimes
           /\ ByClock(WAKEUP_LOW, pace) \in RestTimes
           /\ ByClock(HW_SYNC_HALF, pace) \in SyncTimes
           /\ ByClock(SW_SYNC_HIGH, pace) \in StartTimes
           /\ ByClock(2 * HALF_SYMBOL, pace) \in WholeTimes
           /\ ByClock(HALF_SYMBOL, pace) \in HalfTimes
<1> USE DEF Allowed, ByClock, WakeupTimes, RestTimes, SyncTimes, StartTimes, WholeTimes, HalfTimes
<1>1. ByClock(WAKEUP_HIGH, pace) \in WakeupTimes
  BY DEF WAKEUP_HIGH
<1>2. ByClock(WAKEUP_LOW, pace) \in RestTimes
  BY DEF WAKEUP_LOW
<1>3. ByClock(HW_SYNC_HALF, pace) \in SyncTimes
  BY DEF HW_SYNC_HALF
<1>4. ByClock(SW_SYNC_HIGH, pace) \in StartTimes
  BY DEF SW_SYNC_HIGH
<1>5. ByClock(2 * HALF_SYMBOL, pace) \in WholeTimes
  BY DEF HALF_SYMBOL
<1>6. ByClock(HALF_SYMBOL, pace) \in HalfTimes
  BY DEF HALF_SYMBOL
<1> HIDE DEF Allowed, ByClock, WakeupTimes, RestTimes, SyncTimes, StartTimes, WholeTimes, HalfTimes
<1> QED BY <1>1, <1>2, <1>3, <1>4, <1>5, <1>6, Zenon

\* Which of them the decoder takes for which.
LEMMA Told ==
    /\ \A m \in WakeupTimes :
           /\ ~Within(m, HW_SYNC_HALF) /\ ~Within(m, SW_SYNC_HIGH)
           /\ ~Within(m, HALF_SYMBOL) /\ ~Within(m, 2 * HALF_SYMBOL)
    /\ \A m \in RestTimes : ~Within(m, HW_SYNC_HALF)
    /\ \A m \in SyncTimes : Within(m, HW_SYNC_HALF)
    /\ \A m \in StartTimes : ~Within(m, HW_SYNC_HALF) /\ Within(m, SW_SYNC_HIGH)
    /\ \A m \in WholeTimes : Within(m, 2 * HALF_SYMBOL)
    /\ \A m \in HalfTimes : Within(m, HALF_SYMBOL) /\ ~Within(m, 2 * HALF_SYMBOL)
<1> USE DEF Within, WakeupTimes, RestTimes, SyncTimes, StartTimes, WholeTimes, HalfTimes
<1>1. \A m \in WakeupTimes :
           /\ ~Within(m, HW_SYNC_HALF) /\ ~Within(m, SW_SYNC_HIGH)
           /\ ~Within(m, HALF_SYMBOL) /\ ~Within(m, 2 * HALF_SYMBOL)
  BY DEF HW_SYNC_HALF, SW_SYNC_HIGH, HALF_SYMBOL
<1>2. \A m \in RestTimes : ~Within(m, HW_SYNC_HALF)
  BY DEF HW_SYNC_HALF
<1>3. \A m \in SyncTimes : Within(m, HW_SYNC_HALF)
  BY DEF HW_SYNC_HALF
<1>4. \A m \in StartTimes : ~Within(m, HW_SYNC_HALF) /\ Within(m, SW_SYNC_HIGH)
  BY DEF HW_SYNC_HALF, SW_SYNC_HIGH
<1>5. \A m \in WholeTimes : Within(m, 2 * HALF_SYMBOL)
  BY DEF HALF_SYMBOL
<1>6. \A m \in HalfTimes : Within(m, HALF_SYMBOL) /\ ~Within(m, 2 * HALF_SYMBOL)
  BY DEF HALF_SYMBOL
<1> HIDE DEF Within, WakeupTimes, RestTimes, SyncTimes, StartTimes, WholeTimes, HalfTimes
<1> QED BY <1>1, <1>2, <1>3, <1>4, <1>5, <1>6, Zenon

\* A pulse by the clock of a receiver.
LEMMA SlowPulse ==
    ASSUME NEW high, NEW micros, NEW pace
    PROVE  /\ Slow(Pulse(high, micros), pace).high = high
           /\ Slow(Pulse(high, micros), pace).micros = ByClock(micros, pace)
BY DEF Slow, Pulse, ByClock

\* A decoder that takes a pulse and completes no frame by it.
LEMMA FeltMore ==
    ASSUME NEW s, s.bits = {}, NEW p, NEW d \in Decoders, PushPulse(s.decoder, p) = d
    PROVE  Felt(s, p).bits = {} /\ Felt(s, p).decoder = d
<1>1. ~(d.state = "data" /\ Len(d.payload) = d.length)
  BY WidthAssumption DEF Decoders, Shapes
<1>2. Complete(d, <<>>).decoder = d /\ Complete(d, <<>>).bits = {}
  BY <1>1 DEF Complete
<1> QED BY <1>2 DEF Felt

\* As for one that is between frames after it.
LEMMA WaitsMore ==
    ASSUME NEW s, s.bits = {}, NEW p, NEW d, d \in Decoders, PushPulse(s.decoder, p) = d,
           d.state = "waiting", NEW count, d.syncs = count
    PROVE  Waits(Felt(s, p), count)
BY FeltMore DEF Waits

\* Nothing within the lengths of a frame is as long as the wakeup, nor as the rest after it.
LEMMA FeltLong ==
    ASSUME NEW s, s.bits = {}, s.decoder \in Decoders, NEW pace \in Allowed
    PROVE  Waits(Felt(s, Slow(High(WAKEUP_HIGH), pace)), 0)
<1>0. PICK p : p = Slow(High(WAKEUP_HIGH), pace)
  OBVIOUS
<1>1. p.micros = ByClock(WAKEUP_HIGH, pace)
  BY <1>0 DEF Slow, Pulse, High, Low, ByClock
<1>2. p.micros \in WakeupTimes
  BY <1>1, Slowed
<1>3. ~Within(p.micros, HW_SYNC_HALF) /\ ~Within(p.micros, SW_SYNC_HIGH)
      /\ ~Within(p.micros, HALF_SYMBOL) /\ ~Within(p.micros, 2 * HALF_SYMBOL)
  BY <1>2, Told, Zenon
<1>4. CASE s.decoder.state = "waiting"
  <2>1. PushPulse(s.decoder, p) = [s.decoder EXCEPT !.syncs = 0]
    BY <1>3, <1>4 DEF PushPulse, WaitingSync
  <2>4. 0 \in 0..HW_SYNCS_MAX
    BY DEF HW_SYNCS_MAX
  <2>5. PICK d : d = [s.decoder EXCEPT !.syncs = 0]
    OBVIOUS
  <2>2. d \in Decoders /\ d = [s.decoder EXCEPT !.syncs = 0]
    BY <1>4, <2>4, <2>5 DEF Decoders, Shapes
  <2>3. d.state = "waiting" /\ d.syncs = 0
    BY <1>4, <2>2 DEF Decoders, Shapes
  <2>6. PushPulse(s.decoder, p) = d /\ d \in Decoders
    BY <2>1, <2>2
  <2>7. Waits(Felt(s, p), 0)
    BY <2>3, <2>6, WaitsMore
  <2> QED BY <1>0, <2>7
<1>5. CASE s.decoder.state # "waiting"
  <2>1. PushPulse(s.decoder, p) = NewDecoder
    BY <1>3, <1>5 DEF PushPulse, ReceivingData
  <2>2. NewDecoder \in Decoders /\ NewDecoder.state = "waiting" /\ NewDecoder.syncs = 0
    BY NewIsDecoder DEF NewDecoder
  <2>3. Waits(Felt(s, p), 0)
    BY <2>1, <2>2, WaitsMore
  <2> QED BY <1>0, <2>3
<1> QED BY <1>4, <1>5

\* The rest after the wakeup breaks the run of syncs.
LEMMA FeltRest ==
    ASSUME NEW s, NEW count, Waits(s, count), NEW pace \in Allowed
    PROVE  Waits(Felt(s, Slow(Low(WAKEUP_LOW), pace)), 0)
<1>0. PICK p : p = Slow(Low(WAKEUP_LOW), pace)
  OBVIOUS
<1>1. p.micros = ByClock(WAKEUP_LOW, pace)
  BY <1>0 DEF Slow, Pulse, High, Low, ByClock
<1>2. p.micros \in RestTimes
  BY <1>1, Slowed
<1>3. ~Within(p.micros, HW_SYNC_HALF)
  BY <1>2, Told, Zenon
<1>4. p.high = FALSE
  BY <1>0 DEF Slow, Pulse, High, Low, ByClock
<1>5. PushPulse(s.decoder, p) = [s.decoder EXCEPT !.syncs = 0]
  BY <1>3, <1>4 DEF PushPulse, WaitingSync, Waits
<1>8. 0 \in 0..HW_SYNCS_MAX
  BY DEF HW_SYNCS_MAX
<1>9. PICK d : d = [s.decoder EXCEPT !.syncs = 0]
  OBVIOUS
<1>6. d \in Decoders /\ d = [s.decoder EXCEPT !.syncs = 0]
  BY <1>8, <1>9 DEF Decoders, Shapes, Waits
<1>7. d.state = "waiting" /\ d.syncs = 0
  BY <1>6 DEF Decoders, Shapes, Waits
<1>10. s.bits = {} /\ PushPulse(s.decoder, p) = d
  BY <1>5, <1>6 DEF Waits
<1>11. Waits(Felt(s, p), 0)
  BY <1>6, <1>7, <1>10, WaitsMore
<1> QED BY <1>0, <1>11

\* Half a sync is counted.
LEMMA FeltSync ==
    ASSUME NEW s, NEW count \in 0..HW_SYNCS_MAX, Waits(s, count), NEW pace \in Allowed,
           NEW high
    PROVE  Waits(Felt(s, Slow(Pulse(high, HW_SYNC_HALF), pace)), Min({count + 1, HW_SYNCS_MAX}))
<1>0. PICK p : p = Slow(Pulse(high, HW_SYNC_HALF), pace)
  OBVIOUS
<1>1. p.micros = ByClock(HW_SYNC_HALF, pace)
  BY <1>0 DEF Slow, Pulse, High, Low, ByClock
<1>2. p.micros \in SyncTimes
  BY <1>1, Slowed
<1>3. Within(p.micros, HW_SYNC_HALF)
  BY <1>2, Told, Zenon
<1>4. PICK more \in 0..HW_SYNCS_MAX : more = Min({count + 1, HW_SYNCS_MAX})
  BY Counts
<1>5. PushPulse(s.decoder, p) = [s.decoder EXCEPT !.syncs = more]
  BY <1>3, <1>4 DEF PushPulse, WaitingSync, Waits
<1>6. PICK d \in Decoders : d = [s.decoder EXCEPT !.syncs = more]
  BY <1>4 DEF Decoders, Shapes, Waits
<1>7. d.state = "waiting" /\ d.syncs = more
  BY <1>6 DEF Decoders, Shapes, Waits
<1>8. s.bits = {} /\ PushPulse(s.decoder, p) = d
  BY <1>5, <1>6 DEF Waits
<1>9. Waits(Felt(s, p), more)
  BY <1>6, <1>7, <1>8, WaitsMore
<1> QED BY <1>0, <1>4, <1>9

\* After syncs enough the software sync begins a frame of the width they tell.
LEMMA FeltStart ==
    ASSUME NEW s, NEW count \in MIN_HW_SYNCS..HW_SYNCS_MAX, Waits(s, count),
           NEW pace \in Allowed, NEW bits, Framed(bits), DetectBitLength(count) = Len(bits)
    PROVE  Has(Felt(s, Slow(High(SW_SYNC_HIGH), pace)), bits, 0)
<1>0. PICK p : p = Slow(High(SW_SYNC_HIGH), pace)
  OBVIOUS
<1>1. p.micros = ByClock(SW_SYNC_HIGH, pace)
  BY <1>0 DEF Slow, Pulse, High, Low, ByClock
<1>2. p.micros \in StartTimes
  BY <1>1, Slowed
<1>3. ~Within(p.micros, HW_SYNC_HALF) /\ Within(p.micros, SW_SYNC_HIGH)
  BY <1>2, Told, Zenon
<1>4. p.high
  BY <1>0 DEF Slow, Pulse, High, Low, ByClock
<1>5. s.decoder.syncs >= MIN_HW_SYNCS
  BY DEF Waits, MIN_HW_SYNCS
<1>6. PICK length \in {Narrow, Wide} : length = Len(bits)
  BY DEF Framed
<1>7. PushPulse(s.decoder, p) = [s.decoder EXCEPT !.state = "data", !.length = length, !.syncs = 0,
                                             !.payload = <<>>, !.half = FALSE]
  BY <1>3, <1>4, <1>5, <1>6, Zenon DEF PushPulse, WaitingSync, Waits
<1>8. PICK d : d = [state |-> "data", syncs |-> 0, length |-> length, payload |-> <<>>, half |-> FALSE]
  OBVIOUS
<1>9. PushPulse(s.decoder, p) = d
  BY <1>7, <1>8 DEF Waits, Decoders, Shapes
<1>10. d \in Decoders
  BY <1>8, WidthAssumption DEF Decoders, Shapes, HW_SYNCS_MAX
<1>11. Felt(s, p).bits = {} /\ Felt(s, p).decoder = d
  BY <1>9, <1>10, FeltMore DEF Waits
<1>12. SubSeq(bits, 1, 0) = <<>>
  BY DEF Framed
<1>13. 0 < Len(bits)
  BY <1>6, WidthAssumption
<1>14. Gathers(Felt(s, p), bits, 0, FALSE)
  BY <1>6, <1>8, <1>10, <1>11, <1>12 DEF Gathers
<1> QED BY <1>13, <1>14, <1>0 DEF Has

\* The first half of a bit, with what was before it of its level, stores it.
LEMMA FeltBit ==
    ASSUME NEW s, NEW bits, Framed(bits), NEW b \in Nat, b < Len(bits), NEW half \in BOOLEAN,
           Gathers(s, bits, b, half), NEW p, p.high = (bits[b + 1] = 0),
           PushPulse(s.decoder, p) = StoreBit(s.decoder, p)
    PROVE  Has(Felt(s, p), bits, b + 1)
<1>1. PICK bit \in {0, 1} : bit = bits[b + 1]
  BY DEF Framed
<1>2. bit = IF p.high THEN 0 ELSE 1
  BY <1>1
<1>3. PICK more : more = SubSeq(bits, 1, b + 1)
  OBVIOUS
<1>4. more = Append(SubSeq(bits, 1, b), bit) /\ more \in Seq({0, 1}) /\ Len(more) = b + 1
  <2>1. SubSeq(bits, 1, b) \in Seq({0, 1}) /\ Len(SubSeq(bits, 1, b)) = b
    BY DEF Framed
  <2>2. PICK less \in Seq({0, 1}) : less = SubSeq(bits, 1, b) /\ Len(less) = b
    BY <2>1
  <2>3. \A i \in 1..b : less[i] = bits[i]
    BY <2>2 DEF Framed
  <2>4. more \in Seq({0, 1}) /\ Len(more) = b + 1 /\ \A i \in 1..(b + 1) : more[i] = bits[i]
    BY <1>3 DEF Framed
  <2>5. PICK longer \in Seq({0, 1}) : longer = Append(less, bit)
    <3>1. Append(less, bit) \in Seq({0, 1})
      OBVIOUS
    <3> QED BY <3>1
  <2>6. Len(longer) = b + 1 /\ longer[b + 1] = bit /\ \A i \in 1..b : longer[i] = less[i]
    BY <2>2, <2>5
  <2>7. \A i \in 1..(b + 1) : longer[i] = more[i]
    <3> SUFFICES ASSUME NEW i \in 1..(b + 1) PROVE longer[i] = more[i]
      OBVIOUS
    <3>1. CASE i = b + 1
      BY <1>1, <2>4, <2>6, <3>1
    <3>2. CASE i # b + 1
      <4>1. i \in 1..b
        BY <3>2
      <4> QED BY <2>3, <2>4, <2>6, <4>1
    <3> QED BY <3>1, <3>2
  <2>8. longer = more
    BY <2>4, <2>6, <2>7, SameSequence
  <2> QED BY <2>2, <2>4, <2>5, <2>8
<1>5. StoreBit(s.decoder, p) = [s.decoder EXCEPT !.payload = more, !.half = FALSE]
  BY <1>2, <1>4, Zenon DEF StoreBit, Gathers
<1>6. PICK d : d = [s.decoder EXCEPT !.payload = more, !.half = FALSE]
  OBVIOUS
<1>7. /\ d.state = "data" /\ d.payload = more /\ d.length = Len(bits) /\ d.half = FALSE
      /\ d \in Shapes
  BY <1>4, <1>6 DEF Gathers, Decoders, Shapes
<1>8. CASE b + 1 < Len(bits)
  <2>1. d \in Decoders
    BY <1>4, <1>7, <1>8 DEF Decoders
  <2>2. Felt(s, p).bits = {} /\ Felt(s, p).decoder = d
    BY <1>5, <1>6, <2>1, FeltMore DEF Gathers
  <2> QED BY <1>3, <1>7, <1>8, <2>1, <2>2 DEF Has, Gathers
<1>9. CASE ~(b + 1 < Len(bits))
  <2>1. Len(bits) \in Nat /\ b + 1 = Len(bits)
    BY <1>9 DEF Framed
  <2>2. more = bits
    <3>1. more \in Seq({0, 1}) /\ Len(more) = Len(bits) /\ \A i \in 1..Len(more) : more[i] = bits[i]
      BY <1>3, <1>4, <2>1 DEF Framed
    <3> QED BY <3>1, SameSequence DEF Framed
  <2>3. Complete(d, <<>>).bits = {bits}
    BY <1>4, <1>7, <2>1, <2>2 DEF Complete
  <2>4. Felt(s, p).bits = Complete(d, <<>>).bits
    BY <1>5, <1>6 DEF Felt, Gathers
  <2> QED BY <1>9, <2>3, <2>4 DEF Has
<1> QED BY <1>8, <1>9

\* A segment of two halves is the second of a bit and the first of the next.
LEMMA FeltWhole ==
    ASSUME NEW s, NEW bits, Framed(bits), NEW b \in Nat, b < Len(bits),
           Gathers(s, bits, b, FALSE), NEW pace \in Allowed
    PROVE  Has(Felt(s, Slow(Pulse(bits[b + 1] = 0, 2 * HALF_SYMBOL), pace)), bits, b + 1)
<1>0. PICK p : p = Slow(Pulse(bits[b + 1] = 0, 2 * HALF_SYMBOL), pace)
  OBVIOUS
<1>1. p.micros = ByClock(2 * HALF_SYMBOL, pace)
  BY <1>0 DEF Slow, Pulse, High, Low, ByClock
<1>2. p.micros \in WholeTimes
  BY <1>1, Slowed
<1>3. Within(p.micros, 2 * HALF_SYMBOL)
  BY <1>2, Told, Zenon
<1>4. p.high = (bits[b + 1] = 0)
  BY <1>0 DEF Slow, Pulse, High, Low, ByClock
<1>5. PushPulse(s.decoder, p) = StoreBit(s.decoder, p)
  BY <1>3 DEF PushPulse, ReceivingData, Gathers
<1>6. Has(Felt(s, p), bits, b + 1)
  BY <1>4, <1>5, FeltBit
<1> QED BY <1>6, <1>0

\* Of two halves apart the first is taken note of.
LEMMA FeltFirst ==
    ASSUME NEW s, NEW bits, NEW b, Gathers(s, bits, b, FALSE),
           NEW pace \in Allowed, NEW high
    PROVE  Gathers(Felt(s, Slow(Pulse(high, HALF_SYMBOL), pace)), bits, b, TRUE)
<1>0. PICK p : p = Slow(Pulse(high, HALF_SYMBOL), pace)
  OBVIOUS
<1>1. p.micros = ByClock(HALF_SYMBOL, pace)
  BY <1>0 DEF Slow, Pulse, High, Low, ByClock
<1>2. p.micros \in HalfTimes
  BY <1>1, Slowed
<1>3. Within(p.micros, HALF_SYMBOL) /\ ~Within(p.micros, 2 * HALF_SYMBOL)
  BY <1>2, Told, Zenon
<1>4. PushPulse(s.decoder, p) = [s.decoder EXCEPT !.half = TRUE]
  BY <1>3 DEF PushPulse, ReceivingData, Gathers
<1>5. PICK d : d = [s.decoder EXCEPT !.half = TRUE]
  OBVIOUS
<1>6. d \in Shapes /\ d.state = "data" /\ d.payload = s.decoder.payload
      /\ d.length = s.decoder.length /\ d.half = TRUE
  BY <1>5 DEF Gathers, Decoders, Shapes
<1>7. Len(s.decoder.payload) < s.decoder.length
  BY DEF Gathers, Decoders
<1>8. d \in Decoders
  BY <1>6, <1>7 DEF Decoders
<1>9. Felt(s, p).bits = {} /\ Felt(s, p).decoder = d
  BY <1>4, <1>5, <1>8, FeltMore DEF Gathers
<1> QED BY <1>6, <1>8, <1>9, <1>0 DEF Gathers

\* And the second stores the bit.
LEMMA FeltSecond ==
    ASSUME NEW s, NEW bits, Framed(bits), NEW b \in Nat, b < Len(bits),
           Gathers(s, bits, b, TRUE), NEW pace \in Allowed
    PROVE  Has(Felt(s, Slow(Pulse(bits[b + 1] = 0, HALF_SYMBOL), pace)), bits, b + 1)
<1>0. PICK p : p = Slow(Pulse(bits[b + 1] = 0, HALF_SYMBOL), pace)
  OBVIOUS
<1>1. p.micros = ByClock(HALF_SYMBOL, pace)
  BY <1>0 DEF Slow, Pulse, High, Low, ByClock
<1>2. p.micros \in HalfTimes
  BY <1>1, Slowed
<1>3. Within(p.micros, HALF_SYMBOL)
  BY <1>2, Told, Zenon
<1>4. p.high = (bits[b + 1] = 0)
  BY <1>0 DEF Slow, Pulse, High, Low, ByClock
<1>5. PushPulse(s.decoder, p) = StoreBit(s.decoder, p)
  BY <1>3 DEF PushPulse, ReceivingData, Gathers
<1>6. Has(Felt(s, p), bits, b + 1)
  BY <1>4, <1>5, FeltBit
<1> QED BY <1>6, <1>0

\* What was played, from a place on: half syncs, the software sync, the halves of the bits.
PlaysTrain(pulses, from, count) ==
    \A k \in 1..count : pulses[from + k] = Pulse(k % 2 = 1, HW_SYNC_HALF)

PlaysStart(pulses, from) ==
    pulses[from + 1] = High(SW_SYNC_HIGH) /\ pulses[from + 2] = Low(HALF_SYMBOL)

PlaysBits(pulses, from, bits) ==
    \A b \in 1..Len(bits) :
        /\ pulses[from + 2 * b - 1] = Pulse(bits[b] = 0, HALF_SYMBOL)
        /\ pulses[from + 2 * b] = Pulse(bits[b] = 1, HALF_SYMBOL)

\* The lengths are lengths.
LEMMA Lasting ==
    /\ WAKEUP_HIGH \in Nat \ {0} /\ WAKEUP_LOW \in Nat \ {0} /\ HW_SYNC_HALF \in Nat \ {0}
    /\ SW_SYNC_HIGH \in Nat \ {0} /\ HALF_SYMBOL \in Nat \ {0} /\ INTER_FRAME_GAP \in Nat \ {0}
BY DEF WAKEUP_HIGH, WAKEUP_LOW, HW_SYNC_HALF, SW_SYNC_HIGH, HALF_SYMBOL, INTER_FRAME_GAP

\* What a pulse is made of.
LEMMA PulseParts ==
    ASSUME NEW high, NEW micros
    PROVE  Pulse(high, micros).high = high /\ Pulse(high, micros).micros = micros
BY DEF Pulse

\* The half syncs that are counted.
Counted(k) == IF k < HW_SYNCS_MAX THEN k ELSE HW_SYNCS_MAX

\* One more half sync is counted, up to the limit of the counter.
LEMMA CountsOn ==
    ASSUME NEW k \in Nat
    PROVE  /\ Counted(k) \in 0..HW_SYNCS_MAX
           /\ Min({Counted(k) + 1, HW_SYNCS_MAX}) = Counted(k + 1)
<1>1. Counted(k) \in 0..HW_SYNCS_MAX
  BY DEF Counted, HW_SYNCS_MAX
<1>2. PICK c \in Nat : c = Counted(k) + 1
  BY <1>1 DEF HW_SYNCS_MAX
<1>3. Counted(k + 1) \in {c, HW_SYNCS_MAX} /\ \A y \in {c, HW_SYNCS_MAX} : Counted(k + 1) <= y
  BY <1>2 DEF Counted, HW_SYNCS_MAX
<1>4. \A x \in {c, HW_SYNCS_MAX} : (\A y \in {c, HW_SYNCS_MAX} : x <= y) => x = Counted(k + 1)
  BY <1>2, <1>3 DEF HW_SYNCS_MAX
<1>5. Min({c, HW_SYNCS_MAX}) = Counted(k + 1)
  BY <1>3, <1>4 DEF Min
<1> QED BY <1>1, <1>2, <1>5

\* While half syncs are played the decoder counts those before the last.
LEMMA TrainStands ==
    ASSUME NEW d, NEW pace \in Allowed, NEW pulses, NEW from \in Nat, NEW count \in Nat \ {0},
           PlaysTrain(pulses, from, count),
           NEW s, Waits(s, 0),
           Standing(d, pace, pulses, from + 1, Pulse(TRUE, HW_SYNC_HALF), s)
    PROVE  \E t : /\ Standing(d, pace, pulses, from + count, Pulse(count % 2 = 1, HW_SYNC_HALF), t)
                  /\ Waits(t, Counted(count - 1))
<1> DEFINE Stands(k) ==
        \E t : /\ Standing(d, pace, pulses, from + k, Pulse(k % 2 = 1, HW_SYNC_HALF), t)
               /\ Waits(t, Counted(k - 1))
           bad == {k \in 1..count : ~Stands(k)}
<1>1. Stands(1)
  <2>1. Counted(1 - 1) = 0
    BY DEF Counted, HW_SYNCS_MAX
  <2>2. (1 % 2 = 1) = TRUE
    OBVIOUS
  <2> QED BY <2>1, <2>2
<1>2. ASSUME NEW k \in 1..count, k + 1 \in 1..count, Stands(k) PROVE Stands(k + 1)
  <2>1. PICK t : /\ Standing(d, pace, pulses, from + k, Pulse(k % 2 = 1, HW_SYNC_HALF), t)
                 /\ Waits(t, Counted(k - 1))
    BY <1>2
  <2>2. PICK high \in BOOLEAN : high = (k % 2 = 1)
    OBVIOUS
  <2>3. PICK low \in BOOLEAN : low = ((k + 1) % 2 = 1)
    OBVIOUS
  <2>4. high # low
    BY <2>2, <2>3
  <2>5. PICK i \in Nat : i = from + k
    OBVIOUS
  <2>6. pulses[i + 1] = Pulse(low, HW_SYNC_HALF)
    <3>1. pulses[from + (k + 1)] = Pulse((k + 1) % 2 = 1, HW_SYNC_HALF)
      BY <1>2 DEF PlaysTrain
    <3>2. from + (k + 1) = i + 1
      BY <2>5
    <3> QED BY <3>1, <3>2, <2>3
  <2>7. PICK p : p = Pulse(high, HW_SYNC_HALF)
    OBVIOUS
  <2>8. Standing(d, pace, pulses, i, p, t)
    BY <2>1, <2>2, <2>5, <2>7
  <2>9. pulses[i + 1] \in Pulses
    BY <2>6, PulseTypes, Lasting
  <2>10. pulses[i + 1].high # p.high
    BY <2>4, <2>6, <2>7, PulseParts
  <2>11. pace \in Nat
    BY AllowedNat
  <2>12. Standing(d, pace, pulses, i + 1, pulses[i + 1], Felt(t, Slow(p, pace)))
    BY <2>8, <2>9, <2>10, <2>11, StandsApart
  <2>13. k - 1 \in Nat /\ (k - 1) + 1 = k /\ (k + 1) - 1 = k
    OBVIOUS
  <2>14. PICK counted \in 0..HW_SYNCS_MAX :
            counted = Counted(k - 1) /\ Min({counted + 1, HW_SYNCS_MAX}) = Counted(k)
    BY <2>13, CountsOn
  <2>15. Waits(Felt(t, Slow(p, pace)), Counted((k + 1) - 1))
    BY <2>1, <2>7, <2>13, <2>14, FeltSync
  <2>16. from + (k + 1) = i + 1
    BY <2>5
  <2>17. Standing(d, pace, pulses, from + (k + 1), Pulse((k + 1) % 2 = 1, HW_SYNC_HALF),
                  Felt(t, Slow(p, pace)))
    BY <2>3, <2>6, <2>12, <2>16
  <2> QED BY <2>15, <2>17
<1> HIDE DEF Stands
<1>3. bad = {}
  <2> SUFFICES ASSUME bad # {} PROVE FALSE
    OBVIOUS
  <2>1. PICK k \in bad : \A j \in bad : k <= j
    <3>1. bad \in SUBSET Nat
      OBVIOUS
    <3> QED BY <3>1, Least
  <2>2. k \in 1..count /\ k # 1
    BY <1>1, <2>1
  <2>3. PICK j \in 1..count : j + 1 = k /\ ~(k <= j)
    <3>1. k - 1 \in 1..count /\ (k - 1) + 1 = k /\ ~(k <= k - 1)
      BY <2>2
    <3> QED BY <3>1
  <2>4. Stands(j)
    BY <2>1, <2>3
  <2>5. Stands(k)
    BY <1>2, <2>2, <2>3, <2>4
  <2> QED BY <2>1, <2>5
<1>4. Stands(count)
  BY <1>3
<1> QED BY <1>4 DEF Stands

\* After the software sync the decoder is at the beginning of a frame.
LEMMA StartStands ==
    ASSUME NEW d, NEW pace \in Allowed, NEW pulses, NEW i \in Nat, PlaysStart(pulses, i),
           NEW count \in Nat, count >= MIN_HW_SYNCS,
           NEW bits, Framed(bits), DetectBitLength(Counted(count)) = Len(bits),
           NEW s, Waits(s, Counted(count - 1)),
           Standing(d, pace, pulses, i, Pulse(FALSE, HW_SYNC_HALF), s)
    PROVE  \E t : /\ Standing(d, pace, pulses, i + 2, Pulse(FALSE, HALF_SYMBOL), t)
                  /\ Has(t, bits, 0)
<1>1. pace \in Nat
  BY AllowedNat
<1>2. count - 1 \in Nat /\ (count - 1) + 1 = count
  BY DEF MIN_HW_SYNCS
<1>3. PICK counted \in 0..HW_SYNCS_MAX :
         counted = Counted(count - 1) /\ Min({counted + 1, HW_SYNCS_MAX}) = Counted(count)
  BY <1>2, CountsOn
<1>4. PICK p : p = Pulse(FALSE, HW_SYNC_HALF)
  OBVIOUS
<1>5. PICK q \in Pulses : q = pulses[i + 1] /\ q = High(SW_SYNC_HIGH)
  BY PulseTypes, Lasting DEF PlaysStart, High
<1>6. PICK r \in Pulses : r = pulses[i + 2] /\ r = Pulse(FALSE, HALF_SYMBOL)
  BY PulseTypes, Lasting DEF PlaysStart, Low
<1>7. p.high = FALSE /\ q.high = TRUE /\ r.high = FALSE
  BY <1>4, <1>5, <1>6 DEF High, Pulse
<1>8. PICK t : t = Felt(s, Slow(p, pace))
  OBVIOUS
<1>9. Standing(d, pace, pulses, i + 1, q, t)
  <2>1. pulses[i + 1] \in Pulses /\ pulses[i + 1].high # p.high
    BY <1>5, <1>7
  <2>2. Standing(d, pace, pulses, i, p, s)
    BY <1>4
  <2> QED BY <1>1, <1>5, <1>8, <2>1, <2>2, StandsApart
<1>10. Waits(t, Counted(count))
  BY <1>3, <1>4, <1>8, FeltSync
<1>11. PICK u : u = Felt(t, Slow(q, pace))
  OBVIOUS
<1>12. Standing(d, pace, pulses, i + 2, r, u)
  <2>1. PICK j \in Nat : j = i + 1 /\ j + 1 = i + 2
    OBVIOUS
  <2>2. pulses[j + 1] \in Pulses /\ pulses[j + 1].high # q.high
    BY <1>6, <1>7, <2>1
  <2>3. Standing(d, pace, pulses, j, q, t)
    BY <1>9, <2>1
  <2>4. Standing(d, pace, pulses, j + 1, pulses[j + 1], u)
    BY <1>1, <1>11, <2>2, <2>3, StandsApart
  <2> QED BY <1>6, <2>1, <2>4
<1>13. Counted(count) \in MIN_HW_SYNCS..HW_SYNCS_MAX
  BY DEF Counted, MIN_HW_SYNCS, HW_SYNCS_MAX
<1>14. Has(u, bits, 0)
  BY <1>5, <1>10, <1>11, <1>13, FeltStart
<1> QED BY <1>6, <1>12, <1>14

\* The level a bit ends on; the software sync ends on the lower.
Ending(bits, b) == IF b = 0 THEN FALSE ELSE bits[b] = 1

\* With the halves of a bit played, the decoder has the bit.
LEMMA BitStands ==
    ASSUME NEW d, NEW pace \in Allowed, NEW pulses, NEW from \in Nat,
           NEW bits, Framed(bits), PlaysBits(pulses, from, bits),
           NEW b \in Nat, b < Len(bits), NEW s, Has(s, bits, b),
           Standing(d, pace, pulses, from + 2 * b, Pulse(Ending(bits, b), HALF_SYMBOL), s)
    PROVE  \E t : /\ Standing(d, pace, pulses, from + 2 * (b + 1),
                              Pulse(Ending(bits, b + 1), HALF_SYMBOL), t)
                  /\ Has(t, bits, b + 1)
<1>1. pace \in Nat
  BY AllowedNat
<1>2. PICK i \in Nat : i = from + 2 * b /\ i + 2 = from + 2 * (b + 1)
  OBVIOUS
<1>3. b + 1 \in 1..Len(bits) /\ bits[b + 1] \in {0, 1}
  BY DEF Framed
<1>4. PICK one \in BOOLEAN : one = (bits[b + 1] = 1)
  OBVIOUS
<1>5. PICK first \in BOOLEAN : first = (bits[b + 1] = 0) /\ first # one
  <2>1. CASE bits[b + 1] = 0
    <3>1. (bits[b + 1] = 0) = TRUE /\ (bits[b + 1] = 1) = FALSE
      BY <2>1
    <3> QED BY <1>4, <3>1
  <2>2. CASE bits[b + 1] = 1
    <3>1. (bits[b + 1] = 0) = FALSE /\ (bits[b + 1] = 1) = TRUE
      BY <2>2
    <3> QED BY <1>4, <3>1
  <2> QED BY <1>3, <2>1, <2>2
<1>6. PICK q \in Pulses : q = pulses[i + 1] /\ q = Pulse(first, HALF_SYMBOL)
  <2>1. pulses[from + 2 * (b + 1) - 1] = Pulse(bits[b + 1] = 0, HALF_SYMBOL)
    BY <1>3 DEF PlaysBits
  <2>2. from + 2 * (b + 1) - 1 = i + 1
    BY <1>2
  <2> QED BY <1>5, <2>1, <2>2, PulseTypes, Lasting
<1>7. PICK r \in Pulses : r = pulses[i + 2] /\ r = Pulse(one, HALF_SYMBOL)
  <2>1. pulses[from + 2 * (b + 1)] = Pulse(bits[b + 1] = 1, HALF_SYMBOL)
    BY <1>3 DEF PlaysBits
  <2> QED BY <1>2, <1>4, <2>1, PulseTypes, Lasting
<1>8. PICK before \in BOOLEAN : before = Ending(bits, b)
  BY DEF Ending
<1>9. PICK p : p = Pulse(before, HALF_SYMBOL)
  OBVIOUS
<1>10. Standing(d, pace, pulses, i, p, s)
  BY <1>2, <1>8, <1>9
<1>11. p.high = before /\ q.high = first /\ r.high = one
  BY <1>6, <1>7, <1>9, PulseParts
<1>12. Gathers(s, bits, b, FALSE)
  BY DEF Has
<1>13. Ending(bits, b + 1) = one
  <2>1. b + 1 # 0
    OBVIOUS
  <2> QED BY <1>4, <2>1, Zenon DEF Ending
<1>14. PICK j \in Nat : j = i + 1 /\ j + 1 = i + 2
  OBVIOUS
<1>15. pulses[j + 1] = r /\ pulses[j + 1] \in Pulses
  BY <1>7, <1>14
<1>16. ASSUME NEW m, NEW u, Standing(d, pace, pulses, j, m, u), m.high = first,
              Has(Felt(u, Slow(m, pace)), bits, b + 1)
       PROVE  \E t : /\ Standing(d, pace, pulses, i + 2, r, t) /\ Has(t, bits, b + 1)
  <2>1. pulses[j + 1].high # m.high
    BY <1>5, <1>11, <1>15, <1>16
  <2>2. Standing(d, pace, pulses, j + 1, pulses[j + 1], Felt(u, Slow(m, pace)))
    BY <1>1, <1>15, <1>16, <2>1, StandsApart
  <2> QED BY <1>14, <1>15, <1>16, <2>2
<1>17. CASE before = first
  <2>1. PICK m : m = Pulse(first, 2 * HALF_SYMBOL)
    OBVIOUS
  <2>2. Standing(d, pace, pulses, i + 1, Pulse(p.high, p.micros + pulses[i + 1].micros), s)
    BY <1>1, <1>6, <1>10, <1>11, <1>17, StandsLonger
  <2>3. p.micros = HALF_SYMBOL /\ q.micros = HALF_SYMBOL
    BY <1>6, <1>9, PulseParts
  <2>4. p.micros + pulses[i + 1].micros = 2 * HALF_SYMBOL
    BY <1>6, <2>3 DEF HALF_SYMBOL
  <2>5. Standing(d, pace, pulses, j, m, s)
    BY <1>11, <1>14, <1>17, <2>1, <2>2, <2>4
  <2>6. Has(Felt(s, Slow(m, pace)), bits, b + 1)
    BY <1>5, <1>12, <2>1, FeltWhole
  <2>7. m.high = first
    BY <2>1, PulseParts
  <2>8. \E t : /\ Standing(d, pace, pulses, i + 2, r, t) /\ Has(t, bits, b + 1)
    BY <1>16, <2>5, <2>6, <2>7
  <2> QED BY <1>2, <1>7, <1>13, <2>8
<1>18. CASE before # first
  <2>1. PICK u : u = Felt(s, Slow(p, pace))
    OBVIOUS
  <2>2. Standing(d, pace, pulses, j, q, u)
    <3>1. pulses[i + 1] \in Pulses /\ pulses[i + 1].high # p.high
      BY <1>6, <1>11, <1>18
    <3> QED BY <1>1, <1>6, <1>10, <1>14, <2>1, <3>1, StandsApart
  <2>3. Gathers(u, bits, b, TRUE)
    BY <1>9, <1>12, <2>1, FeltFirst
  <2>4. Has(Felt(u, Slow(q, pace)), bits, b + 1)
    BY <1>5, <1>6, <2>3, FeltSecond
  <2>5. \E t : /\ Standing(d, pace, pulses, i + 2, r, t) /\ Has(t, bits, b + 1)
    BY <1>11, <1>16, <2>2, <2>4
  <2> QED BY <1>2, <1>7, <1>13, <2>5
<1> QED BY <1>17, <1>18

\* The frame is complete.
Completed(d, pace, pulses, upto, bits) ==
    \E p, s : Standing(d, pace, pulses, upto, p, s) /\ s.bits = {bits}

\* And with the halves of them all it has the frame.
LEMMA BitsStand ==
    ASSUME NEW d, NEW pace \in Allowed, NEW pulses, NEW from \in Nat,
           NEW bits, Framed(bits), PlaysBits(pulses, from, bits),
           NEW s, Has(s, bits, 0),
           Standing(d, pace, pulses, from, Pulse(FALSE, HALF_SYMBOL), s)
    PROVE  Completed(d, pace, pulses, from + 2 * Len(bits), bits)
<1> DEFINE Stands(b) ==
        \E t : /\ Standing(d, pace, pulses, from + 2 * b, Pulse(Ending(bits, b), HALF_SYMBOL), t)
               /\ Has(t, bits, b)
           bad == {b \in 0..Len(bits) : ~Stands(b)}
<1>0. Len(bits) \in Nat
  BY DEF Framed
<1>1. Stands(0)
  <2>1. Ending(bits, 0) = FALSE /\ from + 2 * 0 = from
    BY DEF Ending
  <2> QED BY <2>1
<1>2. ASSUME NEW b \in Nat, b < Len(bits), Stands(b) PROVE Stands(b + 1)
  BY <1>2, BitStands
<1> HIDE DEF Stands
<1>3. bad = {}
  <2> SUFFICES ASSUME bad # {} PROVE FALSE
    OBVIOUS
  <2>1. PICK k \in bad : \A j \in bad : k <= j
    <3>1. bad \in SUBSET Nat
      BY <1>0
    <3> QED BY <3>1, Least
  <2>2. k \in 0..Len(bits) /\ k # 0
    BY <1>1, <2>1
  <2>3. PICK j \in 0..Len(bits) : j + 1 = k /\ ~(k <= j) /\ j < Len(bits) /\ j \in Nat
    <3>1. k - 1 \in 0..Len(bits) /\ (k - 1) + 1 = k /\ ~(k <= k - 1) /\ k - 1 < Len(bits) /\ k - 1 \in Nat
      BY <1>0, <2>2
    <3> QED BY <3>1
  <2>4. Stands(j)
    BY <2>1, <2>3
  <2>5. Stands(k)
    BY <1>2, <2>3, <2>4
  <2> QED BY <2>1, <2>5
<1>4. Stands(Len(bits))
  BY <1>0, <1>3
<1>5. PICK t : /\ Standing(d, pace, pulses, from + 2 * Len(bits),
                           Pulse(Ending(bits, Len(bits)), HALF_SYMBOL), t)
               /\ Has(t, bits, Len(bits))
  BY <1>4 DEF Stands
<1>6. ~(Len(bits) < Len(bits))
  BY <1>0
<1>7. t.bits = {bits}
  BY <1>5, <1>6 DEF Has
<1> QED BY <1>5, <1>7 DEF Completed

\* Two stretches of so many of a set, one after the other.
Joint(S, all, a, la, b, lb) ==
    /\ all \in Seq(S) /\ Len(all) = la + lb
    /\ \A i \in 1..la : all[i] = a[i]
    /\ \A i \in 1..lb : all[la + i] = b[i]

\* A concatenation is one sequence after the other.
LEMMA Concatenates ==
    ASSUME NEW S, NEW a \in Seq(S), NEW b \in Seq(S)
    PROVE  Joint(S, a \o b, a, Len(a), b, Len(b))
BY DEF Joint

\* The same of five.
JointFive(S, all, a, la, b, lb, c, lc, d, ld, e, le) ==
    /\ all \in Seq(S) /\ Len(all) = la + lb + lc + ld + le
    /\ \A i \in 1..la : all[i] = a[i]
    /\ \A i \in 1..lb : all[la + i] = b[i]
    /\ \A i \in 1..lc : all[la + lb + i] = c[i]
    /\ \A i \in 1..ld : all[la + lb + lc + i] = d[i]
    /\ \A i \in 1..le : all[la + lb + lc + ld + i] = e[i]

\* Five sequences joined one at a time are the five in a row.
LEMMA JoiningFive ==
    ASSUME NEW S, NEW a, NEW b, NEW c, NEW d, NEW e, NEW p, NEW q, NEW r, NEW all,
           NEW la \in Nat, NEW lb \in Nat, NEW lc \in Nat, NEW ld \in Nat, NEW le \in Nat,
           Joint(S, p, a, la, b, lb), Joint(S, q, p, la + lb, c, lc),
           Joint(S, r, q, la + lb + lc, d, ld), Joint(S, all, r, la + lb + lc + ld, e, le)
    PROVE  JointFive(S, all, a, la, b, lb, c, lc, d, ld, e, le)
<1>1. PICK pq \in Nat : pq = la + lb
  OBVIOUS
<1>2. PICK qr \in Nat : qr = pq + lc /\ qr = la + lb + lc
  BY <1>1
<1>3. PICK rt \in Nat : rt = qr + ld /\ rt = la + lb + lc + ld
  BY <1>2
<1>5. (\A i \in 1..la : p[i] = a[i]) /\ (\A i \in 1..lb : p[la + i] = b[i])
  BY Zenon DEF Joint
<1>6. (\A i \in 1..pq : q[i] = p[i]) /\ (\A i \in 1..lc : q[pq + i] = c[i])
  BY <1>1, Zenon DEF Joint
<1>7. (\A i \in 1..qr : r[i] = q[i]) /\ (\A i \in 1..ld : r[qr + i] = d[i])
  BY <1>2, Zenon DEF Joint
<1>8. /\ all \in Seq(S) /\ Len(all) = rt + le
      /\ (\A i \in 1..rt : all[i] = r[i]) /\ (\A i \in 1..le : all[rt + i] = e[i])
  BY <1>3, Zenon DEF Joint
<1>10. \A i \in 1..qr : all[i] = q[i]
  BY <1>3, <1>7, <1>8
<1>11. \A i \in 1..pq : all[i] = p[i]
  BY <1>2, <1>6, <1>10
<1>12. \A i \in 1..la : all[i] = a[i]
  BY <1>1, <1>5, <1>11
<1>13. \A i \in 1..lb : all[la + i] = b[i]
  <2> SUFFICES ASSUME NEW i \in 1..lb PROVE all[la + i] = b[i]
    OBVIOUS
  <2>1. PICK n \in 1..pq : n = la + i
    BY <1>1
  <2> QED BY <1>5, <1>11, <2>1
<1>14. \A i \in 1..lc : all[pq + i] = c[i]
  <2> SUFFICES ASSUME NEW i \in 1..lc PROVE all[pq + i] = c[i]
    OBVIOUS
  <2>1. PICK n \in 1..qr : n = pq + i
    BY <1>2
  <2> QED BY <1>6, <1>10, <2>1
<1>15. \A i \in 1..ld : all[qr + i] = d[i]
  <2> SUFFICES ASSUME NEW i \in 1..ld PROVE all[qr + i] = d[i]
    OBVIOUS
  <2>1. PICK n \in 1..rt : n = qr + i
    BY <1>3
  <2> QED BY <1>7, <1>8, <2>1
<1> QED BY <1>1, <1>2, <1>3, <1>8, <1>12, <1>13, <1>14, <1>15, Zenon DEF JointFive

\* A frame as it is rendered, piece by piece.
Opening(kind) == IF kind = "First" THEN 2 ELSE 0

Halvings(bits, kind) == 2 * Syncs(Len(bits) = Wide, kind)

\* The syncs of a frame tell its width.
LEMMA SyncsTell ==
    ASSUME NEW bits, Framed(bits), NEW kind \in FrameKinds
    PROVE  /\ Syncs(Len(bits) = Wide, kind) \in 2..12
           /\ Halvings(bits, kind) >= MIN_HW_SYNCS
           /\ DetectBitLength(Counted(Halvings(bits, kind))) = Len(bits)
<1>1. PICK n \in {Narrow, Wide} : n = Len(bits)
  BY DEF Framed
<1>2. Narrow # Wide
  BY WidthAssumption
<1>3. CASE kind = "First" /\ n = Narrow
  <2>1. Syncs(Len(bits) = Wide, kind) = 2
    BY <1>1, <1>2, <1>3 DEF Syncs
  <2>2. Counted(4) = 4
    BY DEF Counted, HW_SYNCS_MAX
  <2> QED BY <1>1, <1>3, <2>1, <2>2 DEF Halvings, MIN_HW_SYNCS, DetectBitLength
<1>4. CASE kind = "First" /\ n = Wide
  <2>1. Syncs(Len(bits) = Wide, kind) = 12
    BY <1>1, <1>4 DEF Syncs
  <2>2. Counted(24) = 18
    BY DEF Counted, HW_SYNCS_MAX
  <2> QED BY <1>1, <1>4, <2>1, <2>2 DEF Halvings, MIN_HW_SYNCS, DetectBitLength
<1>5. CASE kind = "Repeat" /\ n = Narrow
  <2>1. Syncs(Len(bits) = Wide, kind) = 7
    BY <1>1, <1>2, <1>5 DEF Syncs
  <2>2. Counted(14) = 14
    BY DEF Counted, HW_SYNCS_MAX
  <2> QED BY <1>1, <1>5, <2>1, <2>2 DEF Halvings, MIN_HW_SYNCS, DetectBitLength
<1>6. CASE kind = "Repeat" /\ n = Wide
  <2>1. Syncs(Len(bits) = Wide, kind) = 6
    BY <1>1, <1>6 DEF Syncs
  <2>2. Counted(12) = 12
    BY DEF Counted, HW_SYNCS_MAX
  <2> QED BY <1>1, <1>6, <2>1, <2>2 DEF Halvings, MIN_HW_SYNCS, DetectBitLength
<1> QED BY <1>3, <1>4, <1>5, <1>6 DEF FrameKinds

\* A function of the first numbers is a sequence.
LEMMA Listed ==
    ASSUME NEW S, NEW n \in Nat, NEW f, f \in [1..n -> S]
    PROVE  f \in Seq(S) /\ Len(f) = n
OBVIOUS

\* What is rendered for a frame: the wakeup of a first one, the hardware syncs, the software sync,
\* a pair of halves for each bit, and after the narrow one its silence.
LEMMA RenderPlays ==
    ASSUME NEW bits, Framed(bits), NEW kind \in FrameKinds
    PROVE  LET pulses == Render(bits, kind)
               from == Opening(kind)
               count == Halvings(bits, kind)
               end == from + count + 2 + 2 * Len(bits)
           IN /\ pulses \in Seq(Pulses)
              /\ kind = "First" => pulses[1] = High(WAKEUP_HIGH) /\ pulses[2] = Low(WAKEUP_LOW)
              /\ PlaysTrain(pulses, from, count)
              /\ PlaysStart(pulses, from + count)
              /\ PlaysBits(pulses, from + count + 2, bits)
              /\ Len(pulses) = IF Len(bits) = Wide THEN end ELSE end + 1
              /\ Len(bits) # Wide => pulses[end + 1] = Low(INTER_FRAME_GAP)
<1>0. Len(bits) \in Nat
  BY DEF Framed
<1>1. PICK wakeup \in Seq(Pulses) :
         wakeup = IF kind = "First" THEN <<High(WAKEUP_HIGH), Low(WAKEUP_LOW)>> ELSE <<>>
  <2>1. High(WAKEUP_HIGH) \in Pulses /\ Low(WAKEUP_LOW) \in Pulses
    BY PulseTypes, Lasting DEF High, Low
  <2>2. <<High(WAKEUP_HIGH), Low(WAKEUP_LOW)>> \in Seq(Pulses) /\ <<>> \in Seq(Pulses)
    BY <2>1
  <2> QED BY <2>2
<1>2. Len(wakeup) = Opening(kind)
  BY <1>1 DEF Opening
<1>3. PICK syncs \in Nat : syncs = Syncs(Len(bits) = Wide, kind)
  BY SyncsTell
<1>4. PICK train \in Seq(Pulses) : train = SyncTrain(syncs) /\ Len(train) = 2 * syncs
  <2>1. \A i \in 1..(2 * syncs) : Pulse(i % 2 = 1, HW_SYNC_HALF) \in Pulses
    BY PulseTypes, Lasting
  <2>2. SyncTrain(syncs) \in [1..(2 * syncs) -> Pulses]
    BY <2>1 DEF SyncTrain
  <2>3. 2 * syncs \in Nat
    OBVIOUS
  <2> QED BY <2>2, <2>3, Listed
<1>5. PICK start \in Seq(Pulses) : start = <<High(SW_SYNC_HIGH), Low(HALF_SYMBOL)>>
  <2>1. High(SW_SYNC_HIGH) \in Pulses /\ Low(HALF_SYMBOL) \in Pulses
    BY PulseTypes, Lasting DEF High, Low
  <2>2. <<High(SW_SYNC_HIGH), Low(HALF_SYMBOL)>> \in Seq(Pulses)
    BY <2>1
  <2> QED BY <2>2
<1>6. PICK data \in Seq(Pulses) : data = Manchester(bits) /\ Len(data) = 2 * Len(bits)
  <2>1. ASSUME NEW i \in 1..(2 * Len(bits))
        PROVE  Halves(bits[(i + 1) \div 2])[2 - (i % 2)] \in Pulses
    <3>1. 2 - (i % 2) \in {1, 2}
      BY <1>0
    <3>2. PICK half \in {1, 2} : half = 2 - (i % 2)
      BY <3>1
    <3>3. PICK bit : bit = bits[(i + 1) \div 2]
      OBVIOUS
    <3>4. Halves(bit)[1] \in Pulses /\ Halves(bit)[2] \in Pulses
      <4>1. PICK zero \in BOOLEAN : zero = (bit = 0)
        OBVIOUS
      <4>2. PICK one \in BOOLEAN : one = (bit = 1)
        OBVIOUS
      <4>3. Halves(bit)[1] = Pulse(zero, HALF_SYMBOL) /\ Halves(bit)[2] = Pulse(one, HALF_SYMBOL)
        BY <4>1, <4>2 DEF Halves
      <4> QED BY <4>3, PulseTypes, Lasting
    <3> QED BY <3>2, <3>3, <3>4
  <2>2. Manchester(bits) \in [1..(2 * Len(bits)) -> Pulses]
    BY <2>1 DEF Manchester
  <2>3. PICK n \in Nat : n = 2 * Len(bits)
    BY <1>0
  <2>4. PICK f \in [1..n -> Pulses] : f = Manchester(bits)
    BY <2>2, <2>3
  <2>5. f \in Seq(Pulses) /\ Len(f) = n
    BY Listed
  <2> QED BY <2>3, <2>4, <2>5
<1>7. PICK silence \in Seq(Pulses) : silence = IF Len(bits) = Wide THEN <<>> ELSE <<Low(INTER_FRAME_GAP)>>
  <2>1. Low(INTER_FRAME_GAP) \in Pulses
    BY PulseTypes, Lasting DEF Low
  <2>2. <<Low(INTER_FRAME_GAP)>> \in Seq(Pulses) /\ <<>> \in Seq(Pulses)
    BY <2>1
  <2> QED BY <2>2
<1>8. PICK all : all = wakeup \o train \o start \o data \o silence
  OBVIOUS
<1>9. all = Render(bits, kind)
  BY <1>1, <1>3, <1>4, <1>5, <1>6, <1>7, <1>8, Zenon DEF Render
<1>10. PICK from \in Nat : from = Opening(kind)
  BY DEF Opening
<1>11. PICK count \in Nat : count = Halvings(bits, kind) /\ count = 2 * syncs
  BY <1>3 DEF Halvings
<1>12. Len(start) = 2
  BY <1>5
<1>13. /\ all \in Seq(Pulses) /\ Len(all) = from + count + 2 + 2 * Len(bits) + Len(silence)
       /\ \A i \in 1..from : all[i] = wakeup[i]
       /\ \A i \in 1..count : all[from + i] = train[i]
       /\ \A i \in 1..2 : all[from + count + i] = start[i]
       /\ \A i \in 1..(2 * Len(bits)) : all[from + count + 2 + i] = data[i]
       /\ \A i \in 1..Len(silence) : all[from + count + 2 + 2 * Len(bits) + i] = silence[i]
  <2>1. PICK n \in Nat : n = 2 * Len(bits)
    BY <1>0
  <2>3. /\ Len(wakeup) = from /\ Len(train) = count /\ Len(data) = n
    BY <1>2, <1>4, <1>6, <1>10, <1>11, <2>1
  <2>4. /\ all \in Seq(Pulses) /\ Len(all) = from + count + 2 + n + Len(silence)
        /\ \A i \in 1..from : all[i] = wakeup[i]
        /\ \A i \in 1..count : all[from + i] = train[i]
        /\ \A i \in 1..2 : all[from + count + i] = start[i]
        /\ \A i \in 1..n : all[from + count + 2 + i] = data[i]
        /\ \A i \in 1..Len(silence) : all[from + count + 2 + n + i] = silence[i]
    <3>1. PICK two \in Nat : two = 2
      OBVIOUS
    <3>2. PICK g \in Nat : g = Len(silence)
      OBVIOUS
    <3>3. PICK p : p = wakeup \o train
      OBVIOUS
    <3>4. PICK q : q = p \o start
      OBVIOUS
    <3>5. PICK r : r = q \o data
      OBVIOUS
    <3>6. all = r \o silence
      BY <1>8, <3>3, <3>4, <3>5
    <3>12. Joint(Pulses, p, wakeup, from, train, count)
      BY <2>3, <3>3, Concatenates
    <3>7. p \in Seq(Pulses) /\ Len(p) = from + count
      BY <3>12 DEF Joint
    <3>13. Joint(Pulses, q, p, from + count, start, two)
      <4>1. Len(start) = two
        BY <1>12, <3>1
      <4> QED BY <3>4, <3>7, <4>1, Concatenates
    <3>8. q \in Seq(Pulses) /\ Len(q) = from + count + two
      BY <3>13 DEF Joint
    <3>14. Joint(Pulses, r, q, from + count + two, data, n)
      BY <2>3, <3>5, <3>8, Concatenates
    <3>9. r \in Seq(Pulses) /\ Len(r) = from + count + two + n
      BY <3>14 DEF Joint
    <3>10. Joint(Pulses, all, r, from + count + two + n, silence, g)
      BY <3>2, <3>6, <3>9, Concatenates, Zenon
    <3>11. /\ all \in Seq(Pulses) /\ Len(all) = from + count + two + n + g
           /\ \A i \in 1..from : all[i] = wakeup[i]
           /\ \A i \in 1..count : all[from + i] = train[i]
           /\ \A i \in 1..two : all[from + count + i] = start[i]
           /\ \A i \in 1..n : all[from + count + two + i] = data[i]
           /\ \A i \in 1..g : all[from + count + two + n + i] = silence[i]
      <4>1. JointFive(Pulses, all, wakeup, from, train, count, start, two, data, n, silence, g)
        BY <3>12, <3>13, <3>14, <3>10, JoiningFive
      <4> QED BY <4>1 DEF JointFive
    <3> QED BY <3>1, <3>2, <3>11
  <2> QED BY <2>1, <2>4
<1>14. kind = "First" => all[1] = High(WAKEUP_HIGH) /\ all[2] = Low(WAKEUP_LOW)
  <2> SUFFICES ASSUME kind = "First" PROVE all[1] = High(WAKEUP_HIGH) /\ all[2] = Low(WAKEUP_LOW)
    OBVIOUS
  <2>1. from = 2 /\ wakeup = <<High(WAKEUP_HIGH), Low(WAKEUP_LOW)>>
    BY <1>1, <1>10 DEF Opening
  <2>2. wakeup[1] = High(WAKEUP_HIGH) /\ wakeup[2] = Low(WAKEUP_LOW)
    BY <2>1
  <2> QED BY <1>13, <2>1, <2>2
<1>15. PlaysTrain(all, from, count)
  <2>1. \A i \in 1..count : train[i] = Pulse(i % 2 = 1, HW_SYNC_HALF)
    BY <1>4, <1>11 DEF SyncTrain
  <2> QED BY <1>13, <2>1 DEF PlaysTrain
<1>16. PlaysStart(all, from + count)
  <2>1. start[1] = High(SW_SYNC_HIGH) /\ start[2] = Low(HALF_SYMBOL)
    BY <1>5
  <2> QED BY <1>13, <2>1 DEF PlaysStart
<1>17. PlaysBits(all, from + count + 2, bits)
  <2> SUFFICES ASSUME NEW b \in 1..Len(bits)
               PROVE  /\ all[from + count + 2 + 2 * b - 1] = Pulse(bits[b] = 0, HALF_SYMBOL)
                      /\ all[from + count + 2 + 2 * b] = Pulse(bits[b] = 1, HALF_SYMBOL)
    BY DEF PlaysBits
  <2>1. PICK base \in Nat : base = from + count + 2
    OBVIOUS
  <2>2. PICK i \in 1..(2 * Len(bits)) : i = 2 * b - 1 /\ (i + 1) \div 2 = b /\ 2 - (i % 2) = 1
    BY <1>0
  <2>3. PICK j \in 1..(2 * Len(bits)) : j = 2 * b /\ (j + 1) \div 2 = b /\ 2 - (j % 2) = 2
    BY <1>0
  <2>4. data[i] = Halves(bits[b])[1] /\ data[j] = Halves(bits[b])[2]
    BY <1>6, <2>2, <2>3, Zenon DEF Manchester
  <2>5. Halves(bits[b])[1] = Pulse(bits[b] = 0, HALF_SYMBOL) /\ Halves(bits[b])[2] = Pulse(bits[b] = 1, HALF_SYMBOL)
    BY DEF Halves
  <2>6. all[base + i] = data[i] /\ all[base + j] = data[j]
    BY <1>13, <2>1
  <2>7. base + i = base + 2 * b - 1 /\ base + j = base + 2 * b
    BY <2>2, <2>3
  <2>8. all[base + 2 * b - 1] = data[i] /\ all[base + 2 * b] = data[j]
    BY <2>6, <2>7
  <2> QED BY <2>1, <2>4, <2>5, <2>8
<1>18. Len(all) = IF Len(bits) = Wide THEN from + count + 2 + 2 * Len(bits)
                  ELSE from + count + 2 + 2 * Len(bits) + 1
  <2>1. PICK n \in Nat : n = 2 * Len(bits)
    BY <1>0
  <2>2. PICK e \in Nat : e = from + count + 2 + n
    OBVIOUS
  <2>3. PICK g \in Nat : g = Len(silence)
    OBVIOUS
  <2>4. Len(all) = e + g
    BY <1>13, <2>1, <2>2, <2>3
  <2>5. CASE Len(bits) = Wide
    <3>1. g = 0
      BY <1>7, <2>3, <2>5
    <3> QED BY <2>1, <2>2, <2>4, <2>5, <3>1
  <2>6. CASE Len(bits) # Wide
    <3>1. g = 1
      BY <1>7, <2>3, <2>6
    <3> QED BY <2>1, <2>2, <2>4, <2>6, <3>1
  <2> QED BY <2>5, <2>6
<1>19. Len(bits) # Wide => all[from + count + 2 + 2 * Len(bits) + 1] = Low(INTER_FRAME_GAP)
  <2> SUFFICES ASSUME Len(bits) # Wide
               PROVE  all[from + count + 2 + 2 * Len(bits) + 1] = Low(INTER_FRAME_GAP)
    OBVIOUS
  <2>1. Len(silence) = 1 /\ silence[1] = Low(INTER_FRAME_GAP)
    BY <1>7
  <2> QED BY <1>13, <2>1
<1> QED BY <1>9, <1>10, <1>11, <1>13, <1>14, <1>15, <1>16, <1>17, <1>18, <1>19

\* The decoders a frame is heard by: any the first of a press, a new one a repeat.
Hearers(kind) == IF kind = "First" THEN Decoders ELSE {NewDecoder}

\* At the first half sync the decoder has counted none.
LEMMA OpeningStands ==
    ASSUME NEW kind \in FrameKinds, NEW d \in Hearers(kind), NEW pace \in Allowed, NEW pulses,
           NEW count \in Nat \ {0},
           kind = "First" => pulses[1] = High(WAKEUP_HIGH) /\ pulses[2] = Low(WAKEUP_LOW),
           PlaysTrain(pulses, Opening(kind), count)
    PROVE  \E s : /\ Standing(d, pace, pulses, Opening(kind) + 1, Pulse(TRUE, HW_SYNC_HALF), s)
                  /\ Waits(s, 0)
<1>1. pace \in Nat
  BY AllowedNat
<1>2. pulses[Opening(kind) + 1] = Pulse(TRUE, HW_SYNC_HALF)
  <2>1. 1 \in 1..count /\ (1 % 2 = 1) = TRUE
    OBVIOUS
  <2>2. pulses[Opening(kind) + 1] = Pulse(1 % 2 = 1, HW_SYNC_HALF)
    BY <2>1 DEF PlaysTrain
  <2> QED BY <2>1, <2>2
<1>3. PICK half \in Pulses : half = Pulse(TRUE, HW_SYNC_HALF)
  BY PulseTypes, Lasting
<1>4. CASE kind = "First"
  <2>1. d \in Decoders
    BY <1>4 DEF Hearers
  <2>2. PICK high \in Pulses : high = High(WAKEUP_HIGH) /\ high = pulses[1]
    BY <1>4, PulseTypes, Lasting DEF High
  <2>3. PICK low \in Pulses : low = Low(WAKEUP_LOW) /\ low = pulses[2]
    BY <1>4, PulseTypes, Lasting DEF Low
  <2>4. high.high = TRUE /\ low.high = FALSE /\ half.high = TRUE
    BY <1>3, <2>2, <2>3 DEF High, Low, Pulse
  <2>5. Standing(d, pace, pulses, 1, high, Unfelt(d))
    BY <1>1, <2>2, StandsFirst
  <2>6. PICK s : s = Felt(Unfelt(d), Slow(high, pace))
    OBVIOUS
  <2>7. Waits(s, 0)
    <3>1. Unfelt(d).bits = {} /\ Unfelt(d).decoder = d
      BY DEF Unfelt
    <3> QED BY <2>1, <2>2, <2>6, <3>1, FeltLong
  <2>8. Standing(d, pace, pulses, 2, low, s)
    <3>1. PICK one \in Nat : one = 1 /\ one + 1 = 2
      OBVIOUS
    <3>2. pulses[one + 1] \in Pulses /\ pulses[one + 1].high # high.high /\ pulses[one + 1] = low
      BY <2>3, <2>4, <3>1
    <3>3. Standing(d, pace, pulses, one, high, Unfelt(d))
      BY <2>5, <3>1
    <3>4. Standing(d, pace, pulses, one + 1, low, s)
      BY <1>1, <2>6, <3>2, <3>3, StandsApart
    <3> QED BY <3>1, <3>4
  <2>9. PICK t : t = Felt(s, Slow(low, pace))
    OBVIOUS
  <2>10. Waits(t, 0)
    BY <2>3, <2>7, <2>9, FeltRest
  <2>11. Standing(d, pace, pulses, 3, half, t)
    <3>1. PICK two \in Nat : two = 2 /\ two + 1 = 3 /\ two = Opening(kind)
      BY <1>4 DEF Opening
    <3>2. pulses[two + 1] \in Pulses /\ pulses[two + 1].high # low.high /\ pulses[two + 1] = half
      BY <1>2, <1>3, <2>4, <3>1
    <3>3. Standing(d, pace, pulses, two, low, s)
      BY <2>8, <3>1
    <3>4. Standing(d, pace, pulses, two + 1, half, t)
      BY <1>1, <2>9, <3>2, <3>3, StandsApart
    <3> QED BY <3>1, <3>4
  <2>12. Opening(kind) + 1 = 3
    BY <1>4 DEF Opening
  <2> QED BY <1>3, <2>10, <2>11, <2>12
<1>5. CASE kind # "First"
  <2>1. Opening(kind) + 1 = 1 /\ d = NewDecoder
    BY <1>5 DEF Opening, Hearers
  <2>2. pulses[1] = half
    BY <1>2, <1>3, <2>1
  <2>3. Standing(d, pace, pulses, 1, half, Unfelt(d))
    BY <1>1, <2>2, StandsFirst
  <2>4. Waits(Unfelt(d), 0)
    BY <2>1, NewIsDecoder DEF Waits, Unfelt, NewDecoder
  <2> QED BY <1>3, <2>1, <2>3, <2>4
<1> QED BY <1>4, <1>5

\* A frame that was completed stays what was heard.
LEMMA FeltStays ==
    ASSUME NEW s, s.bits # {}, NEW p
    PROVE  Felt(s, p) = s
BY DEF Felt

\* Of a frame played to its end the decoder has the bits.
LEMMA FrameStands ==
    ASSUME NEW bits, Framed(bits), NEW kind \in FrameKinds, NEW d \in Hearers(kind),
           NEW pace \in Allowed, NEW pulses, pulses = Render(bits, kind)
    PROVE  Completed(d, pace, pulses, Len(pulses), bits)
<1>1. PICK from \in Nat : from = Opening(kind)
  BY DEF Opening
<1>2. PICK count \in Nat \ {0} : count = Halvings(bits, kind) /\ count % 2 = 0 /\ count >= MIN_HW_SYNCS
  BY SyncsTell DEF Halvings, MIN_HW_SYNCS
<1>3. PICK n \in Nat : n = Len(bits)
  BY DEF Framed
<1>4. /\ pulses \in Seq(Pulses)
      /\ kind = "First" => pulses[1] = High(WAKEUP_HIGH) /\ pulses[2] = Low(WAKEUP_LOW)
      /\ PlaysTrain(pulses, from, count)
      /\ PlaysStart(pulses, from + count)
      /\ PlaysBits(pulses, from + count + 2, bits)
      /\ Len(pulses) = IF n = Wide THEN from + count + 2 + 2 * n ELSE from + count + 2 + 2 * n + 1
      /\ n # Wide => pulses[from + count + 2 + 2 * n + 1] = Low(INTER_FRAME_GAP)
  BY <1>1, <1>2, <1>3, RenderPlays, Zenon
<1>5. PICK s1 : /\ Standing(d, pace, pulses, from + 1, Pulse(TRUE, HW_SYNC_HALF), s1)
                /\ Waits(s1, 0)
  BY <1>1, <1>4, OpeningStands
<1>6. PICK s2 : /\ Standing(d, pace, pulses, from + count, Pulse(FALSE, HW_SYNC_HALF), s2)
                /\ Waits(s2, Counted(count - 1))
  <2>1. PICK t : /\ Standing(d, pace, pulses, from + count, Pulse(count % 2 = 1, HW_SYNC_HALF), t)
                 /\ Waits(t, Counted(count - 1))
    BY <1>4, <1>5, TrainStands
  <2>2. (count % 2 = 1) = FALSE
    BY <1>2
  <2> QED BY <2>1, <2>2
<1>7. PICK i \in Nat : i = from + count
  OBVIOUS
<1>8. PICK s3 : Standing(d, pace, pulses, i + 2, Pulse(FALSE, HALF_SYMBOL), s3) /\ Has(s3, bits, 0)
  <2>1. DetectBitLength(Counted(count)) = Len(bits)
    BY <1>2, SyncsTell
  <2>2. PlaysStart(pulses, i)
    BY <1>4, <1>7
  <2>3. Standing(d, pace, pulses, i, Pulse(FALSE, HW_SYNC_HALF), s2)
    BY <1>6, <1>7
  <2>4. count \in Nat
    OBVIOUS
  <2> QED BY <1>2, <1>6, <2>1, <2>2, <2>3, <2>4, StartStands
<1>9. PICK j \in Nat : j = from + count + 2 /\ j = i + 2
  BY <1>7
<1>10. PICK p, s4 : Standing(d, pace, pulses, j + 2 * n, p, s4) /\ s4.bits = {bits}
  <2>1. PlaysBits(pulses, j, bits) /\ Standing(d, pace, pulses, j, Pulse(FALSE, HALF_SYMBOL), s3)
    BY <1>4, <1>8, <1>9
  <2>2. Completed(d, pace, pulses, j + 2 * Len(bits), bits)
    BY <1>8, <2>1, BitsStand
  <2> QED BY <1>3, <2>2 DEF Completed
<1>11. CASE n = Wide
  <2>1. Len(pulses) = j + 2 * n
    BY <1>4, <1>9, <1>11
  <2> QED BY <1>10, <2>1 DEF Completed
<1>12. CASE n # Wide
  <2>1. PICK e \in Nat : e = j + 2 * n
    OBVIOUS
  <2>2. Len(pulses) = e + 1 /\ pulses[e + 1] = Low(INTER_FRAME_GAP)
    BY <1>4, <1>9, <1>12, <2>1
  <2>3. pulses[e + 1] \in Pulses
    BY <2>2, PulseTypes, Lasting DEF Low
  <2>4. Standing(d, pace, pulses, e, p, s4)
    BY <1>10, <2>1
  <2>5. pace \in Nat
    BY AllowedNat
  <2>6. CASE pulses[e + 1].high = p.high
    <3>1. PICK q : Standing(d, pace, pulses, e + 1, q, s4)
      BY <2>3, <2>4, <2>5, <2>6, StandsLonger
    <3> QED BY <1>10, <2>2, <3>1 DEF Completed
  <2>7. CASE pulses[e + 1].high # p.high
    <3>1. Standing(d, pace, pulses, e + 1, pulses[e + 1], Felt(s4, Slow(p, pace)))
      BY <2>3, <2>4, <2>5, <2>7, StandsApart
    <3>2. Felt(s4, Slow(p, pace)) = s4
      BY <1>10, FeltStays
    <3> QED BY <1>10, <2>2, <3>1, <3>2 DEF Completed
  <2> QED BY <2>6, <2>7
<1> QED BY <1>11, <1>12

\* What is packed is unpacked as it was: every segment lasts.
LEMMA UnpacksMarked ==
    ASSUME NEW merged \in Seq(Pulses)
    PROVE  /\ Unpack(Marked(merged)) = merged
           /\ Len(Marked(merged)) \in Nat
           /\ 2 * Len(Marked(merged)) <= Len(merged) + 2
<1> DEFINE n == Len(merged)
           two(i) == <<merged[2 * i - 1], IF 2 * i \in DOMAIN merged THEN merged[2 * i] ELSE EndMarker>>
<1>0. n \in Nat /\ DOMAIN merged = 1..n /\ merged = [i \in 1..n |-> merged[i]]
  OBVIOUS
<1>1. PICK k \in Nat : k = (n + 1) \div 2
  BY <1>0
<1>2. PICK packed : packed = Pack(merged)
  OBVIOUS
<1>3. packed = [i \in 1..k |-> two(i)]
  BY <1>1, <1>2 DEF Pack
<1>4. packed \in Seq({two(i) : i \in 1..k}) /\ Len(packed) = k
  <2> HIDE DEF two
  <2>1. PICK f \in [1..k -> {two(i) : i \in 1..k}] : f = [i \in 1..k |-> two(i)]
    OBVIOUS
  <2>2. f \in Seq({two(i) : i \in 1..k}) /\ Len(f) = k
    BY Listed
  <2> QED BY <1>3, <2>1, <2>2
<1>5. PICK marked : marked = Marked(merged)
  OBVIOUS
<1>6. PICK m \in Nat : m = IF n % 2 = 0 THEN k + 1 ELSE k
  OBVIOUS
<1>7. Len(marked) = m /\ (\A i \in 1..k : marked[i] = two(i))
      /\ (n % 2 = 0 => marked[k + 1] = <<EndMarker, EndMarker>>)
  <2>1. \A i \in 1..k : packed[i] = two(i)
    BY <1>3
  <2> HIDE DEF two
  <2>2. CASE n % 2 = 0
    <3>1. marked = Append(packed, <<EndMarker, EndMarker>>)
      BY <1>2, <1>5, <2>2 DEF Marked
    <3>2. Len(marked) = k + 1 /\ marked[k + 1] = <<EndMarker, EndMarker>> /\ \A i \in 1..k : marked[i] = packed[i]
      BY <1>4, <3>1
    <3> QED BY <1>6, <2>1, <2>2, <3>2
  <2>3. CASE n % 2 # 0
    <3>1. marked = packed
      BY <1>2, <1>5, <2>3 DEF Marked
    <3> QED BY <1>4, <1>6, <2>1, <2>3, <3>1
  <2> QED BY <2>2, <2>3
<1> DEFINE entries == [i \in 1..(2 * m) |-> marked[(i + 1) \div 2][2 - (i % 2)]]
           ends == {i \in 1..(2 * m) : entries[i].micros = 0}
<1>8. n + 1 \in 1..(2 * m) /\ n \in 0..(2 * m) /\ 2 * m <= n + 2
  <2>1. CASE n % 2 = 0
    BY <1>0, <1>1, <1>6, <2>1
  <2>2. CASE n % 2 # 0
    BY <1>0, <1>1, <1>6, <2>2
  <2> QED BY <2>1, <2>2
<1>9. ASSUME NEW i \in 1..n PROVE i \in 1..(2 * m) /\ entries[i] = merged[i]
  <2>1. i \in 1..(2 * m)
    BY <1>8
  <2>2. PICK j \in 1..k : j = (i + 1) \div 2
    BY <1>0, <1>1
  <2>3. marked[j] = two(j)
    BY <1>7
  <2>4. CASE i % 2 = 1
    <3>1. 2 * j - 1 = i /\ 2 - (i % 2) = 1
      BY <2>2, <2>4
    <3>2. two(j)[1] = merged[2 * j - 1]
      OBVIOUS
    <3> HIDE DEF two
    <3> QED BY <2>1, <2>2, <2>3, <3>1, <3>2
  <2>5. CASE i % 2 # 1
    <3>1. 2 * j = i /\ 2 - (i % 2) = 2 /\ 2 * j \in DOMAIN merged
      BY <1>0, <2>2, <2>5
    <3>2. two(j)[2] = merged[2 * j]
      BY <3>1
    <3> HIDE DEF two
    <3> QED BY <2>1, <2>2, <2>3, <3>1, <3>2
  <2> QED BY <2>4, <2>5
<1>10. entries[n + 1] = EndMarker
  <2>1. CASE n % 2 = 0
    <3>1. (n + 1 + 1) \div 2 = k + 1 /\ 2 - ((n + 1) % 2) = 1
      BY <1>0, <1>1, <2>1
    <3>2. entries[n + 1] = marked[k + 1][1]
      BY <1>8, <3>1
    <3>3. marked[k + 1] = <<EndMarker, EndMarker>>
      BY <1>7, <2>1
    <3> HIDE DEF entries
    <3> QED BY <3>2, <3>3
  <2>2. CASE n % 2 # 0
    <3>1. (n + 1 + 1) \div 2 = k /\ 2 - ((n + 1) % 2) = 2 /\ k \in 1..k /\ 2 * k = n + 1
      BY <1>0, <1>1, <2>2
    <3>2. entries[n + 1] = marked[k][2]
      BY <1>8, <3>1
    <3>3. 2 * k \notin DOMAIN merged
      BY <1>0, <3>1
    <3>4. two(k)[2] = EndMarker
      BY <3>3
    <3> HIDE DEF entries, two
    <3> QED BY <1>7, <3>1, <3>2, <3>4
  <2> QED BY <2>1, <2>2
<1> HIDE DEF entries
<1>11. n + 1 \in ends /\ \A i \in ends : n + 1 <= i
  <2>1. EndMarker.micros = 0
    BY DEF EndMarker, Low, Pulse
  <2>2. \A i \in 1..n : entries[i].micros # 0
    <3> SUFFICES ASSUME NEW i \in 1..n PROVE entries[i].micros # 0
      OBVIOUS
    <3>1. merged[i] \in Pulses
      OBVIOUS
    <3>2. merged[i].micros # 0
      BY <3>1 DEF Pulses
    <3> QED BY <1>9, <3>2
  <2>3. \A i \in 1..(2 * m) : i \notin 1..n => n + 1 <= i
    BY <1>0
  <2> QED BY <1>8, <1>10, <2>1, <2>2, <2>3
<1>12. Min(ends) = n + 1 /\ ends # {}
  <2>1. ends \in SUBSET Nat
    BY <1>8
  <2> HIDE DEF ends
  <2>2. \A x \in ends : (\A y \in ends : x <= y) => x = n + 1
    BY <1>0, <1>11, <2>1
  <2> QED BY <1>11, <2>2 DEF Min
<1>13. Unpack(marked) = SubSeq(entries, 1, n)
  <2>1. Unpack(marked) = SubSeq(entries, 1, IF ends = {} THEN 2 * m ELSE Min(ends) - 1)
    BY <1>7 DEF Unpack, entries
  <2> HIDE DEF ends
  <2> QED BY <1>0, <1>12, <2>1
<1>14. SubSeq(entries, 1, n) = merged
  <2>1. SubSeq(entries, 1, n) = [i \in 1..n |-> entries[i + 1 - 1]]
    BY <1>0
  <2>2. \A i \in 1..n : entries[i + 1 - 1] = merged[i]
    BY <1>9
  <2> QED BY <1>0, <2>1, <2>2
<1> QED BY <1>5, <1>6, <1>7, <1>8, <1>13, <1>14

\* What is heard of a frame is of it, and is made of its bits.
Hears(d, pace, measured, bits) ==
    \E w : Feels(w, d, Slower(measured, pace), Len(measured)) /\ w[Len(measured)].bits = {bits}

\* A frame that is rendered, merged, packed, played, measured and unpacked again makes the decoder of
\* a receiver whose clock is within the tolerance hold its bits, and no others, when it is over.
LEMMA MeasuredIsHeard ==
    ASSUME NEW bits, Framed(bits), NEW kind \in FrameKinds, NEW d \in Hearers(kind),
           NEW pace \in Allowed, NEW symbols, symbols = Marked(Merge(Render(bits, kind)))
    PROVE  /\ FromPulseCode(symbols) \in Seq(Pulses)
           /\ Hears(d, pace, FromPulseCode(symbols), bits)
<1>1. PICK pulses : pulses = Render(bits, kind)
  OBVIOUS
<1>2. PICK p, s : Standing(d, pace, pulses, Len(pulses), p, s) /\ s.bits = {bits}
  BY <1>1, FrameStands DEF Completed
<1>3. PICK past, h, w :
        /\ past \in Seq(Pulses) /\ p \in Pulses /\ Len(past) + 1 <= Len(pulses)
        /\ Joins(h, pulses, Len(pulses)) /\ h[Len(pulses)] = Append(past, p)
        /\ Feels(w, d, Slower(past, pace), Len(past)) /\ w[Len(past)] = s
  BY <1>2 DEF Standing
<1>4. Len(pulses) \in Nat
  BY <1>1, RenderPlays
<1>5. Merge(pulses) = Append(past, p)
  BY <1>3, <1>4, MergeIs
<1>6. PICK merged \in Seq(Pulses) : merged = Append(past, p)
  <2>1. Append(past, p) \in Seq(Pulses)
    BY <1>3
  <2> QED BY <2>1
<1>7. Unpack(symbols) = merged
  BY <1>1, <1>5, <1>6, UnpacksMarked
<1>8. pace \in Nat
  BY AllowedNat
<1>9. CASE Last(merged).high
  <2>1. FromPulseCode(symbols) = merged
    BY <1>7, <1>9 DEF FromPulseCode
  <2>2. PICK v : /\ Feels(v, d, Slower(merged, pace), Len(merged))
                 /\ v[Len(merged)] = Felt(s, Slow(p, pace))
    BY <1>3, <1>6, <1>8, FeelsMore
  <2>3. v[Len(merged)].bits = {bits}
    BY <1>2, <2>2, FeltStays
  <2> QED BY <2>1, <2>2, <2>3 DEF Hears
<1>10. CASE ~Last(merged).high
  <2>1. FromPulseCode(symbols) = Front(merged)
    BY <1>7, <1>10 DEF FromPulseCode
  <2>2. Front(merged) = past
    <3>1. /\ Len(merged) - 1 = Len(past) /\ Front(merged) = SubSeq(merged, 1, Len(past))
          /\ \A i \in 1..Len(past) : merged[i] = past[i]
      BY <1>3, <1>6 DEF Front
    <3>2. Front(merged) \in Seq(Pulses) /\ Len(Front(merged)) = Len(past)
          /\ \A i \in 1..Len(past) : Front(merged)[i] = past[i]
      BY <1>3, <3>1
    <3> QED BY <1>3, <3>2, SameSequence
  <2> QED BY <1>2, <1>3, <2>1, <2>2 DEF Hears
<1> QED BY <1>9, <1>10

\* By the sender's own clock everything lasts as it was sent.
LEMMA OwnClock ==
    ASSUME NEW measured \in Seq(Pulses)
    PROVE  Slower(measured, 100) = measured
<1>1. ASSUME NEW p \in Pulses PROVE [p EXCEPT !.micros = (@ * 100) \div 100] = p
  <2>1. (p.micros * 100) \div 100 = p.micros
    BY DEF Pulses
  <2> QED BY <2>1 DEF Pulses
<1>2. DOMAIN measured = 1..Len(measured) /\ measured = [i \in 1..Len(measured) |-> measured[i]]
      /\ \A i \in 1..Len(measured) : measured[i] \in Pulses
  OBVIOUS
<1>3. Slower(measured, 100) = [i \in 1..Len(measured) |-> [measured[i] EXCEPT !.micros = (@ * 100) \div 100]]
  BY <1>2 DEF Slower
<1> QED BY <1>1, <1>2, <1>3

\* A frame that was completed on the way is what is heard at the end.
LEMMA FeelsStays ==
    ASSUME NEW d, NEW pulses, NEW upto \in Nat, NEW w, Feels(w, d, pulses, upto),
           NEW cut \in 0..upto, w[cut].bits # {}
    PROVE  w[upto] = w[cut]
<1> DEFINE bad == {j \in cut..upto : w[j] # w[cut]}
<1>1. bad = {}
  <2> SUFFICES ASSUME bad # {} PROVE FALSE
    OBVIOUS
  <2>1. PICK k \in bad : \A j \in bad : k <= j
    <3>1. bad \in SUBSET Nat
      OBVIOUS
    <3> QED BY <3>1, Least
  <2>2. k \in cut..upto /\ k # cut
    BY <2>1
  <2>3. k - 1 \in cut..upto /\ ~(k <= k - 1) /\ k \in 1..upto
    BY <2>2
  <2>4. w[k - 1] = w[cut]
    BY <2>1, <2>3
  <2>5. w[k] = Felt(w[k - 1], pulses[k])
    BY <2>3 DEF Feels
  <2>6. w[k] = w[cut]
    BY <2>4, <2>5, FeltStays
  <2> QED BY <2>1, <2>6
<1> QED BY <1>1

\* Of a signal that is measured from its first edge a receiver makes the frame that was sent, if it
\* was measured to its end, and nothing else if not.
LEMMA BeginningIsHeard ==
    ASSUME NEW d \in Decoders, NEW measured \in Seq(Pulses), NEW bits, Hears(d, 100, measured, bits),
           NEW cut \in 0..Len(measured), NEW r, r \in Pump(d, SubSeq(measured, 1, cut))
    PROVE  r.bits \subseteq {bits} /\ (cut = Len(measured) => r.bits = {bits})
<1>0. Len(measured) \in Nat
  OBVIOUS
<1>1. PICK w : Feels(w, d, measured, Len(measured)) /\ w[Len(measured)].bits = {bits}
  BY OwnClock DEF Hears
<1>2. PICK part \in Seq(Pulses) : part = SubSeq(measured, 1, cut) /\ Len(part) = cut
                                  /\ \A i \in 1..cut : part[i] = measured[i]
  <2>1. SubSeq(measured, 1, cut) \in Seq(Pulses) /\ Len(SubSeq(measured, 1, cut)) = cut
        /\ \A i \in 1..cut : SubSeq(measured, 1, cut)[i] = measured[i]
    OBVIOUS
  <2> QED BY <2>1
<1>3. Feels(w, d, part, cut)
  <2>1. \A j \in 1..cut : j \in 1..Len(measured)
    BY <1>0
  <2> QED BY <1>1, <1>2, <2>1 DEF Feels
<1>4. Sequence(part)
  BY TypedIsSequence
<1>5. r.bits = w[cut].bits
  <2>1. PICK x : Pump(d, part) = {x} /\ x.bits = w[cut].bits
    <3>1. Feels(w, d, part, Len(part))
      BY <1>2, <1>3
    <3>2. \E x : Pump(d, part) = {x} /\ x.bits = w[Len(part)].bits
      BY <1>4, <3>1, PumpFeels
    <3> QED BY <1>2, <3>2
  <2> QED BY <1>2, <2>1
<1>6. w[cut].bits # {} => w[cut].bits = {bits}
  <2> SUFFICES ASSUME w[cut].bits # {} PROVE w[cut].bits = {bits}
    OBVIOUS
  <2>1. PICK n \in Nat : n = Len(measured)
    BY <1>0
  <2>2. cut \in 0..n /\ Feels(w, d, measured, n)
    BY <1>1, <2>1
  <2>3. w[n] = w[cut]
    BY <2>2, FeelsStays
  <2> QED BY <1>1, <2>1, <2>3
<1> QED BY <1>1, <1>5, <1>6

-----------------------------------------------------------------------------
(* The radio task, step by step                                            *)

\* A signal that is heard is a sequence of pulses.
LEMMA SignalsAreSequences ==
    ASSUME NEW s, s \in Signals
    PROVE  Sequence(s.pulses)
<1>1. PICK bits \in Payloads, kind \in FrameKinds :
           s \in {[bits |-> bits, kind |-> kind, pulses |-> FromPulseCode(symbols)] :
                     symbols \in BuildSymbols(bits, kind)}
  BY DEF Signals
<1>3. PICK symbols \in BuildSymbols(bits, kind) :
           s = [bits |-> bits, kind |-> kind, pulses |-> FromPulseCode(symbols)]
  BY <1>1
<1>2. Len(symbols) \in 0..MAX_SYMBOLS
  BY DEF BuildSymbols
<1> QED BY <1>2, <1>3, MeasuredIsSequence

-----------------------------------------------------------------------------

\* The task begins listening, with both channels empty.
LEMMA RadioStarts == RadioInit => RadioInv
<1> SUFFICES ASSUME RadioInit PROVE RadioInv
  OBVIOUS
<1>1. Keying
  BY DEF RadioInit, Keying, NeverDeaf, Modes
<1>2. Requested
  BY RadioAssumption DEF RadioInit, Requested
<1>3. Receiving
  <2>1. Sequence(<<>>)
    <3>1. <<>> \in Seq({})
      OBVIOUS
    <3> QED BY <3>1, TypedIsSequence
  <2> QED BY <2>1, NewIsDecoder DEF RadioInit, Receiving
<1>4. Published
  BY RadioAssumption DEF RadioInit, Published, Quiet
<1> QED BY <1>1, <1>2, <1>3, <1>4 DEF RadioInv

\* The state task asks where there is a place.
LEMMA EnqueueKeeps ==
    ASSUME RadioInv, NEW r \in Requests, Enqueue(r)
    PROVE  RadioInv'
<1> USE DEF Enqueue, RadioInv
<1>1. Keying'
  BY DEF Keying, NeverDeaf
<1>2. Requested'
  BY RadioAssumption DEF Requested
<1>3. Receiving'
  BY DEF Receiving
<1>4. Published'
  BY DEF Published, Quiet
<1> QED BY <1>1, <1>2, <1>3, <1>4

\* The state task takes what was published.
LEMMA TakeFrameKeeps ==
    ASSUME RadioInv, TakeFrame
    PROVE  RadioInv'
<1> USE DEF TakeFrame, RadioInv
<1>1. Keying'
  BY DEF Keying, NeverDeaf
<1>2. Requested'
  BY DEF Requested
<1>3. Receiving'
  BY DEF Receiving
<1>4. Published'
  BY RadioAssumption DEF Published, Quiet
<1> QED BY <1>1, <1>2, <1>3, <1>4

\* However the strobes of a parking go, the transceiver is not left keyed if they all went through.
LEMMA KeyOffParks ==
    ASSUME NEW from \in Modes, NEW before, KeyOff(from, before)
    PROVE  chip' \in Modes /\ (parked' => chip' = "rx")
BY DEF KeyOff, Modes

\* What is or is not keyed for a request.
LEMMA TransmitKeeps ==
    ASSUME Keying, sending = {}, NEW r \in Requests, Transmit(r)
    PROVE  /\ Keying'
           /\ \A tx \in sending' : Started(tx)
           /\ event'.tag \in Tags \cup {Quiet.tag}
<1>1. CASE /\ Ended([tag |-> "Unencodable"])
           /\ UNCHANGED <<chip, parked, failures>>
  BY <1>1 DEF Ended, Keying, NeverDeaf, Tags
<1>2. CASE Keyed(r)
  <2>1. chip' = "tx" /\ sending' = {[request |-> r, sent |-> 0]} /\ event'.tag = "quiet"
    BY <1>2 DEF Keyed, Quiet
  <2>2. Keying'
    BY <2>1 DEF Keying, NeverDeaf, Modes
  <2>3. \A tx \in sending' : Started(tx)
    BY <2>1, RadioAssumption DEF Started
  <2> QED BY <2>1, <2>2, <2>3 DEF Quiet
<1>3. CASE \E from \in {chip, "idle"} : NotKeyed(from)
  <2>1. PICK from \in {chip, "idle"} : NotKeyed(from)
    BY <1>3
  <2>2. from \in Modes
    BY DEF Keying, Modes
  <2>3. chip' \in Modes /\ (parked' => chip' = "rx")
    BY <2>1, <2>2, KeyOffParks DEF NotKeyed
  <2>4. sending' = {} /\ event'.tag = "TransmitFailed"
    BY <2>1 DEF NotKeyed, Ended
  <2> QED BY <2>3, <2>4 DEF Keying, NeverDeaf, Tags
<1> QED BY <1>1, <1>2, <1>3 DEF Transmit

\* A request is taken: it goes on the air, or the transceiver is parked again.
LEMMA TakeRequestKeeps ==
    ASSUME RadioInv, TakeRequest
    PROVE  RadioInv'
<1>1. /\ sending = {} /\ queue # <<>> /\ queue' = Tail(queue) /\ Transmit(Head(queue))
      /\ UNCHANGED <<decoder, burst, frames, finished, asked>>
  BY DEF TakeRequest
<1>2. Head(queue) \in Requests
  BY <1>1 DEF RadioInv, Requested
<1>3. /\ Keying'
      /\ \A tx \in sending' : Started(tx)
      /\ event'.tag \in Tags \cup {Quiet.tag}
  BY <1>1, <1>2, TransmitKeeps DEF RadioInv
<1>4. queue' \in Seq(Requests) /\ Len(queue') <= TXN
  BY <1>1, RadioAssumption DEF RadioInv, Requested
<1>5. Receiving' /\ Published'
  BY <1>1, <1>3 DEF RadioInv, Receiving, Published
<1> QED BY <1>3, <1>4, <1>5 DEF RadioInv, Requested

\* A frame is sent, or was the last one, or fails.
LEMMA SendFrameKeeps ==
    ASSUME RadioInv, SendFrame
    PROVE  RadioInv'
<1>1. PICK tx \in sending :
          \/ Sent(tx)
          \/ KeyOff(chip, 1) /\ Ended([tag |-> "TransmitFailed"])
  BY DEF SendFrame
<1>2. UNCHANGED <<queue, decoder, burst, frames, finished, asked>>
  BY DEF SendFrame
<1>3. chip = "tx" /\ chip \in Modes /\ Started(tx)
  BY DEF RadioInv, Keying, Requested, Started
<1>4. ASSUME NEW before, KeyOff(chip, before), NEW tag \in Tags, Ended([tag |-> tag])
      PROVE  RadioInv'
  <2>1. chip' \in Modes /\ (parked' => chip' = "rx")
    BY <1>3, <1>4, KeyOffParks
  <2>2. sending' = {} /\ event'.tag \in Tags
    BY <1>4 DEF Ended
  <2>3. Keying'
    BY <2>1, <2>2 DEF Keying, NeverDeaf
  <2>4. Requested' /\ Receiving' /\ Published'
    BY <1>2, <2>2 DEF RadioInv, Requested, Receiving, Published
  <2> QED BY <2>3, <2>4 DEF RadioInv
<1>5. CASE tx.sent < tx.request.repeats /\ Sent(tx)
  <2>1. sending' = {[tx EXCEPT !.sent = @ + 1]} /\ UNCHANGED <<chip, parked, event, failures>>
    BY <1>5 DEF Sent
  <2>2. Keying'
    BY <1>3, <2>1 DEF Keying, NeverDeaf, Modes
  <2>3. [tx EXCEPT !.sent = @ + 1].sent = tx.sent + 1
    <3>1. "sent" \in DOMAIN tx
      BY <1>3 DEF Started
    <3> QED BY <3>1
  <2>4. [tx EXCEPT !.sent = @ + 1].request = tx.request
    BY <1>3 DEF Started
  <2>5. tx.request \in Requests /\ tx.request.repeats \in Nat /\ tx.sent \in Nat
    BY <1>3, RadioAssumption DEF Started
  <2>6. [tx EXCEPT !.sent = @ + 1] \in [request : Requests, sent : Nat]
    BY <1>3, <2>5 DEF Started
  <2>8. Started([tx EXCEPT !.sent = @ + 1])
    BY <1>5, <2>3, <2>4, <2>5, <2>6 DEF Started
  <2>9. Requested'
    BY <1>2, <2>1, <2>8 DEF RadioInv, Requested
  <2>7. Receiving' /\ Published'
    BY <1>2, <2>1 DEF RadioInv, Receiving, Published
  <2> QED BY <2>2, <2>7, <2>9 DEF RadioInv
<1>6. CASE ~(tx.sent < tx.request.repeats) /\ Sent(tx)
  <2>1. PICK tag \in {"Transmitted", "TransmitFailed"} : KeyOff(chip, 0) /\ Ended([tag |-> tag])
    BY <1>6 DEF Sent
  <2>2. tag \in Tags
    BY DEF Tags
  <2> QED BY <1>4, <2>1, <2>2
<1>7. CASE KeyOff(chip, 1) /\ Ended([tag |-> "TransmitFailed"])
  BY <1>4, <1>7 DEF Tags
<1> QED BY <1>1, <1>5, <1>6, <1>7

\* What is pumped of a burst is published where there is a place.
LEMMA PumpKeeps ==
    ASSUME Receiving, Published, NEW pulses, Sequence(pulses), NEW origin, PumpBurst(pulses, origin)
    PROVE  Receiving' /\ Published'
<1>1. PICK r \in Pump(decoder, pulses) :
        /\ decoder' = r.decoder
        /\ burst' = r.left
        /\ \/ \E bits \in r.bits : Publish(bits, origin)
           \/ /\ r.bits = {}
              /\ event' = [tag |-> "quiet", heard |-> origin]
              /\ UNCHANGED frames
  BY DEF PumpBurst
<1>2. r.decoder \in Decoders /\ Sequence(r.left)
  BY PumpTypes DEF Receiving
<1>3. Receiving'
  BY <1>1, <1>2 DEF Receiving
<1>4. ASSUME NEW bits, Publish(bits, origin) PROVE Published'
  <2>1. PICK tag : tag = Outcome(bits)
    OBVIOUS
  <2>2. /\ frames' = IF tag = "Received" THEN Append(frames, bits) ELSE frames
        /\ event'.tag = tag
    BY <1>4, <2>1 DEF Publish
  <2>3. tag \in Tags
    BY <2>1 DEF Outcome, Tags
  <2>4. tag = "Received" => bits \in Payloads /\ Len(frames) < RXN
    BY <2>1 DEF Outcome
  <2>5. frames' \in Seq(Payloads) /\ Len(frames') <= RXN
    BY <2>2, <2>4, RadioAssumption DEF Published
  <2> QED BY <2>2, <2>3, <2>5 DEF Published
<1>5. ASSUME event' = [tag |-> "quiet", heard |-> origin], UNCHANGED frames PROVE Published'
  BY <1>5 DEF Published, Quiet
<1> QED BY <1>1, <1>3, <1>4, <1>5

\* A reception touches neither the transceiver nor the requests.
LEMMA ReceptionKeeps ==
    ASSUME RadioInv, NEW pulses, Sequence(pulses), NEW origin, PumpBurst(pulses, origin),
           UNCHANGED <<queue, chip, parked, sending, finished, asked, failures>>
    PROVE  RadioInv'
<1>1. Receiving' /\ Published'
  BY PumpKeeps DEF RadioInv
<1>2. Keying' /\ Requested'
  BY DEF RadioInv, Keying, NeverDeaf, Requested
<1> QED BY <1>1, <1>2 DEF RadioInv

\* What an earlier reception left is looked at.
LEMMA ReceiveLeftKeeps ==
    ASSUME RadioInv, ReceiveLeft
    PROVE  RadioInv'
BY ReceptionKeeps DEF ReceiveLeft, RadioInv, Receiving

\* Another remote is heard, cut anywhere.
LEMMA HearSomeKeeps ==
    ASSUME RadioInv, HearSome
    PROVE  RadioInv'
<1>1. PICK s \in Signals, cut \in 1..(2 * MAX_SYMBOLS) :
          Hear(s, 1, cut) \/ Hear(s, cut, Len(s.pulses))
  BY DEF HearSome
<1>2. Len(s.pulses) \in Int
  BY SignalsAreSequences DEF Sequence
<1>3. ASSUME NEW from \in Int, NEW to \in Int, Hear(s, from, to)
      PROVE  RadioInv'
  <2>1. Sequence(SubSeq(s.pulses, from, to))
    BY StretchIsSequence
  <2> QED BY <1>3, <2>1, ReceptionKeeps DEF Hear
<1>4. cut \in Int
  BY DEF MAX_SYMBOLS
<1> QED BY <1>1, <1>2, <1>3, <1>4

\* The source of pulses is gone: what is keyed and asked stays.
LEMMA SourceEndsKeeps ==
    ASSUME RadioInv, SourceEnds
    PROVE  RadioInv'
<1> USE DEF SourceEnds, RadioInv
<1>1. Keying' /\ Requested' /\ Receiving'
  BY DEF Keying, NeverDeaf, Requested, Receiving
<1>2. Published'
  BY DEF Published, Tags
<1> QED BY <1>1, <1>2

\* Steps of other parts.
LEMMA RadioStutters ==
    ASSUME RadioInv, UNCHANGED radioVars
    PROVE  RadioInv'
BY DEF radioVars, RadioInv, Keying, NeverDeaf, Requested, Receiving, Published

\* The invariant is what was to be kept, and more.
LEMMA RadioInvGives ==
    ASSUME RadioInv
    PROVE  RadioTypeOK /\ NeverDeaf
<1>1. ToSet(queue) \subseteq Requests /\ ToSet(frames) \subseteq Payloads
  BY DEF ToSet, RadioInv, Requested, Published
<1>2. Len(queue) <= TXN /\ Len(frames) <= RXN
  BY DEF RadioInv, Requested, Published
<1>3. chip \in Modes /\ event.tag \in Tags \cup {Quiet.tag}
  BY DEF RadioInv, Keying, Published
<1>4. \A tx \in sending : chip = "tx" /\ tx.sent <= tx.request.repeats
  BY DEF RadioInv, Keying, Requested, Started
<1>5. /\ decoder.length \in {Narrow, Wide} /\ decoder.syncs \in 0..HW_SYNCS_MAX
      /\ decoder.state = "data" => Len(decoder.payload) < decoder.length
  BY DEF RadioInv, Receiving, Decoders, Shapes
<1>6. decoder.state = "waiting" => ~decoder.half
  BY DEF RadioInv, Receiving, Decoders, Shapes
<1>7. NeverDeaf
  BY DEF RadioInv, Keying
<1> QED BY <1>1, <1>2, <1>3, <1>4, <1>5, <1>6, <1>7 DEF RadioTypeOK

\* What is published is what was heard, and it is told of what.
LEMMA PublishTells ==
    ASSUME NEW bits, NEW origin, Publish(bits, origin)
    PROVE  /\ event'.heard = origin /\ event'.bits = bits
           /\ bits \in Payloads => event'.tag \in {"Received", "ReceiveQueueFull"}
BY DEF Publish, Outcome

\* The signals of the frames that check.
LEMMA SignalsAreFrames ==
    ASSUME NEW s, s \in Signals
    PROVE  /\ s.bits \in Payloads /\ Framed(s.bits) /\ s.kind \in FrameKinds
           /\ s.pulses = FromPulseCode(Marked(Merge(Render(s.bits, s.kind))))
<1>1. PICK bits \in Payloads, kind \in FrameKinds :
           s \in {[bits |-> bits, kind |-> kind, pulses |-> FromPulseCode(symbols)] :
                     symbols \in BuildSymbols(bits, kind)}
  BY DEF Signals
<1>2. PICK symbols \in BuildSymbols(bits, kind) :
           s = [bits |-> bits, kind |-> kind, pulses |-> FromPulseCode(symbols)]
  BY <1>1
<1>3. symbols = Marked(Merge(Render(bits, kind)))
  BY DEF BuildSymbols
<1>4. Framed(bits)
  BY RadioAssumption DEF Framed
<1> QED BY <1>2, <1>3, <1>4

\* A first frame is heard for what it is, measured whole or short of its end.
LEMMA FirstHeard ==
    ASSUME RadioInv, NEW s \in Signals, NEW from \in 1..Len(s.pulses),
           NEW to \in 1..Len(s.pulses), Hear(s, from, to), from = 1 \/ to = Len(s.pulses)
    PROVE  FirstIsHeard'
<1> DEFINE origin == [bits |-> s.bits, kind |-> s.kind, begun |-> from = 1,
                      whole |-> from = 1 /\ to = Len(s.pulses)]
<1>1. /\ s.bits \in Payloads /\ Framed(s.bits) /\ s.kind \in FrameKinds
      /\ s.pulses = FromPulseCode(Marked(Merge(Render(s.bits, s.kind))))
  BY SignalsAreFrames
<1>2. PICK r \in Pump(decoder, SubSeq(s.pulses, from, to)) :
        \/ \E bits \in r.bits : Publish(bits, origin)
        \/ /\ r.bits = {}
           /\ event' = [tag |-> "quiet", heard |-> origin]
  BY DEF Hear, PumpBurst
<1>3. ASSUME s.kind = "First", from = 1
      PROVE  r.bits \subseteq {s.bits} /\ (to = Len(s.pulses) => r.bits = {s.bits})
  <2>1. decoder \in Decoders /\ decoder \in Hearers(s.kind)
    BY <1>3 DEF RadioInv, Receiving, Hearers
  <2>2. 100 \in Allowed
    BY DEF Allowed
  <2>3. s.pulses \in Seq(Pulses) /\ Hears(decoder, 100, s.pulses, s.bits)
    BY <1>1, <2>1, <2>2, MeasuredIsHeard
  <2>4. to \in 0..Len(s.pulses) /\ r \in Pump(decoder, SubSeq(s.pulses, 1, to))
    BY <1>2, <1>3
  <2> QED BY <2>1, <2>3, <2>4, BeginningIsHeard
<1>4. /\ origin.kind = s.kind /\ origin.bits = s.bits /\ (origin.begun <=> from = 1)
      /\ (origin.whole <=> from = 1 /\ to = Len(s.pulses))
  OBVIOUS
<1> HIDE DEF origin
<1>5. CASE \E bits \in r.bits : Publish(bits, origin)
  <2>1. PICK bits \in r.bits : Publish(bits, origin)
    BY <1>5
  <2>2. /\ event'.heard = origin /\ event'.bits = bits
        /\ bits \in Payloads => event'.tag \in {"Received", "ReceiveQueueFull"}
    BY <2>1, PublishTells
  <2>3. s.kind = "First" /\ from = 1 => bits = s.bits
    BY <1>3
  <2> QED BY <1>1, <1>4, <2>2, <2>3 DEF FirstIsHeard
<1>6. CASE r.bits = {} /\ event' = [tag |-> "quiet", heard |-> origin]
  <2>1. event'.heard = origin /\ "bits" \notin DOMAIN event'
    BY <1>6
  <2>2. ~(s.kind = "First" /\ from = 1 /\ to = Len(s.pulses))
    BY <1>3, <1>6
  <2> QED BY <1>4, <2>1, <2>2 DEF FirstIsHeard
<1> QED BY <1>2, <1>5, <1>6

\* Whatever else the task comes to is no first frame heard.
LEMMA NothingHeard ==
    ASSUME NEW tag, event' = [tag |-> tag]
    PROVE  FirstIsHeard'
BY DEF FirstIsHeard

\* Each step of the task and of its channels tells a first frame for what it is.
LEMMA FirstKeeps ==
    ASSUME RadioInv, FirstIsHeard, [RadioNext]_radioVars
    PROVE  FirstIsHeard'
<1>1. CASE UNCHANGED event
  BY <1>1 DEF FirstIsHeard
<1>2. ASSUME NEW tag, Ended([tag |-> tag]) PROVE FirstIsHeard'
  BY <1>2, NothingHeard DEF Ended
<1>3. CASE \E r \in Requests : Enqueue(r)
  BY <1>3, NothingHeard DEF Enqueue, Quiet
<1>4. CASE TakeFrame
  BY <1>4, NothingHeard DEF TakeFrame, Quiet
<1>5. CASE TakeRequest
  BY <1>2, <1>5, NothingHeard DEF TakeRequest, Transmit, Keyed, NotKeyed, Quiet
<1>6. CASE SendFrame
  <2>1. PICK tx \in sending :
          \/ Sent(tx)
          \/ KeyOff(chip, 1) /\ Ended([tag |-> "TransmitFailed"])
    BY <1>6 DEF SendFrame
  <2> QED BY <1>1, <1>2, <2>1 DEF Sent
<1>7. CASE ReceiveLeft
  <2>1. PICK r \in Pump(decoder, burst) :
          \/ \E bits \in r.bits : Publish(bits, [kind |-> "left"])
          \/ event' = [tag |-> "quiet", heard |-> [kind |-> "left"]]
    BY <1>7 DEF ReceiveLeft, PumpBurst
  <2>2. event'.heard = [kind |-> "left"]
    BY <2>1, PublishTells
  <2> QED BY <2>2 DEF FirstIsHeard
<1>8. CASE HearSome
  <2>1. PICK s \in Signals, cut \in 1..(2 * MAX_SYMBOLS) :
          cut \in DOMAIN s.pulses /\ (Hear(s, 1, cut) \/ Hear(s, cut, Len(s.pulses)))
    BY <1>8 DEF HearSome
  <2>2. Len(s.pulses) \in Nat /\ DOMAIN s.pulses = 1..Len(s.pulses)
    BY SignalsAreSequences DEF Sequence
  <2>3. cut \in 1..Len(s.pulses) /\ 1 \in 1..Len(s.pulses) /\ Len(s.pulses) \in 1..Len(s.pulses)
    BY <2>1, <2>2
  <2> QED BY <2>1, <2>3, FirstHeard
<1>9. CASE SourceEnds
  BY <1>9, NothingHeard DEF SourceEnds
<1>10. CASE UNCHANGED radioVars
  BY <1>1, <1>10 DEF radioVars
<1> QED BY <1>3, <1>4, <1>5, <1>6, <1>7, <1>8, <1>9, <1>10 DEF RadioNext, RadioTask

\* Whatever is asked, heard, cut short or fails on the bus, the channels stay within their places,
\* a decoder within its frame, nothing but an encodable request is keyed, and a controller that
\* waits listens unless the parking of it failed; and the first frame of a press, measured whole, is
\* published as it was sent, whatever an earlier reception left in the decoder (somfy-tasks radio.rs,
\* transmit and receive; somfy-rts rx.rs): for any widths, frames, places, requests and faults.
THEOREM RadioSafety == RadioSpec => []RadioSafe
<1>1. RadioInit => RadioInv /\ FirstIsHeard
  <2>1. RadioInit => FirstIsHeard
    BY DEF RadioInit, Quiet, FirstIsHeard
  <2> QED BY <2>1, RadioStarts
<1>4. RadioInv /\ FirstIsHeard /\ [RadioNext]_radioVars => FirstIsHeard'
  BY FirstKeeps
<1>2. RadioInv /\ [RadioNext]_radioVars => RadioInv'
  <2> SUFFICES ASSUME RadioInv, [RadioNext]_radioVars PROVE RadioInv'
    OBVIOUS
  <2>1. CASE \E r \in Requests : Enqueue(r)
    BY <2>1, EnqueueKeeps
  <2>2. CASE TakeFrame
    BY <2>2, TakeFrameKeeps
  <2>3. CASE TakeRequest
    BY <2>3, TakeRequestKeeps
  <2>4. CASE SendFrame
    BY <2>4, SendFrameKeeps
  <2>5. CASE ReceiveLeft
    BY <2>5, ReceiveLeftKeeps
  <2>6. CASE HearSome
    BY <2>6, HearSomeKeeps
  <2>7. CASE SourceEnds
    BY <2>7, SourceEndsKeeps
  <2>8. CASE UNCHANGED radioVars
    BY <2>8, RadioStutters
  <2> QED BY <2>1, <2>2, <2>3, <2>4, <2>5, <2>6, <2>7, <2>8 DEF RadioNext, RadioTask
<1>3. RadioInv /\ FirstIsHeard => RadioSafe
  BY RadioInvGives DEF RadioSafe
<1> QED BY <1>1, <1>2, <1>3, <1>4, PTL DEF RadioSpec

-----------------------------------------------------------------------------
(* What a frame is on the air fits the peripheral (RtsSignal)              *)

\* Pulses of which no three in a row are of one level, and of which no two in a row outlast an entry.
Brief(pulses, n) ==
    /\ \A i \in 1..n : pulses[i] \in Pulses /\ pulses[i].micros <= MAX_TICKS
    /\ \A i \in 2..n : pulses[i - 1].micros + pulses[i].micros <= MAX_TICKS
    /\ \A i \in 3..n : pulses[i - 2].high = pulses[i - 1].high => pulses[i - 1].high # pulses[i].high

\* What so many of them are joined to: the last segment is of one pulse or of two.
LastOf(pulses, i, p) ==
    /\ p.high = pulses[i].high
    /\ \/ p.micros = pulses[i].micros
       \/ i >= 2 /\ pulses[i - 1].high = pulses[i].high /\ p.micros = pulses[i - 1].micros + pulses[i].micros

JoinedSoFar(pulses, i, merged) ==
    \E past \in Seq(Pulses), p \in Pulses :
        /\ merged = Append(past, p) /\ Len(past) + 1 <= i
        /\ \A j \in 1..Len(past) : past[j].micros <= MAX_TICKS
        /\ LastOf(pulses, i, p)

\* The last segment fits its entry.
LEMMA LastFits ==
    ASSUME NEW pulses, NEW n \in Nat, Brief(pulses, n), NEW i \in 1..n, NEW p, LastOf(pulses, i, p)
    PROVE  p.micros <= MAX_TICKS
<1>1. CASE p.micros = pulses[i].micros
  BY <1>1 DEF Brief
<1>2. CASE i >= 2 /\ p.micros = pulses[i - 1].micros + pulses[i].micros
  <2>1. i \in 2..n
    BY <1>2
  <2> QED BY <1>2, <2>1 DEF Brief
<1> QED BY <1>1, <1>2 DEF LastOf

\* One more pulse lengthens a segment of one, or begins another.
LEMMA JoinsBriefly ==
    ASSUME NEW pulses, NEW n \in Nat, Brief(pulses, n), NEW i \in Nat \ {0}, i + 1 \in 1..n,
           NEW merged, JoinedSoFar(pulses, i, merged)
    PROVE  JoinedSoFar(pulses, i + 1, Joined(merged, pulses[i + 1]))
<1>1. PICK past \in Seq(Pulses), p \in Pulses :
        /\ merged = Append(past, p) /\ Len(past) + 1 <= i
        /\ \A j \in 1..Len(past) : past[j].micros <= MAX_TICKS
        /\ LastOf(pulses, i, p)
  BY DEF JoinedSoFar
<1>2. PICK q \in Pulses : q = pulses[i + 1]
  BY DEF Brief
<1>3. PICK o \in Pulses : o = pulses[i]
  <2>1. i \in 1..n
    OBVIOUS
  <2> QED BY <2>1 DEF Brief
<1>4. CASE q.high = p.high
  <2>1. Joined(merged, q) = Append(past, Pulse(p.high, p.micros + q.micros))
    BY <1>1, <1>4, Lengthens
  <2>2. PICK r \in Pulses : r = Pulse(p.high, p.micros + q.micros)
    BY PulsesAdd
  <2>3. r.high = q.high /\ r.micros = p.micros + q.micros
    BY <1>4, <2>2, PulseParts
  <2>4. p.micros = o.micros /\ o.high = q.high
    <3>1. o.high = q.high
      BY <1>1, <1>3, <1>4 DEF LastOf
    <3>2. CASE p.micros = pulses[i].micros
      BY <1>3, <3>1, <3>2
    <3>3. CASE i >= 2 /\ pulses[i - 1].high = pulses[i].high
      <4>1. i + 1 \in 3..n /\ (i + 1) - 2 = i - 1 /\ (i + 1) - 1 = i
        BY <3>3
      <4>2. pulses[(i + 1) - 2].high = pulses[(i + 1) - 1].high => pulses[(i + 1) - 1].high # pulses[i + 1].high
        BY <4>1, Zenon DEF Brief
      <4>3. pulses[i].high # pulses[i + 1].high
        BY <3>3, <4>1, <4>2
      <4> QED BY <1>2, <1>3, <3>1, <4>3
    <3> QED BY <1>1, <3>2, <3>3 DEF LastOf
  <2>5. LastOf(pulses, i + 1, r)
    <3>1. (i + 1) - 1 = i /\ i + 1 >= 2
      OBVIOUS
    <3> QED BY <1>2, <1>3, <2>3, <2>4, <3>1 DEF LastOf
  <2>6. Len(past) + 1 <= i + 1
    BY <1>1
  <2> QED BY <1>1, <1>2, <2>1, <2>2, <2>5, <2>6 DEF JoinedSoFar
<1>5. CASE q.high # p.high
  <2>1. PICK longer \in Seq(Pulses) : longer = Append(past, p) /\ Len(longer) = Len(past) + 1
    <3>1. Append(past, p) \in Seq(Pulses) /\ Len(Append(past, p)) = Len(past) + 1
      BY <1>1
    <3> QED BY <3>1
  <2>2. Joined(merged, q) = Append(longer, q)
    BY <1>1, <1>5, <2>1, Separates
  <2>3. \A j \in 1..Len(longer) : longer[j].micros <= MAX_TICKS
    <3> SUFFICES ASSUME NEW j \in 1..Len(longer) PROVE longer[j].micros <= MAX_TICKS
      OBVIOUS
    <3>1. CASE j = Len(longer)
      <4>1. longer[j] = p
        BY <2>1, <3>1
      <4>2. i \in 1..n
        OBVIOUS
      <4> QED BY <1>1, <4>1, <4>2, LastFits
    <3>2. CASE j # Len(longer)
      <4>1. j \in 1..Len(past) /\ longer[j] = past[j]
        BY <2>1, <3>2
      <4> QED BY <1>1, <4>1
    <3> QED BY <3>1, <3>2
  <2>4. LastOf(pulses, i + 1, q)
    BY <1>2 DEF LastOf
  <2>5. Len(longer) + 1 <= i + 1
    BY <1>1, <2>1
  <2> QED BY <1>2, <2>2, <2>3, <2>4, <2>5 DEF JoinedSoFar
<1> QED BY <1>4, <1>5

\* Brief pulses join to segments that fit, no more of them than there were pulses.
LEMMA BriefFits ==
    ASSUME NEW pulses, NEW n \in Nat \ {0}, Brief(pulses, n), NEW h, Joins(h, pulses, n)
    PROVE  h[n] \in Seq(Pulses) /\ Fits(h[n]) /\ Len(h[n]) <= n
<1> DEFINE bad == {i \in 1..n : ~JoinedSoFar(pulses, i, h[i])}
<1>1. JoinedSoFar(pulses, 1, h[1])
  <2>1. 1 \in 1..n
    OBVIOUS
  <2>2. PICK q \in Pulses : q = pulses[1]
    BY <2>1 DEF Brief
  <2>3. h[1] = Joined(<<>>, q)
    BY <2>1, <2>2 DEF Joins
  <2>4. PICK none \in Seq(Pulses) : none = <<>> /\ Len(none) = 0 /\ \A j \in 1..Len(none) : FALSE
    <3>1. <<>> \in Seq(Pulses) /\ Len(<<>>) = 0 /\ \A j \in 1..Len(<<>>) : FALSE
      OBVIOUS
    <3> QED BY <3>1
  <2>5. h[1] = Append(none, q)
    BY <2>3, <2>4 DEF Joined
  <2>6. LastOf(pulses, 1, q)
    BY <2>2 DEF LastOf
  <2>7. Len(none) + 1 <= 1
    BY <2>4
  <2> QED BY <2>4, <2>5, <2>6, <2>7 DEF JoinedSoFar
<1>2. bad = {}
  <2> SUFFICES ASSUME bad # {} PROVE FALSE
    OBVIOUS
  <2>1. PICK i \in bad : \A j \in bad : i <= j
    <3>1. bad \in SUBSET Nat
      OBVIOUS
    <3> QED BY <3>1, Least
  <2>2. i \in 1..n /\ i # 1 /\ ~JoinedSoFar(pulses, i, h[i])
    BY <1>1, <2>1
  <2>3. PICK k \in Nat \ {0} : k + 1 = i /\ k \in 1..n /\ i - 1 = k /\ ~(i <= k)
    BY <2>2
  <2>4. JoinedSoFar(pulses, k, h[k])
    BY <2>1, <2>3
  <2>5. h[i] = Joined(h[k], pulses[i])
    BY <2>2, <2>3 DEF Joins
  <2>6. JoinedSoFar(pulses, k + 1, Joined(h[k], pulses[k + 1]))
    BY <2>2, <2>3, <2>4, JoinsBriefly
  <2> QED BY <2>2, <2>3, <2>5, <2>6
<1>3. JoinedSoFar(pulses, n, h[n])
  BY <1>2
<1>4. PICK past \in Seq(Pulses), p \in Pulses :
        /\ h[n] = Append(past, p) /\ Len(past) + 1 <= n
        /\ \A j \in 1..Len(past) : past[j].micros <= MAX_TICKS
        /\ LastOf(pulses, n, p)
  BY <1>3 DEF JoinedSoFar
<1>5. PICK merged \in Seq(Pulses) : /\ merged = h[n] /\ Len(merged) = Len(past) + 1 /\ merged[Len(merged)] = p
                                    /\ \A j \in 1..Len(past) : merged[j] = past[j]
  <2>1. Append(past, p) \in Seq(Pulses) /\ Len(Append(past, p)) = Len(past) + 1
        /\ Append(past, p)[Len(past) + 1] = p /\ \A j \in 1..Len(past) : Append(past, p)[j] = past[j]
    OBVIOUS
  <2> QED BY <1>4, <2>1
<1>6. p.micros <= MAX_TICKS
  <2>1. n \in 1..n
    OBVIOUS
  <2> QED BY <1>4, <2>1, LastFits
<1>7. \A j \in DOMAIN merged : merged[j].micros <= MAX_TICKS
  <2> SUFFICES ASSUME NEW j \in 1..Len(merged) PROVE merged[j].micros <= MAX_TICKS
    OBVIOUS
  <2>1. CASE j = Len(merged)
    BY <1>5, <1>6, <2>1
  <2>2. CASE j # Len(merged)
    <3>1. j \in 1..Len(past)
      BY <1>5, <2>2
    <3> QED BY <1>4, <1>5, <3>1
  <2> QED BY <2>1, <2>2
<1> QED BY <1>4, <1>5, <1>7 DEF Fits

\* A pair of pulses of which one is high and one is low, neither longer than the wakeup.
Opposed(p, q) ==
    /\ p \in Pulses /\ q \in Pulses /\ p.high # q.high
    /\ p.micros <= WAKEUP_HIGH /\ q.micros <= WAKEUP_HIGH

\* Two levels that differ make such a pair of lengths that are not too long.
LEMMA OpposedPair ==
    ASSUME NEW high \in BOOLEAN, NEW low \in BOOLEAN, high # low,
           NEW m \in Nat \ {0}, NEW n \in Nat \ {0}, m <= WAKEUP_HIGH, n <= WAKEUP_HIGH
    PROVE  Opposed(Pulse(high, m), Pulse(low, n))
BY PulseTypes, PulseParts DEF Opposed

\* The lengths are no longer than the wakeup, the silence aside.
LEMMA NoneLonger ==
    /\ WAKEUP_HIGH <= WAKEUP_HIGH /\ WAKEUP_LOW <= WAKEUP_HIGH /\ HW_SYNC_HALF <= WAKEUP_HIGH
    /\ SW_SYNC_HIGH <= WAKEUP_HIGH /\ HALF_SYMBOL <= WAKEUP_HIGH
BY DEF WAKEUP_HIGH, WAKEUP_LOW, HW_SYNC_HALF, SW_SYNC_HIGH, HALF_SYMBOL

\* What is rendered is such pairs, one after the other.
LEMMA RenderOpposes ==
    ASSUME NEW bits, Framed(bits), NEW kind \in FrameKinds, NEW pulses, pulses = Render(bits, kind),
           NEW pairs \in Nat, 2 * pairs = Opening(kind) + Halvings(bits, kind) + 2 + 2 * Len(bits)
    PROVE  \A k \in 1..pairs : Opposed(pulses[2 * k - 1], pulses[2 * k])
<1>1. PICK a \in {0, 1} : Opening(kind) = 2 * a /\ (a = 1 => kind = "First")
  <2>1. CASE kind = "First"
    <3>1. Opening(kind) = 2 * 1
      BY <2>1 DEF Opening
    <3> QED BY <2>1, <3>1
  <2>2. CASE kind # "First"
    <3>1. Opening(kind) = 2 * 0
      BY <2>2 DEF Opening
    <3> QED BY <3>1
  <2> QED BY <2>1, <2>2
<1>11. PICK from \in Nat : from = Opening(kind) /\ from = 2 * a
  BY <1>1
<1>2. PICK c \in Nat : Halvings(bits, kind) = 2 * c
  <2>1. PICK c \in Nat : c = Syncs(Len(bits) = Wide, kind)
    BY SyncsTell
  <2> QED BY <2>1 DEF Halvings
<1>12. PICK count \in Nat : count = Halvings(bits, kind) /\ count = 2 * c
  BY <1>2
<1>3. PICK n \in Nat : n = Len(bits)
  BY DEF Framed
<1>4. pairs = a + c + 1 + n
  BY <1>11, <1>12, <1>3
<1>5. /\ kind = "First" => pulses[1] = High(WAKEUP_HIGH) /\ pulses[2] = Low(WAKEUP_LOW)
      /\ PlaysTrain(pulses, from, count)
      /\ PlaysStart(pulses, from + count)
      /\ PlaysBits(pulses, from + count + 2, bits)
  BY <1>11, <1>12, <1>3, RenderPlays, Zenon
<1> SUFFICES ASSUME NEW k \in 1..pairs PROVE Opposed(pulses[2 * k - 1], pulses[2 * k])
  OBVIOUS
<1>6. CASE k <= a
  <2>1. k = 1 /\ a = 1 /\ 2 * k - 1 = 1 /\ 2 * k = 2
    BY <1>1, <1>6
  <2>2. pulses[1] = Pulse(TRUE, WAKEUP_HIGH) /\ pulses[2] = Pulse(FALSE, WAKEUP_LOW)
    BY <1>1, <1>5, <2>1 DEF High, Low
  <2>3. Opposed(Pulse(TRUE, WAKEUP_HIGH), Pulse(FALSE, WAKEUP_LOW))
    BY OpposedPair, Lasting, NoneLonger
  <2> QED BY <2>1, <2>2, <2>3
<1>7. CASE k \in (a + 1)..(a + c)
  <2>1. PICK m \in 1..c : k = a + m
    <3>1. k - a \in 1..c /\ k = a + (k - a)
      BY <1>7
    <3> QED BY <3>1
  <2>4. PICK i \in 1..count : i = 2 * m - 1 /\ from + i = 2 * k - 1 /\ i % 2 = 1
    BY <1>11, <1>12, <2>1
  <2>5. PICK j \in 1..count : j = 2 * m /\ from + j = 2 * k /\ j % 2 # 1
    BY <1>11, <1>12, <2>1
  <2>6. (i % 2 = 1) = TRUE /\ (j % 2 = 1) = FALSE
    BY <2>4, <2>5
  <2>2. pulses[2 * k - 1] = Pulse(TRUE, HW_SYNC_HALF) /\ pulses[2 * k] = Pulse(FALSE, HW_SYNC_HALF)
    <3>1. pulses[from + i] = Pulse(i % 2 = 1, HW_SYNC_HALF) /\ pulses[from + j] = Pulse(j % 2 = 1, HW_SYNC_HALF)
      BY <1>5 DEF PlaysTrain
    <3> QED BY <2>4, <2>5, <2>6, <3>1
  <2>3. Opposed(Pulse(TRUE, HW_SYNC_HALF), Pulse(FALSE, HW_SYNC_HALF))
    BY OpposedPair, Lasting, NoneLonger
  <2> QED BY <2>2, <2>3
<1>8. CASE k = a + c + 1
  <2>1. from + count + 1 = 2 * k - 1 /\ from + count + 2 = 2 * k
    BY <1>11, <1>12, <1>8
  <2>2. pulses[2 * k - 1] = Pulse(TRUE, SW_SYNC_HIGH) /\ pulses[2 * k] = Pulse(FALSE, HALF_SYMBOL)
    BY <1>5, <2>1 DEF PlaysStart, High, Low
  <2>3. Opposed(Pulse(TRUE, SW_SYNC_HIGH), Pulse(FALSE, HALF_SYMBOL))
    BY OpposedPair, Lasting, NoneLonger
  <2> QED BY <2>2, <2>3
<1>9. CASE k > a + c + 1
  <2>1. PICK b \in 1..n : k = a + c + 1 + b
    <3>1. k - (a + c + 1) \in 1..n /\ k = a + c + 1 + (k - (a + c + 1))
      BY <1>4, <1>9
    <3> QED BY <3>1
  <2>2. from + count + 2 + 2 * b - 1 = 2 * k - 1 /\ from + count + 2 + 2 * b = 2 * k
    BY <1>11, <1>12, <2>1
  <2>3. /\ pulses[2 * k - 1] = Pulse(bits[b] = 0, HALF_SYMBOL)
        /\ pulses[2 * k] = Pulse(bits[b] = 1, HALF_SYMBOL)
    BY <1>3, <1>5, <2>2 DEF PlaysBits
  <2>4. bits[b] \in {0, 1}
    BY <1>3 DEF Framed
  <2>5. PICK zero \in BOOLEAN : zero = (bits[b] = 0)
    OBVIOUS
  <2>7. PICK one \in BOOLEAN : one = (bits[b] = 1)
    OBVIOUS
  <2>8. zero # one
    BY <2>4, <2>5, <2>7
  <2>6. Opposed(Pulse(zero, HALF_SYMBOL), Pulse(one, HALF_SYMBOL))
    BY <2>8, OpposedPair, Lasting, NoneLonger
  <2> QED BY <2>3, <2>5, <2>6, <2>7
<1>10. k <= a \/ k \in (a + 1)..(a + c) \/ k = a + c + 1 \/ k > a + c + 1
  OBVIOUS
<1> QED BY <1>6, <1>7, <1>8, <1>9, <1>10

\* So what is rendered is brief, and of no more pulses than a frame of its width may have.
LEMMA RenderIsBrief ==
    ASSUME NEW bits, Framed(bits), NEW kind \in FrameKinds, NEW pulses, pulses = Render(bits, kind)
    PROVE  /\ Len(pulses) \in Nat \ {0} /\ Len(pulses) <= 29 + 2 * Len(bits)
           /\ Brief(pulses, Len(pulses))
<1>1. PICK n \in Nat \ {0} : n = Len(bits)
  BY WidthAssumption DEF Framed
<1>2. PICK pairs \in Nat : 2 * pairs = Opening(kind) + Halvings(bits, kind) + 2 + 2 * n
                           /\ 2 * pairs <= 28 + 2 * n /\ pairs >= 1
  <2>1. PICK c \in 2..12 : c = Syncs(Len(bits) = Wide, kind)
    BY SyncsTell
  <2>2. PICK a \in {0, 1} : Opening(kind) = 2 * a
    <3>1. Opening(kind) = 2 * 1 \/ Opening(kind) = 2 * 0
      BY DEF Opening
    <3> QED BY <3>1
  <2>3. Halvings(bits, kind) = 2 * c
    BY <2>1 DEF Halvings
  <2>4. PICK e \in Nat : e = a + c + 1 + n
    OBVIOUS
  <2>5. 2 * e = Opening(kind) + Halvings(bits, kind) + 2 + 2 * n /\ 2 * e <= 28 + 2 * n /\ e >= 1
    BY <2>2, <2>3, <2>4
  <2> QED BY <2>5
<1>3. PICK end \in Nat : end = 2 * pairs
  OBVIOUS
<1>4. /\ Len(pulses) = IF n = Wide THEN end ELSE end + 1
      /\ n # Wide => pulses[end + 1] = Low(INTER_FRAME_GAP)
      /\ pulses[end] = Pulse(bits[n] = 1, HALF_SYMBOL)
  <2>1. PICK from \in Nat : from = Opening(kind)
    BY DEF Opening
  <2>2. PICK count \in Nat : count = Halvings(bits, kind)
    BY SyncsTell DEF Halvings
  <2>3. end = from + count + 2 + 2 * n
    BY <1>2, <1>3, <2>1, <2>2
  <2>4. /\ Len(pulses) = IF n = Wide THEN from + count + 2 + 2 * n ELSE from + count + 2 + 2 * n + 1
        /\ n # Wide => pulses[from + count + 2 + 2 * n + 1] = Low(INTER_FRAME_GAP)
        /\ PlaysBits(pulses, from + count + 2, bits)
    BY <1>1, <2>1, <2>2, RenderPlays, Zenon
  <2>5. n \in 1..n
    OBVIOUS
  <2>6. pulses[from + count + 2 + 2 * n] = Pulse(bits[n] = 1, HALF_SYMBOL)
    BY <1>1, <2>4, <2>5 DEF PlaysBits
  <2> QED BY <2>3, <2>4, <2>6
<1>5. \A k \in 1..pairs : Opposed(pulses[2 * k - 1], pulses[2 * k])
  BY <1>1, <1>2, RenderOpposes
<1>6. WAKEUP_HIGH = 10920 /\ INTER_FRAME_GAP = 27434 /\ HALF_SYMBOL = 640 /\ MAX_TICKS = 32767
  BY DEF WAKEUP_HIGH, INTER_FRAME_GAP, HALF_SYMBOL, MAX_TICKS
<1>7. ASSUME NEW i \in 1..end PROVE pulses[i] \in Pulses /\ pulses[i].micros <= WAKEUP_HIGH
  <2>1. CASE i % 2 = 1
    <3>1. PICK k \in 1..pairs : i = 2 * k - 1
      <4>1. (i + 1) \div 2 \in 1..pairs /\ i = 2 * ((i + 1) \div 2) - 1
        BY <1>3, <2>1
      <4> QED BY <4>1
    <3> QED BY <1>5, <3>1 DEF Opposed
  <2>2. CASE i % 2 # 1
    <3>1. PICK k \in 1..pairs : i = 2 * k
      <4>1. i \div 2 \in 1..pairs /\ i = 2 * (i \div 2)
        BY <1>3, <2>2
      <4> QED BY <4>1
    <3> QED BY <1>5, <3>1 DEF Opposed
  <2> QED BY <2>1, <2>2
<1>8. PICK m \in Nat \ {0} : m = Len(pulses) /\ m \in {end, end + 1} /\ (m = end + 1 => n # Wide)
  BY <1>2, <1>3, <1>4
<1>9. m = end + 1 => /\ pulses[end + 1] \in Pulses /\ pulses[end + 1].micros = INTER_FRAME_GAP
                     /\ pulses[end].micros = HALF_SYMBOL
  <2> SUFFICES ASSUME m = end + 1
               PROVE  /\ pulses[end + 1] \in Pulses /\ pulses[end + 1].micros = INTER_FRAME_GAP
                      /\ pulses[end].micros = HALF_SYMBOL
    OBVIOUS
  <2>1. pulses[end + 1] = Pulse(FALSE, INTER_FRAME_GAP)
    BY <1>4, <1>8 DEF Low
  <2>2. Pulse(FALSE, INTER_FRAME_GAP) \in Pulses
    BY PulseTypes, Lasting
  <2>3. Pulse(FALSE, INTER_FRAME_GAP).micros = INTER_FRAME_GAP
    BY PulseParts
  <2>4. pulses[end].micros = HALF_SYMBOL
    BY <1>4, PulseParts
  <2> QED BY <2>1, <2>2, <2>3, <2>4
<1>10. \A i \in 1..m : pulses[i] \in Pulses /\ pulses[i].micros <= MAX_TICKS
  <2> SUFFICES ASSUME NEW i \in 1..m PROVE pulses[i] \in Pulses /\ pulses[i].micros <= MAX_TICKS
    OBVIOUS
  <2>1. CASE i \in 1..end
    <3>1. PICK p \in Pulses : p = pulses[i] /\ p.micros <= WAKEUP_HIGH
      BY <1>7, <2>1
    <3> QED BY <1>6, <3>1 DEF Pulses
  <2>2. CASE i \notin 1..end
    <3>1. i = end + 1 /\ m = end + 1
      BY <1>8, <2>2
    <3> QED BY <1>6, <1>9, <3>1
  <2> QED BY <2>1, <2>2
<1>11. \A i \in 2..m : pulses[i - 1].micros + pulses[i].micros <= MAX_TICKS
  <2> SUFFICES ASSUME NEW i \in 2..m PROVE pulses[i - 1].micros + pulses[i].micros <= MAX_TICKS
    OBVIOUS
  <2>1. CASE i \in 1..end
    <3>1. i - 1 \in 1..end
      BY <2>1
    <3>2. PICK p \in Pulses : p = pulses[i] /\ p.micros <= WAKEUP_HIGH
      BY <1>7, <2>1
    <3>3. PICK q \in Pulses : q = pulses[i - 1] /\ q.micros <= WAKEUP_HIGH
      BY <1>7, <3>1
    <3> QED BY <1>6, <3>2, <3>3 DEF Pulses
  <2>2. CASE i \notin 1..end
    <3>1. i = end + 1 /\ m = end + 1 /\ i - 1 = end
      BY <1>8, <2>2
    <3> QED BY <1>6, <1>9, <3>1
  <2> QED BY <2>1, <2>2
<1>12. \A i \in 3..m : pulses[i - 2].high = pulses[i - 1].high => pulses[i - 1].high # pulses[i].high
  <2> SUFFICES ASSUME NEW i \in 3..m, pulses[i - 2].high = pulses[i - 1].high
               PROVE  pulses[i - 1].high # pulses[i].high
    OBVIOUS
  <2>1. CASE i % 2 = 0
    <3>1. PICK k \in 1..pairs : i = 2 * k /\ i - 1 = 2 * k - 1
      <4>1. i \div 2 \in 1..pairs /\ i = 2 * (i \div 2) /\ i - 1 = 2 * (i \div 2) - 1
        BY <1>3, <1>8, <2>1
      <4> QED BY <4>1
    <3> QED BY <1>5, <3>1 DEF Opposed
  <2>2. CASE i % 2 # 0
    <3>1. PICK k \in 1..pairs : i - 1 = 2 * k /\ i - 2 = 2 * k - 1
      <4>1. (i - 1) \div 2 \in 1..pairs /\ i - 1 = 2 * ((i - 1) \div 2) /\ i - 2 = 2 * ((i - 1) \div 2) - 1
        BY <1>3, <1>8, <2>2
      <4> QED BY <4>1
    <3> QED BY <1>5, <3>1 DEF Opposed
  <2> QED BY <2>1, <2>2
<1>13. m <= 29 + 2 * n
  BY <1>2, <1>3, <1>8
<1> QED BY <1>1, <1>8, <1>10, <1>11, <1>12, <1>13 DEF Brief

\* A frame of the widths of the field fits the peripheral, whatever its bits.
LEMMA FrameFits ==
    ASSUME NEW bits, Framed(bits), Len(bits) <= 80, NEW kind \in FrameKinds
    PROVE  BuildSymbols(bits, kind) = {Marked(Merge(Render(bits, kind)))}
<1>1. PICK pulses : pulses = Render(bits, kind)
  OBVIOUS
<1>2. PICK n \in Nat \ {0} : n = Len(pulses) /\ n <= 29 + 2 * Len(bits) /\ Brief(pulses, n)
  BY <1>1, RenderIsBrief
<1>3. PICK h : Joins(h, pulses, n)
  <2>1. PICK d \in Hearers(kind) : TRUE
    BY NewIsDecoder DEF Hearers
  <2>2. PICK pace \in Allowed : TRUE
    BY DEF Allowed
  <2>3. Completed(d, pace, pulses, Len(pulses), bits)
    BY <1>1, FrameStands
  <2> QED BY <1>2, <2>3 DEF Completed, Standing
<1>4. Merge(pulses) = h[n]
  BY <1>2, <1>3, MergeIs
<1>5. PICK merged \in Seq(Pulses) : merged = h[n] /\ Fits(merged) /\ Len(merged) <= n
  BY <1>2, <1>3, BriefFits
<1>6. Len(Marked(merged)) \in 0..MAX_SYMBOLS
  <2>1. PICK k \in Nat : k = Len(Marked(merged)) /\ 2 * k <= Len(merged) + 2
    BY UnpacksMarked
  <2>2. PICK l \in Nat : l = Len(merged) /\ l <= n
    BY <1>5
  <2>4. PICK b \in Nat : b = Len(bits) /\ b <= 80
    BY DEF Framed
  <2>3. k <= 96
    BY <1>2, <2>1, <2>2, <2>4
  <2>5. PICK most \in Nat : most = MAX_SYMBOLS /\ k <= most
    BY <2>3 DEF MAX_SYMBOLS
  <2> QED BY <2>1, <2>5
<1>7. {m \in {Merge(pulses)} : Fits(m)} = {merged}
  BY <1>4, <1>5
<1> QED BY <1>1, <1>6, <1>7 DEF BuildSymbols

-----------------------------------------------------------------------------
(* The bytes of a frame (RtsFrame)                                         *)

Nibbles == 0..15
Eight == [1..8 -> {0, 1}]

\* The bits of a byte.
Spread(n) == [k \in 1..8 |-> Bit(n, k)]

\* The byte of eight bits is the sum of their weights.
LEMMA EightBits ==
    ASSUME NEW v \in Eight
    PROVE  \E a, b, c, d, e, f, g, h \in {0, 1} :
             /\ v[1] = a /\ v[2] = b /\ v[3] = c /\ v[4] = d
             /\ v[5] = e /\ v[6] = f /\ v[7] = g /\ v[8] = h
             /\ ByteOf(v) = 128 * a + 64 * b + 32 * c + 16 * d + 8 * e + 4 * f + 2 * g + h
BY DEF Eight, ByteOf

\* Eight bits make a byte.
LEMMA ByteOfIsByte ==
    ASSUME NEW v \in Eight
    PROVE  ByteOf(v) \in Byte
BY EightBits DEF Byte

\* A byte has eight bits.
LEMMA SpreadIsEight ==
    ASSUME NEW n \in Byte
    PROVE  Spread(n) \in Eight
<1>1. ASSUME NEW k \in 1..8 PROVE Bit(n, k) \in {0, 1}
  <2>1. Weight[k] \in Nat \ {0}
    BY DEF Weight
  <2>2. PICK w \in Nat \ {0} : w = Weight[k]
    BY <2>1
  <2>3. n \in Int /\ n \div w \in Int
    BY DEF Byte
  <2> QED BY <2>2, <2>3 DEF Bit
<1> QED BY <1>1 DEF Spread, Eight

\* The byte of the bits of a byte is the byte.
LEMMA ByteOfSpread ==
    ASSUME NEW n \in Byte
    PROVE  ByteOf(Spread(n)) = n
<1>1. PICK q1 \in 0..127, h \in {0, 1} : n = 2 * q1 + h
  <2>1. n = 2 * (n \div 2) + (n % 2) /\ n \div 2 \in 0..127 /\ n % 2 \in {0, 1}
    BY DEF Byte
  <2> QED BY <2>1
<1>2. PICK q2 \in 0..63, g \in {0, 1} : q1 = 2 * q2 + g
  <2>1. q1 = 2 * (q1 \div 2) + (q1 % 2) /\ q1 \div 2 \in 0..63 /\ q1 % 2 \in {0, 1}
    OBVIOUS
  <2> QED BY <2>1
<1>3. PICK q3 \in 0..31, f \in {0, 1} : q2 = 2 * q3 + f
  <2>1. q2 = 2 * (q2 \div 2) + (q2 % 2) /\ q2 \div 2 \in 0..31 /\ q2 % 2 \in {0, 1}
    OBVIOUS
  <2> QED BY <2>1
<1>4. PICK q4 \in 0..15, e \in {0, 1} : q3 = 2 * q4 + e
  <2>1. q3 = 2 * (q3 \div 2) + (q3 % 2) /\ q3 \div 2 \in 0..15 /\ q3 % 2 \in {0, 1}
    OBVIOUS
  <2> QED BY <2>1
<1>5. PICK q5 \in 0..7, d \in {0, 1} : q4 = 2 * q5 + d
  <2>1. q4 = 2 * (q4 \div 2) + (q4 % 2) /\ q4 \div 2 \in 0..7 /\ q4 % 2 \in {0, 1}
    OBVIOUS
  <2> QED BY <2>1
<1>6. PICK q6 \in 0..3, c \in {0, 1} : q5 = 2 * q6 + c
  <2>1. q5 = 2 * (q5 \div 2) + (q5 % 2) /\ q5 \div 2 \in 0..3 /\ q5 % 2 \in {0, 1}
    OBVIOUS
  <2> QED BY <2>1
<1>7. PICK a \in {0, 1}, b \in {0, 1} : q6 = 2 * a + b
  <2>1. q6 = 2 * (q6 \div 2) + (q6 % 2) /\ q6 \div 2 \in {0, 1} /\ q6 % 2 \in {0, 1}
    OBVIOUS
  <2> QED BY <2>1
<1>8. n \div 1 = n /\ n \div 2 = q1 /\ n \div 4 = q2 /\ n \div 8 = q3
  BY <1>1, <1>2, <1>3 DEF Byte
<1>9. n \div 16 = q4 /\ n \div 32 = q5 /\ n \div 64 = q6 /\ n \div 128 = a
  BY <1>1, <1>2, <1>3, <1>4, <1>5, <1>6, <1>7 DEF Byte
<1>10. n % 2 = h /\ q1 % 2 = g /\ q2 % 2 = f /\ q3 % 2 = e
  BY <1>1, <1>2, <1>3, <1>4
<1>11. q4 % 2 = d /\ q5 % 2 = c /\ q6 % 2 = b /\ a % 2 = a
  BY <1>5, <1>6, <1>7
<1>12. Bit(n, 1) = a /\ Bit(n, 2) = b /\ Bit(n, 3) = c /\ Bit(n, 4) = d
  BY <1>9, <1>11 DEF Bit, Weight
<1>13. Bit(n, 5) = e /\ Bit(n, 6) = f /\ Bit(n, 7) = g /\ Bit(n, 8) = h
  BY <1>8, <1>10 DEF Bit, Weight
<1>14. PICK v : v = Spread(n)
  OBVIOUS
<1>15. /\ v[1] = a /\ v[2] = b /\ v[3] = c /\ v[4] = d
       /\ v[5] = e /\ v[6] = f /\ v[7] = g /\ v[8] = h
  BY <1>12, <1>13, <1>14 DEF Spread
<1>16. n = 128 * a + 64 * b + 32 * c + 16 * d + 8 * e + 4 * f + 2 * g + h
  BY <1>1, <1>2, <1>3, <1>4, <1>5, <1>6, <1>7
<1> QED BY <1>14, <1>15, <1>16 DEF ByteOf

\* The bits of the byte of eight bits are those bits.
LEMMA SpreadByteOf ==
    ASSUME NEW v \in Eight
    PROVE  Spread(ByteOf(v)) = v
<1>1. PICK a, b, c, d, e, f, g, h \in {0, 1} :
             /\ v[1] = a /\ v[2] = b /\ v[3] = c /\ v[4] = d
             /\ v[5] = e /\ v[6] = f /\ v[7] = g /\ v[8] = h
             /\ ByteOf(v) = 128 * a + 64 * b + 32 * c + 16 * d + 8 * e + 4 * f + 2 * g + h
  BY EightBits
<1>2. PICK n \in Byte : n = ByteOf(v)
  BY ByteOfIsByte
<1>3. n = 128 * a + 64 * b + 32 * c + 16 * d + 8 * e + 4 * f + 2 * g + h
  BY <1>1, <1>2
<1>4. (n \div 128) % 2 = a /\ (n \div 64) % 2 = b
  BY <1>3
<1>5. (n \div 32) % 2 = c /\ (n \div 16) % 2 = d
  BY <1>3
<1>6. (n \div 8) % 2 = e /\ (n \div 4) % 2 = f
  BY <1>3
<1>7. (n \div 2) % 2 = g /\ (n \div 1) % 2 = h
  BY <1>3
<1>8. Bit(n, 1) = a /\ Bit(n, 2) = b /\ Bit(n, 3) = c /\ Bit(n, 4) = d
  BY <1>4, <1>5 DEF Bit, Weight
<1>9. Bit(n, 5) = e /\ Bit(n, 6) = f /\ Bit(n, 7) = g /\ Bit(n, 8) = h
  BY <1>6, <1>7 DEF Bit, Weight
<1>10. \A k \in 1..8 : Bit(n, k) = v[k]
  BY <1>1, <1>8, <1>9
<1> QED BY <1>2, <1>10 DEF Spread, Eight

\* The parity of two bits.
Parity(u, v) == [k \in 1..8 |-> (u[k] + v[k]) % 2]

\* The parity of eight bits and eight bits is eight bits.
LEMMA ParityIsEight ==
    ASSUME NEW u \in Eight, NEW v \in Eight
    PROVE  Parity(u, v) \in Eight
<1>1. ASSUME NEW k \in 1..8 PROVE (u[k] + v[k]) % 2 \in {0, 1}
  <2>1. u[k] \in {0, 1} /\ v[k] \in {0, 1}
    BY DEF Eight
  <2> QED BY <2>1
<1> QED BY <1>1 DEF Parity, Eight

\* The exclusive or is the parity, bit by bit.
LEMMA XorSpreads ==
    ASSUME NEW a \in Byte, NEW b \in Byte
    PROVE  XorOf(a, b) = ByteOf(Parity(Spread(a), Spread(b)))
<1>1. [k \in 1..8 |-> (Bit(a, k) + Bit(b, k)) % 2] = Parity(Spread(a), Spread(b))
  BY DEF Parity, Spread
<1> QED BY <1>1 DEF XorOf

\* The exclusive or of bytes is a byte.
LEMMA XorIsByte ==
    ASSUME NEW a \in Byte, NEW b \in Byte
    PROVE  XorOf(a, b) \in Byte
BY XorSpreads, SpreadIsEight, ParityIsEight, ByteOfIsByte

\* What has been added twice is gone.
LEMMA XorTwice ==
    ASSUME NEW a \in Byte, NEW b \in Byte
    PROVE  XorOf(XorOf(a, b), b) = a
<1>1. PICK u \in Eight : u = Spread(a)
  BY SpreadIsEight
<1>2. PICK v \in Eight : v = Spread(b)
  BY SpreadIsEight
<1>3. PICK w \in Eight : w = Parity(u, v)
  BY ParityIsEight
<1>4. Spread(XorOf(a, b)) = w
  BY <1>1, <1>2, <1>3, XorSpreads, SpreadByteOf
<1>5. Parity(w, v) = u
  <2>1. ASSUME NEW k \in 1..8 PROVE (w[k] + v[k]) % 2 = u[k]
    <3>1. u[k] \in {0, 1} /\ v[k] \in {0, 1} /\ w[k] = (u[k] + v[k]) % 2
      BY <1>3 DEF Eight, Parity
    <3> QED BY <3>1
  <2> QED BY <2>1 DEF Parity, Eight
<1>6. XorOf(XorOf(a, b), b) = ByteOf(Parity(w, v))
  BY <1>2, <1>4, XorIsByte, XorSpreads
<1> QED BY <1>1, <1>5, <1>6, ByteOfSpread

\* In which order is no matter.
LEMMA XorSwap ==
    ASSUME NEW a \in Byte, NEW b \in Byte, NEW c \in Byte
    PROVE  XorOf(XorOf(a, b), c) = XorOf(XorOf(a, c), b)
<1>1. PICK u \in Eight : u = Spread(a)
  BY SpreadIsEight
<1>2. PICK v \in Eight : v = Spread(b)
  BY SpreadIsEight
<1>3. PICK w \in Eight : w = Spread(c)
  BY SpreadIsEight
<1>4. PICK uv \in Eight : uv = Parity(u, v) /\ Spread(XorOf(a, b)) = uv
  BY <1>1, <1>2, XorSpreads, SpreadByteOf, ParityIsEight
<1>5. PICK uw \in Eight : uw = Parity(u, w) /\ Spread(XorOf(a, c)) = uw
  BY <1>1, <1>3, XorSpreads, SpreadByteOf, ParityIsEight
<1>6. Parity(uv, w) = Parity(uw, v)
  <2>1. ASSUME NEW k \in 1..8 PROVE (uv[k] + w[k]) % 2 = (uw[k] + v[k]) % 2
    <3>1. /\ u[k] \in {0, 1} /\ v[k] \in {0, 1} /\ w[k] \in {0, 1}
          /\ uv[k] = (u[k] + v[k]) % 2 /\ uw[k] = (u[k] + w[k]) % 2
      BY <1>4, <1>5 DEF Eight, Parity
    <3> QED BY <3>1
  <2> QED BY <2>1 DEF Parity
<1>7. XorOf(XorOf(a, b), c) = ByteOf(Parity(uv, w)) /\ XorOf(XorOf(a, c), b) = ByteOf(Parity(uw, v))
  BY <1>2, <1>3, <1>4, <1>5, XorIsByte, XorSpreads
<1> QED BY <1>6, <1>7

\* Nothing changes nothing.
LEMMA XorNone ==
    ASSUME NEW a \in Byte
    PROVE  XorOf(a, 0) = a
<1>1. 0 \in Byte
  BY DEF Byte
<1>2. PICK u \in Eight : u = Spread(a)
  BY SpreadIsEight
<1>3. PICK v \in Eight : v = Spread(0)
  BY <1>1, SpreadIsEight
<1>4. Parity(u, v) = u
  <2>1. ASSUME NEW k \in 1..8 PROVE (u[k] + v[k]) % 2 = u[k]
    <3>1. Weight[k] \in Nat \ {0}
      BY DEF Weight
    <3>2. PICK w \in Nat \ {0} : w = Weight[k]
      BY <3>1
    <3>3. 0 \div w = 0
      BY SMT
    <3>4. v[k] = 0 /\ u[k] \in {0, 1}
      BY <1>3, <3>2, <3>3 DEF Spread, Bit, Eight
    <3> QED BY <3>4
  <2> QED BY <2>1 DEF Parity, Eight
<1> QED BY <1>1, <1>2, <1>3, <1>4, XorSpreads, ByteOfSpread

\* A value added to itself is gone.
LEMMA XorSelf ==
    ASSUME NEW a \in Byte
    PROVE  XorOf(a, a) = 0
<1>1. PICK u \in Eight : u = Spread(a)
  BY SpreadIsEight
<1>2. PICK v \in Eight : v = Parity(u, u)
  BY ParityIsEight
<1>3. \A k \in 1..8 : v[k] = 0
  <2>1. ASSUME NEW k \in 1..8 PROVE v[k] = 0
    <3>1. u[k] \in {0, 1} /\ v[k] = (u[k] + u[k]) % 2
      BY <1>2 DEF Eight, Parity
    <3> QED BY <3>1
  <2> QED BY <2>1
<1>4. ByteOf(v) = 0
  BY <1>3 DEF ByteOf
<1> QED BY <1>1, <1>2, <1>4, XorSpreads

\* Of two nibbles it is a nibble.
LEMMA XorIsNibble ==
    ASSUME NEW a \in Nibbles, NEW b \in Nibbles
    PROVE  XorOf(a, b) \in Nibbles
<1>1. a \in Byte /\ b \in Byte
  BY DEF Nibbles, Byte
<1>2. \A n \in Nibbles : Bit(n, 1) = 0 /\ Bit(n, 2) = 0 /\ Bit(n, 3) = 0 /\ Bit(n, 4) = 0
  BY DEF Nibbles, Bit, Weight
<1>3. PICK v \in Eight : v = Parity(Spread(a), Spread(b))
  BY <1>1, SpreadIsEight, ParityIsEight
<1>4. v[1] = 0 /\ v[2] = 0 /\ v[3] = 0 /\ v[4] = 0
  BY <1>2, <1>3 DEF Parity, Spread
<1>5. PICK e, f, g, h \in {0, 1} : v[5] = e /\ v[6] = f /\ v[7] = g /\ v[8] = h
  BY DEF Eight
<1>6. ByteOf(v) = 8 * e + 4 * f + 2 * g + h
  BY <1>4, <1>5 DEF ByteOf
<1> QED BY <1>1, <1>3, <1>6, XorSpreads DEF Nibbles

\* Bytes are bits, eight of each.
LEMMA BitsAreEight ==
    ASSUME NEW bytes \in Seq(Byte)
    PROVE  BitsOf(bytes) \in Seq({0, 1}) /\ Len(BitsOf(bytes)) = 8 * Len(bytes)
<1>1. PICK n \in Nat : n = Len(bytes)
  OBVIOUS
<1>2. ASSUME NEW i \in 1..(8 * n)
      PROVE  Bit(bytes[(i + 7) \div 8], ((i - 1) % 8) + 1) \in {0, 1}
  <2>1. (i + 7) \div 8 \in 1..n /\ ((i - 1) % 8) + 1 \in 1..8
    BY <1>1
  <2>2. PICK j \in 1..n, k \in 1..8 : j = (i + 7) \div 8 /\ k = ((i - 1) % 8) + 1
    BY <2>1
  <2>3. PICK b \in Byte : b = bytes[j]
    BY <1>1, <2>2
  <2>4. Spread(b) \in Eight /\ Spread(b)[k] = Bit(b, k)
    BY <2>2, SpreadIsEight DEF Spread
  <2>5. Bit(b, k) \in {0, 1}
    BY <2>4 DEF Eight
  <2> QED BY <2>2, <2>3, <2>5
<1>3. PICK f \in [1..(8 * n) -> {0, 1}] : f = BitsOf(bytes)
  BY <1>1, <1>2 DEF BitsOf
<1>4. f \in Seq({0, 1}) /\ Len(f) = 8 * n
  BY <1>1
<1> QED BY <1>1, <1>3, <1>4

\* What is packed of the bits of bytes are the bytes.
LEMMA BytesOfBits ==
    ASSUME NEW bytes \in Seq(Byte)
    PROVE  BytesOf(BitsOf(bytes)) = bytes
<1>1. PICK n \in Nat : n = Len(bytes)
  OBVIOUS
<1>2. PICK bits : bits = BitsOf(bytes) /\ Len(bits) = 8 * n
  BY <1>1, BitsAreEight
<1>3. ASSUME NEW i \in 1..n
      PROVE  ByteOf([k \in 1..8 |-> bits[8 * (i - 1) + k]]) = bytes[i]
  <2>1. PICK b \in Byte : b = bytes[i]
    BY <1>1
  <2>2. ASSUME NEW k \in 1..8 PROVE bits[8 * (i - 1) + k] = Bit(b, k)
    <3>1. PICK j \in 1..(8 * n) : j = 8 * (i - 1) + k
      OBVIOUS
    <3>2. (j + 7) \div 8 = i /\ ((j - 1) % 8) + 1 = k
      BY <3>1
    <3>3. bits[j] = Bit(bytes[(j + 7) \div 8], ((j - 1) % 8) + 1)
      BY <1>1, <1>2 DEF BitsOf
    <3> QED BY <2>1, <3>1, <3>2, <3>3
  <2>3. [k \in 1..8 |-> bits[8 * (i - 1) + k]] = Spread(b)
    BY <2>2 DEF Spread
  <2> QED BY <2>1, <2>3, ByteOfSpread
<1>4. (8 * n) \div 8 = n
  BY <1>1
<1>5. BytesOf(bits) = [i \in 1..n |-> ByteOf([k \in 1..8 |-> bits[8 * (i - 1) + k]])]
  BY <1>2, <1>4 DEF BytesOf
<1>6. BytesOf(bits) = [i \in 1..n |-> bytes[i]]
  BY <1>3, <1>5
<1>7. bytes = [i \in 1..n |-> bytes[i]]
  BY <1>1
<1> QED BY <1>2, <1>6, <1>7

\* The sum of the nibbles of so many bytes.
Sums(sum, bytes) ==
    sum = [i \in 0..7 |-> IF i = 0 THEN 0
                          ELSE XorOf(XorOf(sum[i - 1], bytes[i] \div 16), bytes[i] % 16)]

Summed(s, byte) == XorOf(XorOf(s, byte \div 16), byte % 16)

\* There is such a sum.
LEMMA SumExists ==
    ASSUME NEW bytes
    PROVE  \E sum : Sums(sum, bytes)
<1>1. PICK a, b, c, d, e, f, g :
         /\ a = Summed(0, bytes[1]) /\ b = Summed(a, bytes[2]) /\ c = Summed(b, bytes[3])
         /\ d = Summed(c, bytes[4]) /\ e = Summed(d, bytes[5]) /\ f = Summed(e, bytes[6])
         /\ g = Summed(f, bytes[7])
  BY Zenon
<1>2. PICK sum : sum = [i \in 0..7 |-> CASE i = 0 -> 0 [] i = 1 -> a [] i = 2 -> b [] i = 3 -> c
                                         [] i = 4 -> d [] i = 5 -> e [] i = 6 -> f [] i = 7 -> g]
  BY Zenon
<1>3. /\ sum[0] = 0 /\ sum[1] = a /\ sum[2] = b /\ sum[3] = c
      /\ sum[4] = d /\ sum[5] = e /\ sum[6] = f /\ sum[7] = g
      /\ DOMAIN sum = 0..7 /\ sum = [i \in 0..7 |-> sum[i]]
  BY <1>2
<1>4. ASSUME NEW i \in 0..7
      PROVE  sum[i] = IF i = 0 THEN 0 ELSE Summed(sum[i - 1], bytes[i])
  <2>1. CASE i = 0
    BY <1>3, <2>1
  <2>2. CASE i = 1
    BY <1>1, <1>3, <2>2
  <2>3. CASE i = 2
    BY <1>1, <1>3, <2>3
  <2>4. CASE i = 3
    BY <1>1, <1>3, <2>4
  <2>5. CASE i = 4
    BY <1>1, <1>3, <2>5
  <2>6. CASE i = 5
    BY <1>1, <1>3, <2>6
  <2>7. CASE i = 6
    BY <1>1, <1>3, <2>7
  <2>8. CASE i = 7
    BY <1>1, <1>3, <2>8
  <2> QED BY <2>1, <2>2, <2>3, <2>4, <2>5, <2>6, <2>7, <2>8
<1>5. sum = [i \in 0..7 |-> IF i = 0 THEN 0 ELSE Summed(sum[i - 1], bytes[i])]
  BY <1>3, <1>4
<1> QED BY <1>5 DEF Sums, Summed

\* The checksum is the sum of all of the seven.
LEMMA ChecksumSums ==
    ASSUME NEW bytes
    PROVE  \E sum : /\ sum[0] = 0 /\ \A i \in 1..7 : sum[i] = Summed(sum[i - 1], bytes[i])
                    /\ Checksum(bytes) = sum[7]
<1>1. PICK sum : sum = CHOOSE s : Sums(s, bytes)
  OBVIOUS
<1>2. Sums(sum, bytes)
  BY <1>1, SumExists, Zenon
<1>3. Checksum(bytes) = sum[7]
  BY <1>1, Zenon DEF Checksum, Sums
<1>4. sum[0] = 0 /\ \A i \in 1..7 : sum[i] = Summed(sum[i - 1], bytes[i])
  <2>1. ASSUME NEW i \in 0..7
        PROVE  sum[i] = IF i = 0 THEN 0 ELSE Summed(sum[i - 1], bytes[i])
    BY <1>2 DEF Sums, Summed
  <2> QED BY <2>1
<1> QED BY <1>3, <1>4

\* A byte more leaves the sum a nibble.
LEMMA SummedIsNibble ==
    ASSUME NEW s \in Nibbles, NEW byte \in Byte
    PROVE  Summed(s, byte) \in Nibbles
<1>1. byte \div 16 \in Nibbles /\ byte % 16 \in Nibbles
  BY DEF Byte, Nibbles
<1> QED BY <1>1, XorIsNibble DEF Summed

\* The sum is a nibble all along.
LEMMA SumsAreNibbles ==
    ASSUME NEW bytes, \A i \in 1..7 : bytes[i] \in Byte,
           NEW sum, sum[0] = 0, \A i \in 1..7 : sum[i] = Summed(sum[i - 1], bytes[i])
    PROVE  \A i \in 0..7 : sum[i] \in Nibbles
<1>1. sum[0] \in Nibbles
  BY DEF Nibbles
<1>2. ASSUME NEW i \in 1..7, NEW j, j = i - 1, sum[j] \in Nibbles PROVE sum[i] \in Nibbles
  BY <1>2, SummedIsNibble
<1>3. sum[1] \in Nibbles
  BY <1>1, <1>2
<1>4. sum[2] \in Nibbles
  BY <1>3, <1>2
<1>5. sum[3] \in Nibbles
  BY <1>4, <1>2
<1>6. sum[4] \in Nibbles
  BY <1>5, <1>2
<1>7. sum[5] \in Nibbles
  BY <1>6, <1>2
<1>8. sum[6] \in Nibbles
  BY <1>7, <1>2
<1>9. sum[7] \in Nibbles
  BY <1>8, <1>2
<1> QED BY <1>1, <1>3, <1>4, <1>5, <1>6, <1>7, <1>8, <1>9

\* The first seven bytes before the sum of their nibbles is added.
Unsummed(h, nibble) == h \in Seq(Byte) /\ Len(h) >= 7 /\ nibble \in Nibbles /\ h[2] = nibble * 16

\* The first seven bytes with the sum added.
WithSum(h) == [h EXCEPT ![2] = @ + Checksum(h)]

\* With its checksum in the low nibble of the second byte a frame sums to nothing.
LEMMA SummingBalances ==
    ASSUME NEW h, NEW nibble, Unsummed(h, nibble),
           NEW b, b = WithSum(h)
    PROVE  /\ b \in Seq(Byte) /\ Len(b) = Len(h) /\ \A i \in DOMAIN h \ {2} : b[i] = h[i]
           /\ b[2] \div 16 = nibble /\ Checksum(b) = 0
<1>1. PICK x : /\ x[0] = 0 /\ \A i \in 1..7 : x[i] = Summed(x[i - 1], h[i])
               /\ Checksum(h) = x[7]
  BY ChecksumSums
<1>2. PICK y : /\ y[0] = 0 /\ \A i \in 1..7 : y[i] = Summed(y[i - 1], b[i])
               /\ Checksum(b) = y[7]
  BY ChecksumSums
<1>3. h \in Seq(Byte) /\ (\A i \in 1..7 : h[i] \in Byte) /\ 2 \in DOMAIN h /\ nibble \in Nibbles
  BY DEF Unsummed
<1>4. \A i \in 0..7 : x[i] \in Nibbles
  BY <1>1, <1>3, SumsAreNibbles
<1>5. PICK s \in Nibbles : s = x[7]
  BY <1>4
<1>6. b[2] = nibble * 16 + s /\ b[2] \in Byte /\ b[2] \div 16 = nibble /\ b[2] % 16 = s
  <2>1. b[2] = nibble * 16 + s
    BY <1>1, <1>3, <1>5 DEF Unsummed, WithSum
  <2>2. nibble * 16 + s \in Byte /\ (nibble * 16 + s) \div 16 = nibble /\ (nibble * 16 + s) % 16 = s
    BY <1>3 DEF Byte, Nibbles
  <2> QED BY <2>1, <2>2
<1>7. b \in Seq(Byte) /\ Len(b) = Len(h) /\ \A i \in DOMAIN h \ {2} : b[i] = h[i]
  <2>1. b = [h EXCEPT ![2] = b[2]]
    BY <1>3 DEF WithSum
  <2> QED BY <1>3, <1>6, <2>1, SMTT(30)
<1>8. h[2] \div 16 = nibble /\ h[2] % 16 = 0
  <2>1. (nibble * 16) \div 16 = nibble /\ (nibble * 16) % 16 = 0
    BY <1>3 DEF Nibbles
  <2> QED BY <2>1 DEF Unsummed
<1>9. y[1] = x[1]
  BY <1>1, <1>2, <1>7, <1>3, SMTT(30)
<1>10. y[2] = XorOf(x[2], s)
  <2>1. PICK a \in Nibbles : a = XorOf(x[1], nibble)
    BY <1>3, <1>4, XorIsNibble
  <2>2. x[2] = XorOf(a, 0)
    BY <1>1, <1>8, <2>1 DEF Summed
  <2>3. y[2] = XorOf(a, s)
    BY <1>2, <1>6, <1>9, <2>1 DEF Summed
  <2>4. XorOf(a, 0) = a
    BY XorNone DEF Byte, Nibbles
  <2> QED BY <2>2, <2>3, <2>4
<1>11. ASSUME NEW i \in 3..7, NEW j, j = i - 1, y[j] = XorOf(x[j], s)
       PROVE  y[i] = XorOf(x[i], s)
  <2>1. PICK u \in Nibbles, v \in Nibbles, a \in Nibbles :
           u = h[i] \div 16 /\ v = h[i] % 16 /\ a = x[j]
    <3>1. h[i] \in Byte /\ j \in 0..7
      BY <1>3, <1>11
    <3>2. h[i] \div 16 \in Nibbles /\ h[i] % 16 \in Nibbles
      BY <3>1 DEF Byte, Nibbles
    <3> QED BY <1>4, <3>1, <3>2
  <2>2. i \in 1..7 /\ i \in DOMAIN h \ {2} /\ b[i] = h[i]
    BY <1>7, SMTT(30) DEF Unsummed
  <2>3. PICK au \in Nibbles : au = XorOf(a, u)
    BY XorIsNibble
  <2>4. PICK as \in Nibbles : as = XorOf(a, s)
    BY XorIsNibble
  <2>5. a \in Byte /\ u \in Byte /\ v \in Byte /\ s \in Byte /\ au \in Byte
    BY DEF Byte, Nibbles
  <2>6. x[i] = XorOf(au, v)
    BY <1>1, <1>11, <2>1, <2>2, <2>3 DEF Summed
  <2>7. y[i] = XorOf(XorOf(as, u), v)
    BY <1>2, <1>11, <2>1, <2>2, <2>4 DEF Summed
  <2>8. XorOf(as, u) = XorOf(au, s)
    BY <2>3, <2>4, <2>5, XorSwap
  <2>9. XorOf(XorOf(au, s), v) = XorOf(XorOf(au, v), s)
    BY <2>5, XorSwap
  <2> QED BY <2>6, <2>7, <2>8, <2>9
<1>12. y[3] = XorOf(x[3], s)
  BY <1>10, <1>11
<1>13. y[4] = XorOf(x[4], s)
  BY <1>12, <1>11
<1>14. y[5] = XorOf(x[5], s)
  BY <1>13, <1>11
<1>15. y[6] = XorOf(x[6], s)
  BY <1>14, <1>11
<1>16. y[7] = XorOf(s, s)
  BY <1>15, <1>11, <1>5
<1>17. XorOf(s, s) = 0
  BY XorSelf DEF Byte, Nibbles
<1> QED BY <1>2, <1>6, <1>7, <1>16, <1>17

\* Each of the seven bytes with those before it.
Hides(hidden, bytes) ==
    hidden = [i \in 1..7 |-> IF i = 1 THEN bytes[1] ELSE XorOf(bytes[i], hidden[i - 1])]

Shown(hidden, bytes) == [i \in DOMAIN bytes |-> IF i <= 7 THEN hidden[i] ELSE bytes[i]]

\* There is such an obfuscation.
LEMMA HiddenExists ==
    ASSUME NEW bytes
    PROVE  \E hidden : Hides(hidden, bytes)
<1>1. PICK a, b, c, d, e, f, g :
         /\ a = bytes[1] /\ b = XorOf(bytes[2], a) /\ c = XorOf(bytes[3], b)
         /\ d = XorOf(bytes[4], c) /\ e = XorOf(bytes[5], d) /\ f = XorOf(bytes[6], e)
         /\ g = XorOf(bytes[7], f)
  BY Zenon
<1>2. PICK hidden : hidden = [i \in 1..7 |-> CASE i = 1 -> a [] i = 2 -> b [] i = 3 -> c
                                [] i = 4 -> d [] i = 5 -> e [] i = 6 -> f [] i = 7 -> g]
  BY Zenon
<1>3. /\ hidden[1] = a /\ hidden[2] = b /\ hidden[3] = c
      /\ hidden[4] = d /\ hidden[5] = e /\ hidden[6] = f /\ hidden[7] = g
      /\ DOMAIN hidden = 1..7 /\ hidden = [i \in 1..7 |-> hidden[i]]
  BY <1>2
<1>4. ASSUME NEW i \in 1..7
      PROVE  hidden[i] = IF i = 1 THEN bytes[1] ELSE XorOf(bytes[i], hidden[i - 1])
  <2>1. CASE i = 1
    BY <1>1, <1>3, <2>1
  <2>2. CASE i = 2
    BY <1>1, <1>3, <2>2
  <2>3. CASE i = 3
    BY <1>1, <1>3, <2>3
  <2>4. CASE i = 4
    BY <1>1, <1>3, <2>4
  <2>5. CASE i = 5
    BY <1>1, <1>3, <2>5
  <2>6. CASE i = 6
    BY <1>1, <1>3, <2>6
  <2>7. CASE i = 7
    BY <1>1, <1>3, <2>7
  <2> QED BY <2>1, <2>2, <2>3, <2>4, <2>5, <2>6, <2>7
<1>5. hidden = [i \in 1..7 |-> IF i = 1 THEN bytes[1] ELSE XorOf(bytes[i], hidden[i - 1])]
  BY <1>3, <1>4
<1> QED BY <1>5 DEF Hides

\* What has been hidden is found again.
LEMMA HiddenIsFound ==
    ASSUME NEW bytes \in Seq(Byte), Len(bytes) >= 7
    PROVE  /\ Obfuscate(bytes) \in Seq(Byte) /\ Len(Obfuscate(bytes)) = Len(bytes)
           /\ Deobfuscate(Obfuscate(bytes)) = bytes
<1>1. PICK hidden : hidden = CHOOSE f : Hides(f, bytes)
  OBVIOUS
<1>2. Hides(hidden, bytes)
  BY <1>1, HiddenExists, Zenon
<1>3. PICK out : out = [i \in DOMAIN bytes |-> IF i <= 7 THEN hidden[i] ELSE bytes[i]]
  OBVIOUS
<1>4. out = Obfuscate(bytes)
  <2>1. Obfuscate(bytes) = Shown(CHOOSE f : Hides(f, bytes), bytes)
    BY Zenon DEF Obfuscate, Hides, Shown
  <2> QED BY <1>1, <1>3, <2>1 DEF Shown
<1>5. /\ hidden[1] = bytes[1] /\ \A i \in 2..7 : hidden[i] = XorOf(bytes[i], hidden[i - 1])
      /\ \A i \in 1..7 : bytes[i] \in Byte
  <2>1. ASSUME NEW i \in 1..7
        PROVE  hidden[i] = IF i = 1 THEN bytes[1] ELSE XorOf(bytes[i], hidden[i - 1])
    BY <1>2 DEF Hides
  <2> QED BY <2>1
<1>6. ASSUME NEW i \in 2..7, NEW j, j = i - 1, hidden[j] \in Byte PROVE hidden[i] \in Byte
  BY <1>5, <1>6, XorIsByte
<1>7. hidden[1] \in Byte
  BY <1>5
<1>8. hidden[2] \in Byte
  BY <1>7, <1>6
<1>9. hidden[3] \in Byte
  BY <1>8, <1>6
<1>10. hidden[4] \in Byte
  BY <1>9, <1>6
<1>11. hidden[5] \in Byte
  BY <1>10, <1>6
<1>12. hidden[6] \in Byte
  BY <1>11, <1>6
<1>13. hidden[7] \in Byte
  BY <1>12, <1>6
<1>14. \A i \in 1..7 : hidden[i] \in Byte
  BY <1>7, <1>8, <1>9, <1>10, <1>11, <1>12, <1>13
<1>15. PICK n \in Nat : n = Len(bytes) /\ n >= 7 /\ DOMAIN bytes = 1..n
  OBVIOUS
<1>16. ASSUME NEW i \in 1..n PROVE out[i] \in Byte
  BY <1>3, <1>14, <1>15
<1>17. out \in [1..n -> Byte]
  BY <1>3, <1>15, <1>16
<1>18. out \in Seq(Byte) /\ Len(out) = n /\ DOMAIN out = 1..n
  BY <1>17
<1>19. ASSUME NEW i \in 1..n
       PROVE  (IF i \in 2..7 THEN XorOf(out[i], out[i - 1]) ELSE out[i]) = bytes[i]
  <2>1. CASE i \in 2..7
    <3>1. PICK j \in 1..6 : j = i - 1
      BY <2>1
    <3>2. out[i] = XorOf(bytes[i], hidden[j]) /\ out[j] = hidden[j]
      BY <1>3, <1>5, <1>15, <2>1, <3>1
    <3>3. bytes[i] \in Byte /\ hidden[j] \in Byte
      BY <1>14, <1>15, <3>1
    <3>4. XorOf(out[i], out[j]) = bytes[i]
      BY <3>2, <3>3, XorTwice
    <3> QED BY <2>1, <3>1, <3>4
  <2>2. CASE i = 1
    BY <1>3, <1>5, <1>15, <2>2
  <2>3. CASE i > 7
    BY <1>3, <1>15, <2>3
  <2> QED BY <2>1, <2>2, <2>3
<1>20. Deobfuscate(out) = [i \in 1..n |-> bytes[i]]
  BY <1>18, <1>19 DEF Deobfuscate
<1>21. bytes = [i \in 1..n |-> bytes[i]]
  BY <1>15
<1> QED BY <1>4, <1>15, <1>18, <1>20, <1>21

\* The frames a remote has: its fields within their widths.

\* A number of so many bytes is of its lowest byte and the others.
LEMMA SplitCode ==
    ASSUME NEW r \in Codes16
    PROVE  r \div 256 \in Byte /\ r % 256 \in Byte /\ (r \div 256) * 256 + (r % 256) = r
BY SMT DEF Byte, Codes16

\* An address is of its lowest byte and a number of two.
LEMMA SplitAddress ==
    ASSUME NEW a \in Addresses24
    PROVE  /\ a \div 256 \in Codes16 /\ a % 256 \in Byte /\ (a \div 256) * 256 + (a % 256) = a
           /\ a \div 65536 = (a \div 256) \div 256
<1>1. a \div 256 \in Codes16 /\ a % 256 \in Byte /\ (a \div 256) * 256 + (a % 256) = a
  BY SMT DEF Byte, Codes16, Addresses24
<1>2. PICK m \in Codes16, l \in Byte : m = a \div 256 /\ l = a % 256
  BY <1>1
<1>3. PICK h \in Byte, x \in Byte : h = m \div 256 /\ x = m % 256
  BY SplitCode
<1>6. a = 256 * m + l /\ m = 256 * h + x
  <2>1. m * 256 + l = a
    BY <1>1, <1>2, Zenon
  <2>2. h * 256 + x = m
    BY <1>3, SplitCode, Zenon
  <2>3. m \in Int /\ l \in Int /\ h \in Int /\ x \in Int
    BY SMT DEF Codes16, Byte
  <2> QED BY <2>1, <2>2, <2>3, SMT
<1>4. a = 65536 * h + (256 * x + l) /\ 256 * x + l \in Codes16
  BY <1>6, SMT DEF Codes16, Byte
<1>5. a \div 65536 = h
  BY <1>4, SMT DEF Codes16, Byte
<1> QED BY <1>1, <1>2, <1>3, <1>5

\* The commands and their values.
LEMMA ValuesAre ==
    /\ RadioCommands = {"My", "Up", "MyUp", "Down", "MyDown", "UpDown", "MyUpDown", "Prog",
                        "SunFlag", "Flag", "StepDown", "Toggle", "Sensor", "RtwProto",
                        "StepUp", "Favorite", "Stop"}
    /\ Value["My"] = 1 /\ Value["Up"] = 2 /\ Value["MyUp"] = 3 /\ Value["Down"] = 4
    /\ Value["MyDown"] = 5 /\ Value["UpDown"] = 6 /\ Value["MyUpDown"] = 7 /\ Value["Prog"] = 8
    /\ Value["SunFlag"] = 9 /\ Value["Flag"] = 10 /\ Value["StepDown"] = 11
    /\ Value["Toggle"] = 12 /\ Value["Sensor"] = 14 /\ Value["RtwProto"] = 15
    /\ Value["StepUp"] = 139 /\ Value["Favorite"] = 193 /\ Value["Stop"] = 241
BY DEF RadioCommands, Value

\* The value of a command is a byte.
LEMMA ValueIsByte ==
    ASSUME NEW c \in RadioCommands
    PROVE  Value[c] \in Byte
BY ValuesAre, SMT DEF Byte

\* No two commands have one value.
LEMMA CommandIsOfValue ==
    ASSUME NEW c \in RadioCommands
    PROVE  CommandOf(Value[c]) = {c}
<1>1. ASSUME NEW d \in RadioCommands, Value[d] = Value[c] PROVE d = c
  BY <1>1, ValuesAre, SMT
<1> QED BY <1>1 DEF CommandOf

\* A command is a nibble of the head, the whole of its value if it is not extended.
LEMMA NibbleIsNibble ==
    ASSUME NEW c \in RadioCommands
    PROVE  Nibble(c) \in Nibbles /\ (~Extended(c) => Nibble(c) = Value[c])
<1>1. PICK v \in Byte : v = Value[c]
  BY ValueIsByte
<1> QED BY <1>1 DEF Nibble, Extended, Nibbles, Byte

\* The head of a frame is of seven bytes, and the frame is read from them.
LEMMA HeadHolds ==
    ASSUME NEW f \in RadioFrames, NEW h, h = Head7(f)
    PROVE  /\ h \in Seq(Byte) /\ Len(h) = 7 /\ Unsummed(h, Nibble(f.command))
           /\ h[1] = f.key /\ h[3] * 256 + h[4] = f.rolling_code
           /\ (h[5] * 256 + h[6]) * 256 + h[7] = f.address
<1>1. /\ f.key \in Byte /\ f.command \in RadioCommands
      /\ f.rolling_code \in Codes16 /\ f.address \in Addresses24
  BY DEF RadioFrames
<1>4. PICK n \in Nibbles : n = Nibble(f.command)
  BY <1>1, NibbleIsNibble
<1>2. PICK rh \in Byte, rl \in Byte : /\ rh = f.rolling_code \div 256 /\ rl = f.rolling_code % 256
                                      /\ rh * 256 + rl = f.rolling_code
  BY <1>1, SplitCode, SMT
<1>3. PICK am \in Codes16, al \in Byte : /\ am = f.address \div 256 /\ al = f.address % 256
                                         /\ am * 256 + al = f.address
  BY <1>1, SplitAddress, SMT
<1>5. PICK ah \in Byte, ax \in Byte : ah = am \div 256 /\ ax = am % 256 /\ ah * 256 + ax = am
  BY SplitCode, SMT
<1>6. f.address \div 65536 = ah
  BY <1>1, <1>3, <1>5, SplitAddress, SMT
<1>9. n * 16 \in Byte
  BY DEF Nibbles, Byte
<1>10. PICK nh \in Byte : nh = n * 16
  BY <1>9
<1>11. PICK key \in Byte : key = f.key
  BY <1>1
<1>12. h = <<key, nh, rh, rl, ah, ax, al>>
  BY <1>2, <1>3, <1>4, <1>5, <1>6, <1>10, <1>11, SMT DEF Head7
<1>13. h \in Seq(Byte) /\ Len(h) = 7 /\ h[2] = n * 16
  BY <1>10, <1>12, SMT
<1> QED BY <1>2, <1>3, <1>4, <1>5, <1>11, <1>12, <1>13, SMT DEF Unsummed

\* What seals a frame is found sound, and the frame as it was.
LEMMA SealOpens ==
    ASSUME NEW f \in RadioFrames, NEW h, h \in Seq(Byte), Len(h) >= 7,
           \A i \in 1..7 : h[i] = Head7(f)[i]
    PROVE  \E b : /\ Deobfuscate(Sealed(h)) = b /\ Checksum(b) = 0
                  /\ Sealed(h) \in Seq(Byte) /\ Len(Sealed(h)) = Len(h)
                  /\ b[2] \div 16 = Nibble(f.command)
                  /\ \A i \in 8..Len(h) : b[i] = h[i]
                  /\ \A c : FrameOf(b, c) = [f EXCEPT !.command = c]
<1>1. PICK head : head = Head7(f)
  OBVIOUS
<1>2. /\ head \in Seq(Byte) /\ Len(head) = 7 /\ Unsummed(head, Nibble(f.command))
      /\ head[1] = f.key /\ head[3] * 256 + head[4] = f.rolling_code
      /\ (head[5] * 256 + head[6]) * 256 + head[7] = f.address
  BY <1>1, HeadHolds
<1>11. PICK nibble : nibble = Nibble(f.command)
  OBVIOUS
<1>3. Unsummed(h, nibble)
  BY <1>1, <1>2, <1>11 DEF Unsummed
<1>4. PICK b : b = WithSum(h)
  OBVIOUS
<1>5. /\ b \in Seq(Byte) /\ Len(b) = Len(h) /\ \A i \in DOMAIN h \ {2} : b[i] = h[i]
      /\ b[2] \div 16 = Nibble(f.command) /\ Checksum(b) = 0
  BY <1>3, <1>4, <1>11, SummingBalances
<1>6. Sealed(h) = Obfuscate(b)
  BY <1>4 DEF Sealed, WithSum
<1>7. /\ Sealed(h) \in Seq(Byte) /\ Len(Sealed(h)) = Len(h)
      /\ Deobfuscate(Sealed(h)) = b
  BY <1>5, <1>6, HiddenIsFound
<1>8. b[1] = head[1] /\ b[3] = head[3] /\ b[4] = head[4] /\ b[5] = head[5] /\ b[6] = head[6] /\ b[7] = head[7]
  BY <1>1, <1>5, SMTT(30)
<1>9. ASSUME NEW c PROVE FrameOf(b, c) = [f EXCEPT !.command = c]
  <2>1. PICK g : g = [f EXCEPT !.command = c]
    OBVIOUS
  <2>2. g = [key |-> f.key, command |-> c, rolling_code |-> f.rolling_code, address |-> f.address]
    BY <2>1 DEF RadioFrames
  <2>3. /\ b[1] = f.key /\ b[3] * 256 + b[4] = f.rolling_code
        /\ (b[5] * 256 + b[6]) * 256 + b[7] = f.address
    BY <1>2, <1>8, SMT
  <2>4. FrameOf(b, c) = g
    BY <2>2, <2>3, Zenon DEF FrameOf
  <2> QED BY <2>1, <2>4
<1>10. \A i \in 8..Len(h) : b[i] = h[i]
  BY <1>5
<1> QED BY <1>5, <1>7, <1>9, <1>10

\* A narrow frame comes back from its bytes.
LEMMA NarrowComesBack ==
    ASSUME NEW f \in RadioFrames, ~Extended(f.command), NEW bytes \in Encode56(f)
    PROVE  bytes \in Seq(Byte) /\ Len(bytes) = 7 /\ Decode56(bytes) = {f}
<1>1. PICK h : h = Head7(f) /\ h \in Seq(Byte) /\ Len(h) = 7
  BY HeadHolds
<1>2. bytes = Sealed(h)
  BY <1>1 DEF Encode56
<1>3. PICK b : /\ Deobfuscate(Sealed(h)) = b /\ Checksum(b) = 0
               /\ Sealed(h) \in Seq(Byte) /\ Len(Sealed(h)) = Len(h)
               /\ b[2] \div 16 = Nibble(f.command)
               /\ \A c : FrameOf(b, c) = [f EXCEPT !.command = c]
  BY <1>1, SealOpens
<1>4. f.command \in RadioCommands /\ [f EXCEPT !.command = f.command] = f
  BY DEF RadioFrames
<1>5. CommandOf(b[2] \div 16) = {f.command}
  BY <1>3, <1>4, NibbleIsNibble, CommandIsOfValue
<1>6. Decode56(bytes) = {FrameOf(b, c) : c \in {f.command}}
  BY <1>2, <1>3, <1>5 DEF Decode56
<1>7. FrameOf(b, f.command) = f
  BY <1>3, <1>4
<1> QED BY <1>1, <1>2, <1>3, <1>6, <1>7

\* The first byte of the tail is one whatever the repeat.
LEMMA Byte7IsByte ==
    ASSUME NEW repeat \in Nat
    PROVE  Byte7(196, repeat) \in Byte
<1>1. PICK q \in Int : q = (4 * repeat) \div 60
  OBVIOUS
<1>2. 60 * q <= 4 * repeat /\ 4 * repeat < 60 * q + 60
  BY <1>1, SMT
<1>3. PICK over \in Int : over = 196 + 4 * repeat - 255 /\ over + 59 = 4 * repeat
  OBVIOUS
<1>4. CASE over > 0
  <2>1. Byte7(196, repeat) = 196 + 4 * (repeat - 15 * q)
    BY <1>1, <1>3, <1>4, SMT DEF Byte7
  <2> QED BY <1>2, <2>1, SMT DEF Byte
<1>5. CASE ~(over > 0)
  <2>1. Byte7(196, repeat) = 196 + 4 * repeat
    BY <1>3, <1>5, SMT DEF Byte7
  <2> QED BY <1>3, <1>5, <2>1, SMT DEF Byte
<1> QED BY <1>4, <1>5

\* A tail is of bytes, leaves its lowest nibble free, and tells an extended command.
TailHolds(t, nibble, value) ==
    /\ t[1] \in Byte /\ t[2] \in Byte /\ t[3] \in Byte /\ t[3] % 16 = 0
    /\ ExtendedValue(nibble, t[2]) = value

\* The tail of a command makes its value of its nibble again, whatever the repeat.
LEMMA TailTells ==
    ASSUME NEW c \in RadioCommands, NEW repeat \in Nat, NEW t, t = TailOf(c, repeat)
    PROVE  TailHolds(t, Nibble(c), Value[c])
<1>1. PICK x \in Byte, d \in Byte :
         x = Byte7(196, repeat) /\ d = IF repeat > 0 THEN 132 ELSE 196
  BY Byte7IsByte, SMT DEF Byte
<1>2. CASE c = "My"
  <2>1. Value[c] = 1 /\ Nibble(c) = 1
    BY <1>2, ValuesAre, SMT DEF Nibble
  <2>2. t = <<x, 0, 16>>
    BY <1>1, <1>2, SMT DEF TailOf
  <2> QED BY <1>1, <2>1, <2>2, SMT DEF TailHolds, ExtendedValue, Byte
<1>3. CASE c = "Up"
  <2>1. Value[c] = 2 /\ Nibble(c) = 2
    BY <1>3, ValuesAre, SMT DEF Nibble
  <2>2. t = <<x, 32, 0>>
    BY <1>1, <1>3, SMT DEF TailOf
  <2> QED BY <1>1, <2>1, <2>2, SMT DEF TailHolds, ExtendedValue, Byte
<1>4. CASE c = "MyUp"
  <2>1. Value[c] = 3 /\ Nibble(c) = 3
    BY <1>4, ValuesAre, SMT DEF Nibble
  <2>2. t = <<x, 0, 16>>
    BY <1>1, <1>4, SMT DEF TailOf
  <2> QED BY <1>1, <2>1, <2>2, SMT DEF TailHolds, ExtendedValue, Byte
<1>5. CASE c = "Down"
  <2>1. Value[c] = 4 /\ Nibble(c) = 4
    BY <1>5, ValuesAre, SMT DEF Nibble
  <2>2. t = <<x, 44, 128>>
    BY <1>1, <1>5, SMT DEF TailOf
  <2> QED BY <1>1, <2>1, <2>2, SMT DEF TailHolds, ExtendedValue, Byte
<1>6. CASE c = "MyDown"
  <2>1. Value[c] = 5 /\ Nibble(c) = 5
    BY <1>6, ValuesAre, SMT DEF Nibble
  <2>2. t = <<x, 0, 16>>
    BY <1>1, <1>6, SMT DEF TailOf
  <2> QED BY <1>1, <2>1, <2>2, SMT DEF TailHolds, ExtendedValue, Byte
<1>7. CASE c = "UpDown"
  <2>1. Value[c] = 6 /\ Nibble(c) = 6
    BY <1>7, ValuesAre, SMT DEF Nibble
  <2>2. t = <<x, 0, 16>>
    BY <1>1, <1>7, SMT DEF TailOf
  <2> QED BY <1>1, <2>1, <2>2, SMT DEF TailHolds, ExtendedValue, Byte
<1>8. CASE c = "MyUpDown"
  <2>1. Value[c] = 7 /\ Nibble(c) = 7
    BY <1>8, ValuesAre, SMT DEF Nibble
  <2>2. t = <<x, 0, 16>>
    BY <1>1, <1>8, SMT DEF TailOf
  <2> QED BY <1>1, <2>1, <2>2, SMT DEF TailHolds, ExtendedValue, Byte
<1>9. CASE c = "Prog"
  <2>1. Value[c] = 8 /\ Nibble(c) = 8
    BY <1>9, ValuesAre, SMT DEF Nibble
  <2>2. t = <<x, 0, 16>>
    BY <1>1, <1>9, SMT DEF TailOf
  <2> QED BY <1>1, <2>1, <2>2, SMT DEF TailHolds, ExtendedValue, Byte
<1>10. CASE c = "SunFlag"
  <2>1. Value[c] = 9 /\ Nibble(c) = 9
    BY <1>10, ValuesAre, SMT DEF Nibble
  <2>2. t = <<0, 0, 0>>
    BY <1>1, <1>10, SMT DEF TailOf
  <2> QED BY <1>1, <2>1, <2>2, SMT DEF TailHolds, ExtendedValue, Byte
<1>11. CASE c = "Flag"
  <2>1. Value[c] = 10 /\ Nibble(c) = 10
    BY <1>11, ValuesAre, SMT DEF Nibble
  <2>2. t = <<0, 0, 0>>
    BY <1>1, <1>11, SMT DEF TailOf
  <2> QED BY <1>1, <2>1, <2>2, SMT DEF TailHolds, ExtendedValue, Byte
<1>12. CASE c = "StepDown"
  <2>1. Value[c] = 11 /\ Nibble(c) = 11
    BY <1>12, ValuesAre, SMT DEF Nibble
  <2>2. t = <<132, 48, 16>>
    BY <1>1, <1>12, SMT DEF TailOf
  <2> QED BY <1>1, <2>1, <2>2, SMT DEF TailHolds, ExtendedValue, Byte
<1>13. CASE c = "Toggle"
  <2>1. Value[c] = 12 /\ Nibble(c) = 12
    BY <1>13, ValuesAre, SMT DEF Nibble
  <2>2. t = <<x, 0, 16>>
    BY <1>1, <1>13, SMT DEF TailOf
  <2> QED BY <1>1, <2>1, <2>2, SMT DEF TailHolds, ExtendedValue, Byte
<1>14. CASE c = "Sensor"
  <2>1. Value[c] = 14 /\ Nibble(c) = 14
    BY <1>14, ValuesAre, SMT DEF Nibble
  <2>2. t = <<0, 0, 0>>
    BY <1>1, <1>14, SMT DEF TailOf
  <2> QED BY <1>1, <2>1, <2>2, SMT DEF TailHolds, ExtendedValue, Byte
<1>15. CASE c = "RtwProto"
  <2>1. Value[c] = 15 /\ Nibble(c) = 15
    BY <1>15, ValuesAre, SMT DEF Nibble
  <2>2. t = <<0, 0, 0>>
    BY <1>1, <1>15, SMT DEF TailOf
  <2> QED BY <1>1, <2>1, <2>2, SMT DEF TailHolds, ExtendedValue, Byte
<1>16. CASE c = "StepUp"
  <2>1. Value[c] = 139 /\ Nibble(c) = 11
    BY <1>16, ValuesAre, SMT DEF Nibble
  <2>2. t = <<132, 56, 16>>
    BY <1>1, <1>16, SMT DEF TailOf
  <2> QED BY <1>1, <2>1, <2>2, SMT DEF TailHolds, ExtendedValue, Byte
<1>17. CASE c = "Favorite"
  <2>1. Value[c] = 193 /\ Nibble(c) = 1
    BY <1>17, ValuesAre, SMT DEF Nibble
  <2>2. t = <<d, 44, 144>>
    BY <1>1, <1>17, SMT DEF TailOf
  <2> QED BY <1>1, <2>1, <2>2, SMT DEF TailHolds, ExtendedValue, Byte
<1>18. CASE c = "Stop"
  <2>1. Value[c] = 241 /\ Nibble(c) = 1
    BY <1>18, ValuesAre, SMT DEF Nibble
  <2>2. t = <<d, 47, 240>>
    BY <1>1, <1>18, SMT DEF TailOf
  <2> QED BY <1>1, <2>1, <2>2, SMT DEF TailHolds, ExtendedValue, Byte
<1> QED BY <1>2, <1>3, <1>4, <1>5, <1>6, <1>7, <1>8, <1>9, <1>10, <1>11, <1>12, <1>13, <1>14, <1>15, <1>16, <1>17, <1>18, ValuesAre, Zenon

\* Three in a row.
LEMMA ThreeInARow ==
    ASSUME NEW S, NEW a \in S, NEW b \in S, NEW c \in S, NEW s, s = <<a, b, c>>
    PROVE  s \in Seq(S) /\ Len(s) = 3 /\ s[1] = a /\ s[2] = b /\ s[3] = c
OBVIOUS

\* A tail's sum is put in the nibble that is free.
LEMMA NibbleAdds ==
    ASSUME NEW b \in Byte, b % 16 = 0, NEW n \in Nibbles
    PROVE  b + n \in Byte /\ (b + n) % 16 = n /\ (b + n) \div 16 = b \div 16
<1>1. PICK u \in Nibbles : u = b \div 16 /\ b = 16 * u
  <2>1. b \div 16 \in Nibbles /\ b = 16 * (b \div 16) + (b % 16)
    BY SMT DEF Byte, Nibbles
  <2>2. PICK u \in Nibbles : u = b \div 16
    BY <2>1
  <2>3. b = 16 * u
    BY <2>1, <2>2, SMT DEF Nibbles
  <2> QED BY <2>2, <2>3
<1>2. b + n = 16 * u + n
  BY <1>1
<1>3. 16 * u + n \in Byte /\ (16 * u + n) % 16 = n /\ (16 * u + n) \div 16 = u
  BY SMT DEF Byte, Nibbles
<1> QED BY <1>1, <1>2, <1>3

\* The checksum of the tail is a nibble.
LEMMA TailSumIsNibble ==
    ASSUME NEW a \in Byte, NEW b \in Byte, NEW c \in Byte
    PROVE  TailChecksum(a, b, c) \in Nibbles
<1>1. \A n \in Byte : n \div 16 \in Nibbles /\ n % 16 \in Nibbles
  BY SMT DEF Byte, Nibbles
<1> QED BY <1>1, XorIsNibble DEF TailChecksum

\* A wide frame comes back from its bytes.
LEMMA WideComesBack ==
    ASSUME NEW f \in RadioFrames, NEW repeat \in Nat, NEW bytes, bytes = Encode80(f, repeat)
    PROVE  bytes \in Seq(Byte) /\ Len(bytes) = 10 /\ Decode80(bytes) = {f}
<1>1. PICK head \in Seq(Byte) : head = Head7(f) /\ Len(head) = 7
  BY HeadHolds
<1>2. f.command \in RadioCommands /\ [f EXCEPT !.command = f.command] = f
  BY DEF RadioFrames
<1>3. PICK t : t = TailOf(f.command, repeat)
  OBVIOUS
<1>4. TailHolds(t, Nibble(f.command), Value[f.command])
  BY <1>2, <1>3, TailTells
<1>5. PICK t1 \in Byte, t2 \in Byte, t3 \in Byte :
         /\ t1 = t[1] /\ t2 = t[2] /\ t3 = t[3] /\ t3 % 16 = 0
         /\ ExtendedValue(Nibble(f.command), t2) = Value[f.command]
  <2>1. t[1] \in Byte /\ t[2] \in Byte /\ t[3] \in Byte
    BY <1>4 DEF TailHolds
  <2>2. t[3] % 16 = 0 /\ ExtendedValue(Nibble(f.command), t[2]) = Value[f.command]
    BY <1>4 DEF TailHolds
  <2> QED BY <2>1, <2>2
<1>6. PICK n \in Nibbles : n = TailChecksum(t1, t2, t3)
  BY TailSumIsNibble
<1>7. PICK last \in Byte : last = t3 + n /\ last % 16 = n /\ last \div 16 = t3 \div 16
  <2>1. t3 + n \in Byte /\ (t3 + n) % 16 = n /\ (t3 + n) \div 16 = t3 \div 16
    BY <1>5, NibbleAdds
  <2> QED BY <2>1
<1>8. PICK tail \in Seq(Byte) : /\ tail = <<t1, t2, last>> /\ Len(tail) = 3
                                /\ tail[1] = t1 /\ tail[2] = t2 /\ tail[3] = last
  <2>1. PICK s : s = <<t1, t2, last>>
    OBVIOUS
  <2>2. s \in Seq(Byte) /\ Len(s) = 3 /\ s[1] = t1 /\ s[2] = t2 /\ s[3] = last
    BY <2>1, ThreeInARow
  <2> QED BY <2>1, <2>2
<1>9. PICK h : h = head \o tail
  OBVIOUS
<1>10. /\ h \in Seq(Byte) /\ Len(h) = 10 /\ \A i \in 1..7 : h[i] = head[i]
       /\ h[8] = t1 /\ h[9] = t2 /\ h[10] = last
  <2>1. Joint(Byte, h, head, 7, tail, 3)
    BY <1>1, <1>8, <1>9, Concatenates
  <2> QED BY <1>8, <2>1 DEF Joint
<1>11. bytes = Sealed(h)
  BY <1>1, <1>3, <1>5, <1>6, <1>7, <1>8, <1>9, Zenon DEF Encode80
<1>12. PICK b : /\ Deobfuscate(Sealed(h)) = b /\ Checksum(b) = 0
                /\ Sealed(h) \in Seq(Byte) /\ Len(Sealed(h)) = Len(h)
                /\ b[2] \div 16 = Nibble(f.command)
                /\ \A i \in 8..Len(h) : b[i] = h[i]
                /\ \A c : FrameOf(b, c) = [f EXCEPT !.command = c]
  <2>1. h \in Seq(Byte) /\ Len(h) >= 7 /\ \A i \in 1..7 : h[i] = Head7(f)[i]
    BY <1>1, <1>10
  <2> QED BY <2>1, SealOpens
<1>13. b[8] = t1 /\ b[9] = t2 /\ b[10] = last
  BY <1>10, <1>12
<1>14. TailChecksum(t1, t2, last) = TailChecksum(t1, t2, t3)
  BY <1>7 DEF TailChecksum
<1>15. b[10] % 16 = TailChecksum(b[8], b[9], b[10])
  BY <1>6, <1>7, <1>13, <1>14
<1>16. CommandOf(ExtendedValue(b[2] \div 16, b[9])) = {f.command}
  BY <1>2, <1>5, <1>12, <1>13, CommandIsOfValue
<1>17. Decode80(bytes) = {FrameOf(b, c) : c \in {f.command}}
  BY <1>11, <1>12, <1>15, <1>16, Zenon DEF Decode80
<1>18. FrameOf(b, f.command) = f
  BY <1>2, <1>12
<1> QED BY <1>10, <1>11, <1>12, <1>17, <1>18

-----------------------------------------------------------------------------
(* A frame from the sender to the receiver (AirTrip)                       *)

\* A sequence of pulses by another clock is as long.
LEMMA SlowerIsSequence ==
    ASSUME NEW measured \in Seq(Pulses), NEW pace
    PROVE  Sequence(Slower(measured, pace)) /\ Len(Slower(measured, pace)) = Len(measured)
<1>1. PICK n \in Nat : n = Len(measured) /\ DOMAIN measured = 1..n
  OBVIOUS
<1> DEFINE slow(i) == [measured[i] EXCEPT !.micros = (@ * pace) \div 100]
           all == {slow(i) : i \in 1..n}
<1>2. Slower(measured, pace) = [i \in 1..n |-> slow(i)]
  BY <1>1 DEF Slower
<1> HIDE DEF slow
<1>3. PICK f \in [1..n -> all] : f = [i \in 1..n |-> slow(i)]
  OBVIOUS
<1>4. f \in Seq(all) /\ Len(f) = n
  BY Listed
<1>5. Sequence(f)
  BY <1>4, TypedIsSequence
<1> QED BY <1>1, <1>2, <1>3, <1>4, <1>5

\* A frame of a width of the field.
Carried(bits) == Framed(bits) /\ Len(bits) <= 80

\* What a receiver of a clock makes of bits that are played is those bits.
ComesBack(bits, kind, pace) ==
    \E symbols, r : /\ BuildSymbols(bits, kind) = {symbols}
                    /\ Pump(NewDecoder, Slower(FromPulseCode(symbols), pace)) = {r}
                    /\ r.bits = {bits}

\* The bits of a frame of a width of the field come back as they were, and nothing else does.
LEMMA BitsComeBack ==
    ASSUME NEW bits, Carried(bits), NEW kind \in FrameKinds, NEW pace \in Allowed
    PROVE  ComesBack(bits, kind, pace)
<1>1. PICK symbols : symbols = Marked(Merge(Render(bits, kind))) /\ BuildSymbols(bits, kind) = {symbols}
  BY FrameFits DEF Carried
<1>2. NewDecoder \in Decoders /\ NewDecoder \in Hearers(kind)
  BY NewIsDecoder DEF Hearers
<1>3. PICK measured \in Seq(Pulses) : /\ measured = FromPulseCode(symbols)
                                      /\ Hears(NewDecoder, pace, measured, bits)
  BY <1>1, <1>2, MeasuredIsHeard DEF Carried
<1>4. PICK slow : slow = Slower(measured, pace) /\ Sequence(slow) /\ Len(slow) = Len(measured)
  BY SlowerIsSequence
<1>5. PICK w : Feels(w, NewDecoder, slow, Len(slow)) /\ w[Len(slow)].bits = {bits}
  BY <1>3, <1>4 DEF Hears
<1>6. PICK r : Pump(NewDecoder, slow) = {r} /\ r.bits = w[Len(slow)].bits
  BY <1>2, <1>4, <1>5, PumpFeels
<1> QED BY <1>1, <1>3, <1>4, <1>5, <1>6 DEF ComesBack

\* What a receiver makes of bytes that were sent.
FromAir(bytes, kind, pace) ==
    UNION {UNION {DecodedBits(bits) : bits \in r.bits} :
           r \in UNION {Pump(NewDecoder, Slower(FromPulseCode(symbols), pace)) :
                        symbols \in BuildSymbols(BitsOf(bytes), kind)}}

\* Bytes that are sent as a frame of a width are decoded as they were sent.
LEMMA BytesComeBack ==
    ASSUME Narrow = 56, Wide = 80, NEW bytes \in Seq(Byte), Len(bytes) \in {7, 10},
           NEW kind \in FrameKinds, NEW pace \in Allowed
    PROVE  FromAir(bytes, kind, pace) = IF Len(bytes) = 10 THEN Decode80(bytes) ELSE Decode56(bytes)
<1>1. PICK bits \in Seq({0, 1}) : bits = BitsOf(bytes) /\ Len(bits) = 8 * Len(bytes)
  BY BitsAreEight
<1>6. PICK n \in {7, 10} : n = Len(bytes)
  OBVIOUS
<1>2. Carried(bits) /\ (Len(bits) = 80 <=> n = 10)
  <2>1. CASE n = 7
    BY <1>1, <1>6, <2>1 DEF Framed, Carried
  <2>2. CASE n = 10
    BY <1>1, <1>6, <2>2 DEF Framed, Carried
  <2> QED BY <2>1, <2>2
<1>7. ComesBack(bits, kind, pace)
  BY <1>2, BitsComeBack
<1>3. PICK symbols, r : /\ BuildSymbols(bits, kind) = {symbols}
                        /\ Pump(NewDecoder, Slower(FromPulseCode(symbols), pace)) = {r}
                        /\ r.bits = {bits}
  BY <1>7 DEF ComesBack
<1>4. FromAir(bytes, kind, pace) = DecodedBits(bits)
  <2>1. UNION {Pump(NewDecoder, Slower(FromPulseCode(x), pace)) : x \in {symbols}} = {r}
    BY <1>3
  <2>2. FromAir(bytes, kind, pace) = UNION {UNION {DecodedBits(b) : b \in x.bits} : x \in {r}}
    BY <1>1, <1>3, <2>1 DEF FromAir
  <2>3. UNION {UNION {DecodedBits(b) : b \in x.bits} : x \in {r}} = UNION {DecodedBits(b) : b \in {bits}}
    BY <1>3
  <2>4. UNION {DecodedBits(b) : b \in {bits}} = DecodedBits(bits)
    OBVIOUS
  <2> QED BY <2>2, <2>3, <2>4
<1>5. BytesOf(bits) = bytes
  BY <1>1, BytesOfBits
<1> QED BY <1>2, <1>4, <1>5, <1>6 DEF DecodedBits

\* What is heard of a departure is what comes back of its bytes.
LEMMA HeardIsFromAir ==
    ASSUME NEW d, NEW bytes, Encoded(d) = {bytes}, NEW kind,
           kind = IF d.repeat = 0 THEN "First" ELSE "Repeat"
    PROVE  Heard(d) = FromAir(bytes, kind, d.clock)
<1>1. Played(d) = BuildSymbols(BitsOf(bytes), kind)
  BY DEF Played
<1> QED BY <1>1 DEF Heard, FromAir

\* A frame that departs arrives, but for an extended command in a narrow one.
LEMMA Arrives ==
    ASSUME Narrow = 56, Wide = 80, NEW d \in Departures
    PROVE  Heard(d) = IF ~d.wide /\ Extended(d.frame.command) THEN {} ELSE {d.frame}
<1>1. PICK f \in RadioFrames : f = d.frame
  BY TripAssumption DEF Departures
<1>2. PICK repeat \in Nat : repeat = d.repeat
  <2>1. PICK repeat \in Byte : repeat = d.repeat
    BY TripAssumption DEF Departures
  <2>2. repeat \in Nat
    BY DEF Byte
  <2> QED BY <2>1, <2>2
<1>3. PICK pace \in Allowed : pace = d.clock
  BY TripAssumption DEF Departures, Allowed
<1>4. PICK kind \in FrameKinds : kind = IF d.repeat = 0 THEN "First" ELSE "Repeat"
  BY DEF FrameKinds
<1>5. d.wide \in BOOLEAN
  BY DEF Departures
<1>6. CASE d.wide
  <2>1. PICK bytes \in Seq(Byte) : /\ bytes = Encode80(f, repeat) /\ Len(bytes) = 10
                                   /\ Decode80(bytes) = {f}
    BY WideComesBack
  <2>2. Encoded(d) = {bytes}
    BY <1>1, <1>2, <1>6, <2>1 DEF Encoded
  <2>3. Heard(d) = FromAir(bytes, kind, pace)
    BY <1>3, <1>4, <2>2, HeardIsFromAir
  <2>4. FromAir(bytes, kind, pace) = {f}
    <3>1. Len(bytes) \in {7, 10}
      BY <2>1
    <3> QED BY <2>1, <3>1, BytesComeBack
  <2> QED BY <1>1, <1>6, <2>3, <2>4
<1>7. CASE ~d.wide /\ ~Extended(f.command)
  <2>1. PICK bytes : Encode56(f) = {bytes}
    BY <1>7 DEF Encode56
  <2>2. bytes \in Seq(Byte) /\ Len(bytes) = 7 /\ Decode56(bytes) = {f}
    BY <1>7, <2>1, NarrowComesBack
  <2>3. Encoded(d) = {bytes}
    BY <1>1, <1>7, <2>1 DEF Encoded
  <2>4. Heard(d) = FromAir(bytes, kind, pace)
    BY <1>3, <1>4, <2>3, HeardIsFromAir
  <2>5. FromAir(bytes, kind, pace) = {f}
    <3>1. Len(bytes) \in {7, 10} /\ bytes \in Seq(Byte) /\ Len(bytes) # 10
      BY <2>2
    <3>2. FromAir(bytes, kind, pace) = Decode56(bytes)
      BY <3>1, BytesComeBack
    <3> QED BY <2>2, <3>2
  <2> QED BY <1>1, <1>7, <2>4, <2>5
<1>8. CASE ~d.wide /\ Extended(f.command)
  <2>1. Encoded(d) = {}
    BY <1>1, <1>8 DEF Encoded, Encode56
  <2>2. Played(d) = {}
    BY <2>1 DEF Played
  <2>3. Heard(d) = {}
    BY <2>2 DEF Heard
  <2> QED BY <1>1, <1>8, <2>3
<1> QED BY <1>5, <1>6, <1>7, <1>8

\* What is on its way is a departure, and what has arrived is what is heard of it.
Underways ==
    /\ trip \in [stage : {"sent", "heard"}, of : Departures, got : {{}, Heard(trip.of)}]
    /\ trip.stage = "heard" => trip.got = Heard(trip.of)

\* At its real widths, whatever the frame, the repeat and the clock of the receiver within a fifth of
\* the sender's, a frame that is encoded, rendered, merged, packed, played, measured and decoded is
\* the frame that was sent, and an extended command in a 56-bit frame is not sent (somfy-rts
\* frame.rs, encode56 to decode80, pulse.rs and rx.rs; somfy-rmt, build_symbols).
THEOREM TripSafety ==
    ASSUME Narrow = 56, Wide = 80
    PROVE  TripSpec => []HeardIsSent
<1>1. TripInit => Underways
  BY DEF TripInit, Underways
<1>2. Underways /\ [TripNext]_trip => Underways'
  <2>1. ASSUME Underways, Fly PROVE Underways'
    <3>1. trip' = [trip EXCEPT !.stage = "heard", !.got = Heard(trip.of)]
      BY <2>1 DEF Fly
    <3>2. trip \in [stage : {"sent", "heard"}, of : Departures, got : {{}, Heard(trip.of)}]
      BY <2>1 DEF Underways
    <3>3. trip'.of = trip.of /\ trip'.got = Heard(trip.of)
      BY <3>1, <3>2
    <3>4. DOMAIN trip = {"stage", "of", "got"} /\ trip.of \in Departures
      BY <3>2
    <3>5. trip' = [stage |-> "heard", of |-> trip.of, got |-> Heard(trip.of)]
      BY <3>1, <3>2
    <3> QED BY <3>3, <3>4, <3>5 DEF Underways
  <2>2. ASSUME Underways, UNCHANGED trip PROVE Underways'
    BY <2>2 DEF Underways
  <2> QED BY <2>1, <2>2 DEF TripNext
<1>3. Underways => HeardIsSent
  BY Arrives DEF Underways, HeardIsSent
<1> QED BY <1>1, <1>2, <1>3, PTL DEF TripSpec
=============================================================================
