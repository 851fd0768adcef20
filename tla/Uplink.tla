------------------------------- MODULE Uplink -------------------------------
(***************************************************************************)
(* The loops that keep the device on its network: the station's link       *)
(* (firmware/src/net.rs), the broker session (mqtt.rs), the time client    *)
(* (sntp.rs) and the name responder (mdns.rs). Each attempts, reports and  *)
(* waits, for ever; the first three wait what a Backoff                    *)
(* (somfy-tasks/src/backoff.rs) tells them. They share the lease: a loop   *)
(* that has none waits for one without an attempt.                         *)
(*                                                                         *)
(* Time passes in Tick, which no timer that has run out lets pass. While   *)
(* the network is good every attempt works and nothing drops; while it is  *)
(* not, anything may happen to an attempt.                                 *)
(***************************************************************************)
EXTENDS Integers

CONSTANTS RETRY_MIN_MS, RETRY_MAX_MS, \* the range of a Backoff
          STABLE_LINK_MS,    \* a link that lasted as long counts as working
          STABLE_SESSION_MS, \* and so does a broker session
          SOCKET_TIMEOUT_S,  \* a socket whose peer is silent is given up
          REQUEST_TIMEOUT_S, \* and so is a question to a time server
          RESYNC_INTERVAL_S, \* the time is asked again after as long
          RESTART_DELAY_MS,  \* the responder that failed starts again
          Images             \* sets of services an image may come up with

ASSUME RangeAssumption ==
    RETRY_MIN_MS \in Nat /\ RETRY_MAX_MS \in Nat /\ 0 < RETRY_MIN_MS /\ RETRY_MIN_MS <= RETRY_MAX_MS
ASSUME LimitAssumption ==
    /\ STABLE_LINK_MS \in Nat /\ STABLE_SESSION_MS \in Nat /\ SOCKET_TIMEOUT_S \in Nat
    /\ REQUEST_TIMEOUT_S \in Nat /\ RESYNC_INTERVAL_S \in Nat /\ RESTART_DELAY_MS \in Nat
    /\ RETRY_MIN_MS <= RESYNC_INTERVAL_S

VARIABLES services,  \* the services that started: the others are left out of
                     \* the image or failed to start, which stops nothing else
          good,      \* the network works
          link,      \* the task of the link: where it is, and for how long
          requested, \* a candidate credential waits to be tried
          lease,     \* the station has an address
          signal,    \* a signal strength is on record
          broker,    \* the task of the broker session
          ntp,       \* the task of the time client
          clock,     \* the wall clock is set
          responder, \* the task of the name responder
          delay,     \* what each Backoff would wait next
          row,       \* attempts of each loop in a row that did not work
          hollow,    \* attempts in a row that gave no session that lasted
          gap,       \* time since each loop's last attempt ended
          kissed     \* the time server's last answer told the device to stop

tasks == <<link, broker, ntp, responder>>
told == <<row, hollow, gap, kissed>>
uplinkVars == <<services, good, requested, lease, signal, clock, delay, tasks, told>>

Loops == {"wifi", "mqtt", "sntp"}
Longest == IF RETRY_MAX_MS > RESYNC_INTERVAL_S THEN RETRY_MAX_MS ELSE RESYNC_INTERVAL_S
MOST == 4 \* rows are counted as far as this

At(where) == [at |-> where, for |-> 0]
Until(where, time) == [at |-> where, for |-> time]
Up(n, most) == IF n < most THEN n + 1 ELSE most
Down(n) == IF n > 0 THEN n - 1 ELSE 0

-----------------------------------------------------------------------------
(* Backoff                                                                 *)

\* fail: the delay in force is the one to wait, and it doubles up to the most.
Doubled(d) == IF 2 * d > RETRY_MAX_MS THEN RETRY_MAX_MS ELSE 2 * d

\* Mutant: any success ends the backing off.
AfterAny(d, lasted, stable) == RETRY_MIN_MS

\* succeed_after: a success that did not last is none.
After(d, lasted, stable) == IF lasted >= stable THEN RETRY_MIN_MS ELSE d

\* The loop's attempt has ended; its Backoff stands at d, and it worked or not.
EndOfAttempt(loop, d, worked) ==
    /\ delay' = [delay EXCEPT ![loop] = d]
    /\ row' = [row EXCEPT ![loop] = IF worked THEN 0 ELSE Up(@, MOST)]
    /\ gap' = [gap EXCEPT ![loop] = 0]

-----------------------------------------------------------------------------
(* The link                                                                *)

\* Mutant: the reading outlives its link.
LostUnread(reading) == reading

\* The reading of a link that ended is of nothing.
Lost(reading) == FALSE

\* connect_async: the first sample is taken at once.
Join ==
    /\ link.at = "connecting"
    /\ link' = At("held")
    /\ signal' \in {TRUE} \cup {good}
    /\ UNCHANGED <<services, good, requested, lease, broker, ntp, clock, responder, delay, told>>

LinkWaits(lasted) ==
    LET d == After(delay["wifi"], lasted, STABLE_LINK_MS)
    IN /\ link' = Until("waiting", d)
       /\ EndOfAttempt("wifi", Doubled(d), lasted >= STABLE_LINK_MS)

Refused ==
    /\ link.at = "connecting" /\ ~good
    /\ LinkWaits(-1)
    /\ UNCHANGED <<services, good, requested, lease, signal, broker, ntp, clock, responder, hollow, kissed>>

\* hold_link ends with the association, or at once for a candidate.
LinkEnds ==
    /\ link.at = "held"
    /\ ~good \/ requested
    /\ lease' = FALSE
    /\ signal' = Lost(signal)
    /\ LinkWaits(link.for)
    /\ UNCHANGED <<services, good, requested, broker, ntp, clock, responder, hollow, kissed>>

\* The poll: a driver that cannot answer leaves no reading.
Sample ==
    /\ link.at = "held" /\ ~good
    /\ signal' \in BOOLEAN
    /\ UNCHANGED <<services, good, requested, lease, clock, delay, tasks, told>>

\* Mutant: no try once the longest wait is reached.
WaitedBelowMost == link.for = 0 /\ delay["wifi"] < RETRY_MAX_MS

Waited == link.for = 0

\* The wait is over, or a candidate cuts it short; a candidate is applied, and
\* what is tried next is no retry of what was.
NextLink ==
    /\ link.at = "waiting"
    /\ Waited \/ requested
    /\ link' = At("connecting")
    /\ requested' = FALSE
    /\ delay' = IF requested THEN [delay EXCEPT !["wifi"] = RETRY_MIN_MS] ELSE delay
    /\ row' = IF requested THEN [row EXCEPT !["wifi"] = 0] ELSE row
    /\ UNCHANGED <<services, good, lease, signal, broker, ntp, clock, responder, hollow, gap, kissed>>

Lease ==
    /\ link.at = "held" /\ ~lease
    /\ lease' = TRUE
    /\ UNCHANGED <<services, good, requested, signal, clock, delay, tasks, told>>

LeaseLapses ==
    /\ lease /\ ~good
    /\ lease' = FALSE
    /\ UNCHANGED <<services, good, requested, signal, clock, delay, tasks, told>>

-----------------------------------------------------------------------------
(* The broker session                                                      *)

StartConnect ==
    /\ "mqtt" \in services /\ broker.at = "route" /\ lease
    /\ broker' = [at |-> "connecting", for |-> 0, silent |-> 0]
    /\ UNCHANGED <<services, good, requested, lease, signal, link, ntp, clock, responder, delay, told>>

\* The socket and then CONNACK.
Established ==
    /\ broker.at = "connecting" /\ lease
    /\ broker' = [broker EXCEPT !.at = "session", !.silent = 0]
    /\ UNCHANGED <<services, good, requested, lease, signal, link, ntp, clock, responder, delay, told>>

\* Refused, reset, closed by either side, or nothing heard for SOCKET_TIMEOUT_S.
\* How long it lasted is measured from before the connection was asked for.
SessionEnds ==
    /\ broker.at \in {"connecting", "session"}
    /\ ~good \/ broker.silent = SOCKET_TIMEOUT_S
    /\ LET d == After(delay["mqtt"], broker.for, STABLE_SESSION_MS)
       IN /\ broker' = [at |-> "waiting", for |-> d, silent |-> 0]
          /\ EndOfAttempt("mqtt", Doubled(d), broker.for >= STABLE_SESSION_MS)
    /\ hollow' = IF broker.at = "session" /\ broker.for >= STABLE_SESSION_MS
                 THEN 0 ELSE Up(hollow, MOST)
    /\ UNCHANGED <<services, good, requested, lease, signal, link, ntp, clock, responder, kissed>>

NextSession ==
    /\ broker.at = "waiting" /\ broker.for = 0
    /\ broker' = [broker EXCEPT !.at = "route"]
    /\ UNCHANGED <<services, good, requested, lease, signal, link, ntp, clock, responder, delay, told>>

-----------------------------------------------------------------------------
(* The time client                                                         *)

Ask ==
    /\ "sntp" \in services /\ ntp.at = "route" /\ lease
    /\ ntp' = At("asking")
    /\ UNCHANGED <<services, good, requested, lease, signal, link, broker, clock, responder, delay, told>>

Answered ==
    /\ ntp.at = "asking" /\ lease
    /\ clock' = TRUE
    /\ ntp' = Until("waiting", RESYNC_INTERVAL_S)
    /\ EndOfAttempt("sntp", RETRY_MIN_MS, TRUE)
    /\ kissed' = FALSE
    /\ UNCHANGED <<services, good, requested, lease, signal, link, broker, responder, hollow>>

NoTime(kiss) ==
    /\ ntp' = Until("waiting", delay["sntp"])
    /\ EndOfAttempt("sntp", Doubled(delay["sntp"]), FALSE)
    /\ kissed' = kiss
    /\ UNCHANGED <<services, good, requested, lease, signal, link, broker, clock, responder, hollow>>

\* The server's name does not resolve, in the time there is for it.
Unresolved ==
    /\ ntp.at = "asking"
    /\ ~good \/ (ntp.for = REQUEST_TIMEOUT_S /\ ~lease)
    /\ NoTime(FALSE)

\* No answer comes in time, or one that says no: a server not synchronised, or a
\* Kiss-o'-Death.
Unanswered(kiss) ==
    /\ ntp.at = "asking" /\ ~good
    /\ NoTime(kiss)

NextQuestion ==
    /\ ntp.at = "waiting" /\ ntp.for = 0
    /\ ntp' = At("route")
    /\ UNCHANGED <<services, good, requested, lease, signal, link, broker, clock, responder, delay, told>>

-----------------------------------------------------------------------------
(* The name responder                                                      *)

\* It serves until the address goes, and starts again with the next.
Respond ==
    /\ "mdns" \in services /\ responder.at = "route" /\ lease
    /\ responder' = At("serving")
    /\ UNCHANGED <<services, good, requested, lease, signal, link, broker, ntp, clock, delay, told>>

AddressGone ==
    /\ responder.at = "serving" /\ ~lease
    /\ responder' = At("route")
    /\ UNCHANGED <<services, good, requested, lease, signal, link, broker, ntp, clock, delay, told>>

RespondFails ==
    /\ responder.at = "serving" /\ ~good
    /\ responder' = Until("waiting", RESTART_DELAY_MS)
    /\ UNCHANGED <<services, good, requested, lease, signal, link, broker, ntp, clock, delay, told>>

RespondAgain ==
    /\ responder.at = "waiting" /\ responder.for = 0
    /\ responder' = At("route")
    /\ UNCHANGED <<services, good, requested, lease, signal, link, broker, ntp, clock, delay, told>>

-----------------------------------------------------------------------------
(* The network and time                                                    *)

\* The network gets better or worse.
Weather ==
    /\ good' = ~good
    /\ UNCHANGED <<services, requested, lease, signal, clock, delay, tasks, told>>

\* Somebody asks for a trial of credentials, on a network to be left.
Candidate ==
    /\ ~good /\ ~requested
    /\ requested' = TRUE
    /\ UNCHANGED <<services, good, lease, signal, clock, delay, tasks, told>>

\* A session with nobody at the other end is silent.
Silent == broker.at \in {"connecting", "session"} /\ ~(lease /\ good)

Expired ==
    \/ \E task \in {link, broker, ntp, responder} : task.at = "waiting" /\ task.for = 0
    \/ broker.silent = SOCKET_TIMEOUT_S
    \/ ntp.at = "asking" /\ ntp.for = REQUEST_TIMEOUT_S

Aged(task, stable) ==
    IF task.at = "waiting" THEN [task EXCEPT !.for = Down(@)] ELSE [task EXCEPT !.for = Up(@, stable)]

Tick ==
    /\ ~Expired
    /\ link' = Aged(link, STABLE_LINK_MS)
    /\ broker' = [Aged(broker, STABLE_SESSION_MS) EXCEPT !.silent = IF Silent THEN @ + 1 ELSE 0]
    /\ ntp' = Aged(ntp, REQUEST_TIMEOUT_S)
    /\ responder' = Aged(responder, 0)
    /\ gap' = [loop \in Loops |-> Up(gap[loop], Longest)]
    /\ UNCHANGED <<services, good, requested, lease, signal, clock, delay, row, hollow, kissed>>

LinkWork == Join \/ Refused \/ LinkEnds \/ NextLink
SessionWork == StartConnect \/ Established \/ SessionEnds \/ NextSession
TimeWork == Ask \/ Answered \/ Unresolved \/ (\E kiss \in BOOLEAN : Unanswered(kiss)) \/ NextQuestion
NameWork == Respond \/ AddressGone \/ RespondFails \/ RespondAgain

UplinkInit ==
    /\ services \in Images
    /\ good \in BOOLEAN /\ requested = FALSE /\ lease = FALSE /\ signal = FALSE /\ clock = FALSE
    /\ link = At("connecting")
    /\ broker = [at |-> "route", for |-> 0, silent |-> 0]
    /\ ntp = At("route") /\ responder = At("route")
    /\ delay = [loop \in Loops |-> RETRY_MIN_MS]
    /\ row = [loop \in Loops |-> 0] /\ hollow = 0
    /\ gap = [loop \in Loops |-> Longest] /\ kissed = FALSE

UplinkNext == LinkWork \/ Sample \/ Lease \/ LeaseLapses \/ SessionWork \/ TimeWork \/ NameWork
              \/ Weather \/ Candidate \/ Tick
UplinkSpec == UplinkInit /\ [][UplinkNext]_uplinkVars

\* Every task runs, the DHCP server answers a link that stays, and time passes.
UplinkFairSpec ==
    /\ UplinkSpec
    /\ WF_uplinkVars(LinkWork) /\ WF_uplinkVars(Lease) /\ WF_uplinkVars(SessionWork)
    /\ WF_uplinkVars(TimeWork) /\ WF_uplinkVars(NameWork) /\ WF_uplinkVars(Tick)

-----------------------------------------------------------------------------
(* Properties                                                              *)

\* Every variable is of its type, and no delay leaves the range of a Backoff.
UplinkTypeOK ==
    /\ services \in Images
    /\ good \in BOOLEAN /\ requested \in BOOLEAN /\ lease \in BOOLEAN /\ signal \in BOOLEAN
    /\ clock \in BOOLEAN /\ kissed \in BOOLEAN
    /\ link.at \in {"connecting", "held", "waiting"} /\ link.for \in Nat
    /\ broker.at \in {"route", "connecting", "session", "waiting"} /\ broker.for \in Nat
    /\ broker.silent \in 0..SOCKET_TIMEOUT_S
    /\ ntp.at \in {"route", "asking", "waiting"} /\ ntp.for \in Nat
    /\ responder.at \in {"route", "serving", "waiting"} /\ responder.for \in Nat
    /\ delay \in [Loops -> RETRY_MIN_MS..RETRY_MAX_MS]
    /\ row \in [Loops -> 0..MOST] /\ hollow \in 0..MOST
    /\ gap \in [Loops -> 0..Longest]

\* A signal strength on record is of a link that is there.
SignalIsOfThisLink == signal => link.at = "held"

\* Types, and a signal that is always of the link that is up.
UplinkSafe == UplinkTypeOK /\ SignalIsOfThisLink

\* What a loop owes before its next attempt, after so many that did not work.
Owed(failures) ==
    LET wait == CASE failures = 0 -> RETRY_MIN_MS
                  [] failures = 1 -> RETRY_MIN_MS
                  [] failures = 2 -> 2 * RETRY_MIN_MS
                  [] failures = 3 -> 4 * RETRY_MIN_MS
                  [] OTHER -> 8 * RETRY_MIN_MS
    IN IF wait > RETRY_MAX_MS THEN RETRY_MAX_MS ELSE wait

Attempts(loop) ==
    CASE loop = "wifi" -> link.at = "waiting" /\ link'.at = "connecting"
      [] loop = "mqtt" -> broker.at = "route" /\ broker'.at = "connecting"
      [] loop = "sntp" -> ntp.at = "route" /\ ntp'.at = "asking"

\* Nobody is hammered: an access point that lets the device join and throws it
\* out again, a broker that closes every session at once and a time server that
\* does not answer are each asked twice as rarely at every failure, as far as
\* the most; a success counts only if it lasted; and a time server that answers
\* is not asked sooner than the interval. A candidate credential alone cuts a
\* wait short.
RetriesBackOff ==
    [][\A loop \in Loops : Attempts(loop) /\ ~(loop = "wifi" /\ requested) =>
           /\ gap[loop] >= Owed(row[loop])
           /\ (loop = "sntp" /\ row[loop] = 0 => gap[loop] >= RESYNC_INTERVAL_S)]_uplinkVars

\* A network that stays good is rejoined: the link is held, the broker has its
\* session, the clock is set and the name is answered for, whatever went wrong
\* before and with nobody to restart the device.
Rejoins ==
    <>[]good => <>[](/\ link.at = "held" /\ lease
                     /\ "mqtt" \in services => broker.at = "session"
                     /\ "sntp" \in services => clock
                     /\ "mdns" \in services => responder.at = "serving")

\* (Violated.)  Only a session that lasted resets the wait of the broker's loop.
OnlyASessionResets ==
    [][Attempts("mqtt") => gap["mqtt"] >= Owed(hollow)]_uplinkVars

\* (Violated.)  A Kiss-o'-Death takes the wait to its most.
KissIsHeeded ==
    [][Attempts("sntp") /\ kissed => gap["sntp"] >= RETRY_MAX_MS]_uplinkVars
=============================================================================
