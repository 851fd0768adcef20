------------------------------ MODULE WifiTrial ------------------------------
(***************************************************************************)
(* Changing the Wi-Fi credential over the network it changes               *)
(* (somfy-config/src/trial.rs, firmware/src/trial.rs, net.rs, and the      *)
(* settings routes of api/routes.rs).  A candidate goes on the radio, not  *)
(* into flash; it is stored once the operator has come back through it and *)
(* confirmed, and a reboot onto the stored credential undoes it otherwise. *)
(*                                                                         *)
(* The tasks are the web server's handlers, the one that owns the Wi-Fi    *)
(* controller, the watcher of the trial and the state task that writes.    *)
(***************************************************************************)
EXTENDS ConfigStore

CONSTANTS Home,               \* the credential the board was provisioned with
          ASSOCIATE_DEADLINE, \* in ticks of the clock
          CONFIRM_DEADLINE,
          MaxRequests,        \* bound: settings requests of a run
          MaxBroken           \* bound: writes that fail and power cuts

\* The board was provisioned with a credential, and the deadlines are of the clock.
ASSUME TrialAssumption ==
    Home \in Nets /\ ASSOCIATE_DEADLINE \in Nat /\ CONFIRM_DEADLINE \in Nat

VARIABLES requested,  \* Slot.requested
          live,       \* Slot.live
          linkUp,     \* Slot.link_up: the watcher's last look
          raised,     \* the REQUESTED signal
          link,       \* where wifi_link is
          taken,      \* the candidate wifi_link has taken out of the slot
          onAir,      \* the credential the controller is configured with
          joined,     \* the station is associated
          leased,     \* and has an address: is_config_up
          clicked,    \* the network a confirmation under way was sent over
          saving,     \* the confirmation whose write is under way
          restart,    \* the RESTART signal
          reached,    \* credentials somebody confirmed from
          doubled,    \* a second candidate was let in, since the boot
          requests, broken

slotVars == <<requested, live, linkUp, raised>>
linkVars == <<link, taken, onAir, joined, leased>>
counts == <<requests, broken>>
trialVars == <<ring, slotVars, linkVars, clicked, saving, restart, reached, doubled, counts>>

NoTrial == [is |-> "none"]
Trial(candidate, phase, decision, age) ==
    [is |-> "trial", candidate |-> candidate, phase |-> phase, decision |-> decision, age |-> age]
NoSave == [is |-> "none"]
Save(candidate, at, waited) == [is |-> "save", candidate |-> candidate, at |-> at, waited |-> waited]

Longest == Max({ASSOCIATE_DEADLINE, CONFIRM_DEADLINE}) + 1

SettingsTypeOK ==
    /\ ring \in [Slots -> SlotStates]
    /\ requested \in Nets \cup {Nothing} /\ taken \in Nets \cup {Nothing}
    /\ live = NoTrial \/ live \in [is : {"trial"}, candidate : Nets,
          phase : {"associating", "awaiting"}, decision : {"none", "confirmed", "cancelled"},
          age : 0..Longest]
    /\ saving = NoSave \/ saving \in [is : {"save"}, candidate : Nets,
          at : {"asked", "done", "refused"}, waited : BOOLEAN]
    /\ link \in {"top", "settle", "applying", "joining", "held", "waiting"}
    /\ {onAir, clicked} \subseteq Nets \cup {Nothing}
    /\ {linkUp, raised, joined, leased, restart, doubled} \subseteq BOOLEAN
    /\ leased => joined
    /\ reached \subseteq Nets

\* What the commissioning wrote, with a broker or without one.
Provisioned(mqtt) == Decoded([seq |-> 0, wifi |-> Home, mqtt |-> mqtt])

TrialInit ==
    /\ \E mqtt \in Pairs \cup {Nothing} :
           ring = [s \in Slots |-> IF s = 0 THEN Provisioned(mqtt) ELSE Erased]
    /\ requested = Nothing /\ live = NoTrial /\ linkUp = FALSE /\ raised = FALSE
    /\ link = "top" /\ taken = Nothing /\ onAir = Home /\ joined = FALSE /\ leased = FALSE
    /\ clicked = Nothing /\ saving = NoSave /\ restart = FALSE
    /\ reached = {} /\ doubled = FALSE
    /\ requests = 0 /\ broken = 0

-----------------------------------------------------------------------------
(* WifiTrial::poll: what becomes of a trial that is looked at              *)

\* The operator's window starts when the station associates.
Entered(trial, up) ==
    IF trial.phase = "associating" /\ up /\ trial.decision # "cancelled"
    THEN [trial EXCEPT !.phase = "awaiting", !.age = 0] ELSE trial

\* Mutant: the confirmation deadline is never over.
OutcomePatient(trial, up) ==
    IF trial.decision = "cancelled" THEN "revert"
    ELSE IF trial.phase = "associating"
         THEN IF trial.age > ASSOCIATE_DEADLINE THEN "revert" ELSE "wait"
    ELSE IF ~up THEN "revert"
    ELSE IF trial.decision = "confirmed" THEN "commit" ELSE "wait"

\* More than one of the conditions may hold: their order is that of the checks in the code.
Outcome(trial, up) ==
    IF trial.decision = "cancelled" THEN "revert"
    ELSE IF trial.phase = "associating"
         THEN IF trial.age > ASSOCIATE_DEADLINE THEN "revert" ELSE "wait"
    ELSE IF ~up THEN "revert"
    ELSE IF trial.decision = "confirmed" THEN "commit"
    ELSE IF trial.age > CONFIRM_DEADLINE THEN "revert" ELSE "wait"

-----------------------------------------------------------------------------
(* A restart: by the watcher, by a change of broker, or by a power cut     *)

Restarted ==
    /\ requested' = Nothing /\ live' = NoTrial /\ linkUp' = FALSE /\ raised' = FALSE
    /\ link' = "top" /\ taken' = Nothing
    /\ joined' = FALSE /\ leased' = FALSE
    /\ clicked' = Nothing /\ saving' = NoSave /\ restart' = FALSE /\ doubled' = FALSE
    /\ onAir' = Loaded.wifi'
    /\ UNCHANGED reached

\* The write under way, if there is one, may be cut short.
PowerCut ==
    /\ broken < MaxBroken /\ broken' = broken + 1
    /\ IF saving.is = "save" /\ saving.at = "asked"
       THEN WriteBroken(WifiHalf(saving.candidate)) ELSE UNCHANGED ring
    /\ Restarted
    /\ UNCHANGED requests

Restarter == restart /\ UNCHANGED <<ring, counts>> /\ Restarted

-----------------------------------------------------------------------------
(* The task that owns the controller: net.rs, wifi_link                    *)

TakeRequested ==
    /\ link = "top"
    /\ taken' = requested /\ requested' = Nothing
    /\ link' = IF requested = Nothing THEN "joining" ELSE "settle"
    /\ UNCHANGED <<ring, live, linkUp, raised, onAir, joined, leased, clicked, saving, restart,
                   reached, doubled, counts>>

\* apply_candidate: the driver refuses the configuration, or takes it.
NotApplied ==
    /\ link = "settle"
    /\ requested' = Nothing /\ live' = NoTrial
    /\ link' = "joining" /\ taken' = Nothing
    /\ UNCHANGED <<ring, linkUp, raised, onAir, joined, leased, clicked, saving, restart, reached,
                   doubled, counts>>

Configure ==
    /\ link = "settle"
    /\ onAir' = taken
    /\ joined' = FALSE /\ leased' = FALSE
    /\ link' = "applying"
    /\ UNCHANGED <<ring, slotVars, taken, clicked, saving, restart, reached, doubled, counts>>

\* Mutant: the look at the previous network's link is kept.
AppliedKeepsLink ==
    /\ link = "applying"
    /\ live' = Trial(taken, "associating", "none", 0)
    /\ link' = "joining" /\ taken' = Nothing
    /\ UNCHANGED <<ring, requested, linkUp, raised, onAir, joined, leased, clicked, saving, restart, reached,
                   doubled, counts>>

Applied ==
    /\ link = "applying"
    /\ live' = Trial(taken, "associating", "none", 0)
    /\ linkUp' = FALSE
    /\ link' = "joining" /\ taken' = Nothing
    /\ UNCHANGED <<ring, requested, raised, onAir, joined, leased, clicked, saving, restart, reached,
                   doubled, counts>>

Connect ==
    /\ link = "joining" /\ onAir # Nothing
    /\ \/ link' = "held" /\ joined' = TRUE
       \/ link' = "waiting" /\ UNCHANGED joined
    /\ UNCHANGED <<ring, slotVars, taken, onAir, leased, clicked, saving, restart, reached, doubled, counts>>

\* hold_link ends: the link is lost, or a candidate was asked for.
LinkEnds ==
    /\ link = "held"
    /\ ~joined \/ raised
    /\ raised' = (raised /\ ~joined)
    /\ link' = "waiting"
    /\ UNCHANGED <<ring, requested, live, linkUp, taken, onAir, joined, leased, clicked, saving, restart,
                   reached, doubled, counts>>

\* The backoff is over, or a candidate cuts it short.
Retry ==
    /\ link = "waiting"
    /\ raised' \in {raised, FALSE}
    /\ link' = "top"
    /\ UNCHANGED <<ring, requested, live, linkUp, taken, onAir, joined, leased, clicked, saving, restart,
                   reached, doubled, counts>>

WifiLink == TakeRequested \/ NotApplied \/ Configure \/ Applied \/ Connect \/ LinkEnds \/ Retry

\* The access point and its DHCP server.
Lease == joined /\ ~leased /\ clicked = Nothing /\ leased' = TRUE
         /\ UNCHANGED <<ring, slotVars, link, taken, onAir, joined, clicked, saving, restart, reached, doubled, counts>>
Drop == joined /\ joined' = FALSE /\ leased' = FALSE
        /\ UNCHANGED <<ring, slotVars, link, taken, onAir, clicked, saving, restart, reached, doubled, counts>>

-----------------------------------------------------------------------------
(* The watcher                                                             *)

Watch ==
    /\ linkUp' = leased
    /\ live.is = "trial" => Outcome(Entered(live, leased), leased) # "revert"
    /\ live' = IF live = NoTrial THEN NoTrial ELSE Entered(live, leased)
    /\ UNCHANGED <<ring, requested, raised, linkVars, clicked, saving, restart, reached, doubled, counts>>

Revert ==
    /\ live.is = "trial" /\ Outcome(Entered(live, leased), leased) = "revert"
    /\ UNCHANGED <<ring, counts>>
    /\ Restarted

Tick ==
    /\ live.is = "trial" /\ live.age < Longest
    /\ live' = [live EXCEPT !.age = @ + 1]
    /\ UNCHANGED <<ring, requested, linkUp, raised, linkVars, clicked, saving, restart, reached, doubled, counts>>

-----------------------------------------------------------------------------
(* The settings routes, reached over the network the station is on         *)

Asked == leased /\ requests < MaxRequests /\ requests' = requests + 1

Busy == requested # Nothing \/ live # NoTrial

\* start_wifi_trial; a busy slot refuses.
RequestTrial(candidate) ==
    /\ Asked /\ ~Busy
    /\ requested' = candidate /\ raised' = TRUE
    /\ doubled' = (doubled \/ link \in {"settle", "applying"})
    /\ UNCHANGED <<ring, live, linkUp, linkVars, clicked, saving, restart, reached, broken>>

Confirmed == [live EXCEPT !.decision = "confirmed"]

\* The operator confirms; the handler runs before the station can have left one
\* network and got an address on another.
Click ==
    /\ Asked /\ clicked = Nothing /\ saving = NoSave
    /\ clicked' = onAir
    /\ UNCHANGED <<ring, slotVars, linkVars, saving, restart, reached, doubled, broken>>

\* settle_wifi_trial, Confirm: trial::commit, and the write if it is proved.
Confirm ==
    /\ clicked # Nothing /\ clicked' = Nothing
    /\ IF live = NoTrial THEN UNCHANGED <<live, saving>>
       ELSE /\ live' = Entered(Confirmed, linkUp)
            /\ saving' = IF Outcome(live', linkUp) = "commit"
                         THEN Save(live.candidate, "asked", TRUE) ELSE NoSave
    /\ reached' = reached \cup {clicked}
    /\ UNCHANGED <<ring, requested, linkUp, raised, linkVars, restart, doubled, counts>>

\* The state task writes, whether or not the handler is still there.
SaveWifi ==
    /\ saving.is = "save" /\ saving.at = "asked"
    /\ \/ /\ Written(WifiHalf(saving.candidate))
          /\ saving' = IF saving.waited THEN [saving EXCEPT !.at = "done"] ELSE NoSave
          /\ UNCHANGED broken
       \/ /\ broken < MaxBroken /\ broken' = broken + 1
          /\ WriteBroken(WifiHalf(saving.candidate))
          /\ saving' = IF saving.waited THEN [saving EXCEPT !.at = "refused"] ELSE NoSave
    /\ UNCHANGED <<slotVars, linkVars, clicked, restart, reached, doubled, requests>>

\* The reply: trial::end, or the trial is left running.
End ==
    /\ saving.is = "save" /\ saving.at # "asked"
    /\ saving' = NoSave
    /\ IF saving.at = "done" THEN requested' = Nothing /\ live' = NoTrial
                             ELSE UNCHANGED <<requested, live>>
    /\ UNCHANGED <<ring, linkUp, raised, linkVars, clicked, restart, reached, doubled, counts>>

\* The call times out, or the connection dies with its handler.
GiveUp ==
    /\ saving.is = "save" /\ saving.waited
    /\ saving' = IF saving.at = "asked" THEN [saving EXCEPT !.waited = FALSE] ELSE NoSave
    /\ UNCHANGED <<ring, slotVars, linkVars, clicked, restart, reached, doubled, counts>>

\* settle_wifi_trial, Cancel: a candidate not yet taken is simply dropped.
Cancel ==
    /\ Asked /\ Busy
    /\ requested' = Nothing
    /\ live' = IF live = NoTrial THEN NoTrial ELSE [live EXCEPT !.decision = "cancelled"]
    /\ UNCHANGED <<ring, linkUp, raised, linkVars, clicked, saving, restart, reached, doubled, broken>>

\* save_mqtt and clear_mqtt: stored, then a restart.
SaveMqtt(mqtt) ==
    /\ Asked
    /\ \/ Written(MqttHalf(mqtt)) /\ restart' = TRUE /\ UNCHANGED broken
       \/ /\ broken < MaxBroken /\ broken' = broken + 1
          /\ WriteBroken(MqttHalf(mqtt)) /\ UNCHANGED restart
    /\ UNCHANGED <<slotVars, linkVars, clicked, saving, reached, doubled>>

Routes ==
    \/ \E candidate \in Nets : RequestTrial(candidate)
    \/ Click \/ Confirm \/ End \/ GiveUp \/ Cancel
    \/ \E mqtt \in Pairs \cup {Nothing} : SaveMqtt(mqtt)

TrialNext == WifiLink \/ Lease \/ Drop \/ Watch \/ Revert \/ Tick
             \/ Routes \/ SaveWifi \/ Restarter \/ PowerCut

(***************************************************************************)
(* The executor runs every task that is ready, the clock goes on and the   *)
(* state task serves its queue; nothing is asked of the operator, of the   *)
(* access point or of the flash.                                           *)
(***************************************************************************)
TrialFairness == /\ WF_trialVars(WifiLink) /\ WF_trialVars(Watch \/ Revert)
                 /\ WF_trialVars(Tick) /\ WF_trialVars(SaveWifi) /\ WF_trialVars(End)
                 /\ WF_trialVars(Restarter)

TrialSpec == TrialInit /\ [][TrialNext]_trialVars /\ TrialFairness

-----------------------------------------------------------------------------
(* Properties                                                              *)

(***************************************************************************)
(* "Written only once somebody has come back through it and said so": no   *)
(* order of requests, restarts and failing writes stores a credential that *)
(* nobody confirmed from.                                                  *)
(***************************************************************************)
OnlyProved == Loaded.wifi \in {Home} \cup reached

(***************************************************************************)
(* While the radio is on a credential flash does not name, there is a      *)
(* trial of it to undo it.  Not so once a second candidate was let in      *)
(* during the settle delay of the first.                                   *)
(***************************************************************************)
NeverStranded ==
    (onAir # Loaded.wifi /\ ~doubled) =>
        \/ link = "applying"
        \/ live.is = "trial" /\ live.candidate = onAir

\* What a trial keeps through restarts, failing writes and other requests.
TrialSafe == SettingsTypeOK /\ OnlyProved /\ NeverStranded

(***************************************************************************)
(* config.rs, "only one half moves at a time": whatever a write, a failing *)
(* one or a cut does to the ring, what is loaded next differs from what    *)
(* was loaded before in one half at most.                                  *)
(***************************************************************************)
OneHalfMoves == [][Loaded'.wifi = Loaded.wifi \/ Loaded'.mqtt = Loaded.mqtt]_trialVars

(***************************************************************************)
(* A trial that nobody has confirmed ends, whatever the radio does.        *)
(***************************************************************************)
UnconfirmedEnds ==
    live.is = "trial" /\ live.decision # "confirmed" ~>
        live = NoTrial \/ live.decision = "confirmed"

(***************************************************************************)
(* (Violated.)  routes.rs: after a write that failed the operator may      *)
(* retry, and "if they do not, the confirmation deadline reverts the       *)
(* device as it always would".                                             *)
(***************************************************************************)
DeadlineReverts ==
    saving.is = "save" /\ saving.at = "refused" ~>
        live = NoTrial \/ (saving.is = "save" /\ saving.at = "asked")
=============================================================================
