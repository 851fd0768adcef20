---------------------------- MODULE BrokerSession ----------------------------
(***************************************************************************)
(* The broker session (firmware/src/mqtt.rs): one task that works from its *)
(* own copy of the shade list, told by events what the state task changed, *)
(* and what the broker keeps of it.                                        *)
(*                                                                         *)
(* What a handler has to put on the wire is a plan of steps, as in         *)
(* somfy-mqtt/src/lifecycle.rs; each step waits for the broker, and a lost *)
(* connection drops the rest. The publications of one shade are one step,  *)
(* and so are its tombstones: an entity is on the broker from its first    *)
(* discovery config until its last tombstone.                              *)
(*                                                                         *)
(* A namespace is the pair of discovery prefix and state root the topics   *)
(* are under. Changing it needs a restart, after which the ring still      *)
(* holds the configuration before.                                         *)
(***************************************************************************)
EXTENDS ShadeTable

CONSTANTS Namespaces, \* how many, numbered in the order they are configured
          ACKS        \* places for acknowledgements

Spaces == 1..Namespaces

ASSUME BrokerAssumption == Namespaces \in Nat \ {0} /\ ACKS \in Nat

VARIABLES up,        \* whether a session is established
          plan,      \* the steps the running handler has left
          inventory, \* the session's own copy: the unit of each slot, or None
          orphans,   \* slots boot found announced and gone
          space,     \* the configured namespace
          stale,     \* superseded namespaces still to clear
          count,     \* the awaiting-setup figure the session holds
          retained,  \* what the broker keeps, by namespace and slot
          shown,     \* the awaiting-setup figure the broker keeps
          cutShort,  \* an event's plan was lost with its session, since the boot
          unnamed    \* entities no boot had a way to name

sessionVars == <<up, plan, inventory, orphans, space, stale, count, retained, shown,
                 cutShort, unnamed>>
brokerVars == <<tableVars, sessionVars>>

Entities(reg) == [id \in Ids |-> IF id \in Confirmed(reg) THEN reg[id].unit ELSE None]
Held == {id \in Ids : inventory[id] # None}

\* The steps of a plan.
Show(id) == [is |-> "show", id |-> id]
Hide(s, id) == [is |-> "hide", space |-> s, id |-> id]
AckAnnounced(id) == [is |-> "ackAnnounced", id |-> id]
AckRetired(id, why) == [is |-> "ackRetired", id |-> id, why |-> why]
Announcement == [is |-> "announcement"]
Report == [is |-> "report"]

\* The acknowledgement that ends the plan of an event.
OfEvent(step) == step.is = "ackAnnounced" \/ (step.is = "ackRetired" /\ step.why = "removed")

Each(ids, Step(_)) == LET order == Ascending(ids) IN [i \in 1..Len(order) |-> Step(order[i])]

-----------------------------------------------------------------------------
(* The plans                                                               *)

\* lifecycle.rs, reconfigure and MqttConfig::retire: under every superseded
\* namespace, the shades the session knows now.
RetireStale == FlattenSeq([i \in 1..Cardinality(stale) |->
                  Each(Held, LAMBDA id : Hide(Ascending(stale)[i], id))])

\* Mutant: the state task forgets before the broker does.
RetireAcksFirst(id, why) == <<AckRetired(id, why), Hide(space, id)>>

\* Broker::retire: the tombstones, then the acknowledgement; of a shade that
\* was removed the inventory forgets it too.
Retire(id, why) == <<Hide(space, id), AckRetired(id, why)>>

\* Mutant: entities of removed shades are left to the broker.
ResyncWithoutOrphans == RetireStale \o Each(Held, Show) \o <<Announcement>>

\* Broker::resync, for a session the broker has not kept.
Resync == RetireStale
          \o Each(Held, Show)
          \o FlattenSeq([i \in 1..Cardinality(orphans) |-> Retire(Ascending(orphans)[i], "orphan")])
          \o <<Announcement>>

\* Broker::announce_one.
AnnounceOne(id) == <<Show(id), AckAnnounced(id)>>

-----------------------------------------------------------------------------
(* The session                                                             *)

Connect ==
    /\ ~up
    /\ up' = TRUE
    /\ plan' = Resync
    /\ UNCHANGED <<tableVars, inventory, orphans, space, stale, count, retained, shown,
                   cutShort, unnamed>>

\* Whatever the session was doing is lost with it.
Lose ==
    /\ up
    /\ Trouble
    /\ up' = FALSE
    /\ plan' = <<>>
    /\ cutShort' = (cutShort \/ \E i \in DOMAIN plan : OfEvent(plan[i]))
    /\ UNCHANGED <<registry, seeds, announced, pending, group, flash, events, acks, missed,
                   edits>>
    /\ UNCHANGED <<inventory, orphans, space, stale, count, retained, shown, unnamed>>

Quiet == up /\ plan = <<>>
Step(op) == up /\ plan # <<>> /\ Head(plan).is = op /\ plan' = Tail(plan)

\* A discovery config names the shade as the inventory does; one the inventory
\* has lost is skipped.
DoShow ==
    /\ Step("show")
    /\ LET id == Head(plan).id IN
       retained' = IF id \in Held THEN [retained EXCEPT ![space][id] = inventory[id]]
                                  ELSE retained
    /\ UNCHANGED <<tableVars, up, inventory, orphans, space, stale, count, shown, cutShort,
                   unnamed>>

DoHide ==
    /\ Step("hide")
    /\ retained' = [retained EXCEPT ![Head(plan).space][Head(plan).id] = None]
    /\ UNCHANGED <<tableVars, up, inventory, orphans, space, stale, count, shown, cutShort,
                   unnamed>>

\* Mutant: the last place of the queue is never used.
AckRoomShort == Len(acks) + 1 < ACKS
AckRoom == Len(acks) < ACKS

\* The session waits for a place in the queue.
DoAck(op, ack(_)) ==
    /\ Step(op)
    /\ AckRoom
    /\ acks' = Append(acks, ack(Head(plan).id))
    /\ UNCHANGED <<registry, seeds, announced, pending, group, flash, events, missed, edits,
                   troubles>>
    /\ UNCHANGED <<up, space, stale, count, retained, shown, cutShort, unnamed>>

DoAckAnnounced == DoAck("ackAnnounced", Announced) /\ UNCHANGED <<inventory, orphans>>

\* Mutant: the shade stays on the list of those to be retired.
DoAckRetiredKeeps ==
    /\ DoAck("ackRetired", Retired)
    /\ inventory' = IF Head(plan).why = "removed"
                    THEN [inventory EXCEPT ![Head(plan).id] = None] ELSE inventory
    /\ UNCHANGED orphans

DoAckRetired ==
    /\ DoAck("ackRetired", Retired)
    /\ orphans' = orphans \ {Head(plan).id}
    /\ inventory' = IF Head(plan).why = "removed"
                    THEN [inventory EXCEPT ![Head(plan).id] = None] ELSE inventory

\* The last steps of an announcement, Broker::announce and resync.
EndAnnouncement ==
    /\ Step("announcement")
    /\ stale' = {}
    /\ shown' = count
    /\ UNCHANGED <<tableVars, up, inventory, orphans, space, count, retained, cutShort,
                   unnamed>>

DoReport ==
    /\ Step("report")
    /\ shown' = count
    /\ UNCHANGED <<tableVars, up, inventory, orphans, space, stale, count, retained,
                   cutShort, unnamed>>

\* Broker::serve, the fourth arm: one event, and the plan it calls for. The
\* retained calibration state is left out.
TakeEvent ==
    /\ Quiet
    /\ events # <<>>
    /\ events' = Tail(events)
    /\ LET event == Head(events) IN
       /\ inventory' = IF event.is = "added"
                       THEN [inventory EXCEPT ![event.id] = event.unit] ELSE inventory
       /\ count' = IF event.is = "awaiting" THEN event.count ELSE count
       /\ plan' = CASE event.is = "added" -> AnnounceOne(event.id)
                    [] event.is = "removed" -> Retire(event.id, "removed")
                    [] event.is = "awaiting" -> <<Report>>
                    [] event.is = "calibration" -> <<>>
    /\ UNCHANGED <<registry, seeds, announced, pending, group, flash, acks, missed, edits,
                   troubles>>
    /\ UNCHANGED <<up, orphans, space, stale, retained, shown, cutShort, unnamed>>

-----------------------------------------------------------------------------
(* Power                                                                   *)

\* What the next boot will clear or announce again.
Recorded(record, id) == id \in Orphans(Registered(record), record.announced)
                            \cup Confirmed(Registered(record))

\* A restart, into the same configuration or the next one.
Restart(s) ==
    /\ Trouble
    /\ Boot
    /\ up' = FALSE /\ plan' = <<>>
    /\ inventory' = Entities(registry')
    /\ orphans' = Orphans(registry', announced')
    /\ space' = s
    /\ stale' = 1..(s - 1)
    /\ count' = Awaiting(registry')
    /\ cutShort' = FALSE
    /\ unnamed' = unnamed \cup
          {entity \in (1..s) \X Ids :
              LET n == entity[1]
                  id == entity[2]
              IN /\ retained[n][id] # None
                 /\ IF n = s THEN ~Recorded(flash, id) ELSE inventory'[id] = None}
    /\ UNCHANGED <<retained, shown>>

BrokerInit ==
    /\ TableInit
    /\ up = FALSE /\ plan = <<>>
    /\ inventory = Entities(registry)
    /\ orphans = {}
    /\ space = 1 /\ stale = {}
    /\ count = Awaiting(registry)
    /\ retained = [s \in Spaces |-> [id \in Ids |-> IF s = 1 THEN inventory[id] ELSE None]]
    /\ shown = 0
    /\ cutShort = FALSE /\ unnamed = {}

SessionStep == \/ DoShow \/ DoHide \/ DoAckAnnounced \/ DoAckRetired
               \/ EndAnnouncement \/ DoReport

BrokerNext ==
    \/ TableTask /\ UNCHANGED sessionVars
    \/ Connect
    \/ Lose
    \/ SessionStep
    \/ TakeEvent
    \/ \E s \in {space, space + 1} \cap Spaces : Restart(s)

\* The executor runs both tasks; a broker that can be reached is reached.
BrokerFairness ==
    /\ WF_brokerVars(TakeAck /\ UNCHANGED sessionVars)
    /\ WF_brokerVars(Persist /\ UNCHANGED sessionVars)
    /\ WF_brokerVars(Age /\ UNCHANGED sessionVars)
    /\ WF_brokerVars(Connect)
    /\ WF_brokerVars(SessionStep)
    /\ WF_brokerVars(TakeEvent)

BrokerSpec == BrokerInit /\ [][BrokerNext]_brokerVars /\ BrokerFairness

-----------------------------------------------------------------------------
(* Properties                                                              *)

BrokerTypeOK ==
    /\ \A id \in Ids : registry[id] = None \/ registry[id].unit \in Units
    /\ announced \subseteq Ids /\ group \subseteq Live(registry)
    /\ Len(events) <= EVENTS /\ Len(acks) <= ACKS
    /\ pending # None => pending.last <= pending.first /\ pending.first <= MAX_DEFER
    /\ orphans \subseteq Ids /\ stale \subseteq 1..(space - 1)
    /\ ~up => plan = <<>>

Settled == Quiet /\ events = <<>>

\* Once a session has said everything, the broker holds the entities of the
\* confirmed shades under the configured namespace and nothing else, save what
\* no boot could name, an event the queue dropped, and a plan lost half way.
BrokerMatchesTable ==
    Settled /\ ~missed /\ ~cutShort =>
        /\ shown = Awaiting(registry)
        /\ \A s \in Spaces, id \in Ids :
              \/ retained[s][id] = IF s = space THEN Entities(registry)[id] ELSE None
              \/ <<s, id>> \in unnamed

\* Until the next restart, which goes back to the bits that are written, the bit
\* of a slot nothing confirmed is in goes only after its entities, or an
\* acknowledgement that sets it again is already on its way.
BitOutlivesEntity ==
    [][\/ \E s \in Spaces : Restart(s)
       \/ \A id \in announced \ Confirmed(registry) :
             id \notin announced' /\ ~cutShort =>
                 \/ retained'[space][id] = None
                 \/ \E i \in DOMAIN acks' : acks'[i] = Announced(id)
                 \/ \E i \in DOMAIN plan' : plan'[i] = AckAnnounced(id)]_brokerVars

\* Every row is written with the seed its shade was provisioned or created
\* with, through every renumbering.
SeedsFollowShades ==
    \A r \in DOMAIN flash.rows :
        flash.rows[r].seed = IF \E p \in DOMAIN Rows : Rows[p].unit = flash.rows[r].unit
                             THEN Rows[CHOOSE p \in DOMAIN Rows :
                                          Rows[p].unit = flash.rows[r].unit].seed
                             ELSE FirstSeed

\* The broker, the table and the flash agree on the shades there are.
BrokerSafe == BrokerTypeOK /\ BrokerMatchesTable /\ SeedsFollowShades

\* The entities boot found without a shade are cleared.
OrphansAreCleared == orphans # {} ~> orphans = {}

\* A handler finishes or loses its session: the acknowledgement queue never
\* holds it for good.
HandlersEnd == plan # <<>> ~> plan = <<>>

\* (Violated.)  edits.rs:66: a dropped event is recovered by the next full announcement.
AnnouncementRecovers ==
    [][plan # <<>> /\ plan' = Tail(plan) /\ Head(plan) = Announcement /\ events = <<>> =>
          retained[space] = Entities(registry) \/ cutShort]_brokerVars

\* (Violated.)  catalog.rs:31: once a removal is written, the record names the orphan, and
\* the next boot finds it.
OrphanIsFound ==
    \A id \in Ids : pending = None /\ id \notin Confirmed(registry) /\ retained[space][id] # None
                        => Recorded(flash, id)

\* (Violated.)  estate.rs:37: what a group commands is what it was given.
GroupKeepsItsShades ==
    \A id \in group : \E m \in Members : registry[id].unit = Rows[m + 1].unit
=============================================================================
