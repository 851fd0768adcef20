----------------------------- MODULE ShadeTable -----------------------------
(***************************************************************************)
(* The shade table: the registry the state task owns, the catalog beside   *)
(* it (somfy-config/src/catalog.rs), the edits that change both            *)
(* (firmware/src/tasks.rs, apply_edit), the debounced write to the shade   *)
(* ring (firmware/src/shades.rs) and the boot that reads it back           *)
(* (firmware/src/main.rs).                                                 *)
(*                                                                         *)
(* The ring is the one FlashStore models, so here a write either stores    *)
(* its record or leaves the one before it. A shade is known by the unit it *)
(* was created as, which stands for its name, its address and its motor.   *)
(* The registry numbers shades from the lowest free slot; the record packs *)
(* them, so its rows are numbered from zero with no holes.                 *)
(***************************************************************************)
EXTENDS Naturals, FiniteSets, FiniteSetsExt, SequencesExt

CONSTANTS Units,      \* what a shade can be: a name, an address and a motor
          None,       \* no shade, no pending write
          MAX_SHADES, \* slots of the registry
          DEBOUNCE,   \* ticks of quiet before the table is written
          MAX_DEFER,  \* ticks after which it is written whatever happens
          EVENTS,     \* places for events the broker session has not taken
          Rows,       \* the rows the device was provisioned with
          Members,    \* the rows of the one group the estate region holds
          MaxEdits,   \* bound: edits of the table
          MaxTroubles \* bound: failed writes, lost connections and restarts

Ids == 0..MAX_SHADES - 1

\* What a shade is to this module, and the seed an added one starts from.
Shade(unit, confirmed, seed) == [unit |-> unit, confirmed |-> confirmed, seed |-> seed]
Shades == [unit : Units, confirmed : BOOLEAN, seed : Nat]
FirstSeed == 1

\* The device is provisioned with no two shades of one address.
ASSUME TableAssumption ==
    /\ MAX_SHADES \in Nat /\ EVENTS \in Nat /\ DEBOUNCE \in Nat /\ MAX_DEFER \in Nat
    /\ MaxEdits \in Nat /\ MaxTroubles \in Nat
    /\ Rows \in Seq(Shades) /\ Len(Rows) <= MAX_SHADES
    /\ \A r, q \in DOMAIN Rows : Rows[r].unit = Rows[q].unit => r = q
    /\ Members \subseteq Nat
    /\ None \notin Units \cup Shades \cup Nat \cup [first : Nat, last : Nat]

Provisioned == {Rows[r].unit : r \in DOMAIN Rows}

\* What the state task tells the broker session (edits.rs, ShadeEvent).
Added(id, unit) == [is |-> "added", id |-> id, unit |-> unit]
Removed(id) == [is |-> "removed", id |-> id]
Calibration(id) == [is |-> "calibration", id |-> id]
AwaitingSetup(n) == [is |-> "awaiting", count |-> n]
\* And what the session answers (ShadeAck).
Announced(id) == [is |-> "announced", id |-> id]
Retired(id) == [is |-> "retired", id |-> id]

VARIABLES registry,  \* the shade in each slot, or None
          seeds,     \* the catalog's seed for each slot, or None
          announced, \* slots whose entities the broker is known to hold
          pending,   \* ages of the first and the last unwritten change, or None
          group,     \* slots the group commands
          flash,     \* the newest record of the ring
          events,    \* events waiting for the session
          acks,      \* acknowledgements waiting for the state task
          missed,    \* whether an entity event was dropped since the boot
          edits,     \* edits so far
          troubles     \* failed writes so far

tableVars == <<registry, seeds, announced, pending, group, flash, events, acks,
               missed, edits, troubles>>

-----------------------------------------------------------------------------
(* The registry and the catalog                                            *)

Live(reg) == {id \in Ids : reg[id] # None}
Confirmed(reg) == {id \in Live(reg) : reg[id].confirmed}
Awaiting(reg) == Cardinality(Live(reg) \ Confirmed(reg))

FreeShadeId == CHOOSE id \in Ids \ Live(registry) :
                  \A other \in Ids \ Live(registry) : id <= other

Place(held, id, seed) == [held EXCEPT ![id] = seed]

Touch == IF pending = None THEN [first |-> 0, last |-> 0]
                           ELSE [pending EXCEPT !.last = 0]

Due == /\ pending # None
       /\ pending.last >= DEBOUNCE \/ pending.first >= MAX_DEFER

\* Ids in order: the n-th is the one with n of them up to it.
Ascending(ids) ==
    [n \in 1..Cardinality(ids) |-> CHOOSE id \in ids : Cardinality({other \in ids : other <= id}) = n]

\* The rows are the live shades in slot order; a shade the catalog holds no
\* seed for is written with a seed of zero.
RecordOf(reg, held, bits) ==
    LET order == Ascending(Live(reg))
        Seed(id) == IF held[id] = None THEN 0 ELSE held[id]
    IN [rows |-> [r \in 1..Len(order) |->
                     Shade(reg[order[r]].unit, reg[order[r]].confirmed, Seed(order[r]))],
        announced |-> bits]

Orphans(reg, bits) == bits \ Live(reg)

-----------------------------------------------------------------------------
(* Announcing                                                              *)

\* try_send for each event in turn: what finds the queue full is dropped.
Send(queue, new) == SubSeq(queue \o new, 1, Min({EVENTS, Len(queue) + Len(new)}))
Announce(new) ==
    /\ events' = Send(events, new)
    /\ missed' = (missed \/ Len(events) + Len(new) > EVENTS)

ShadeEvents(reg, id) ==
    (IF reg[id].confirmed THEN <<Added(id, reg[id].unit), Calibration(id)>> ELSE <<>>)
       \o <<AwaitingSetup(Awaiting(reg))>>

-----------------------------------------------------------------------------
(* The edits                                                               *)

Edit == edits < MaxEdits /\ edits' = edits + 1
Trouble == troubles < MaxTroubles /\ troubles' = troubles + 1

Add(unit) ==
    /\ Edit
    /\ Live(registry) # Ids
    /\ unit \notin Provisioned \cup {registry[id].unit : id \in Live(registry)}
    /\ registry' = [registry EXCEPT ![FreeShadeId] = Shade(unit, FALSE, FirstSeed)]
    /\ seeds' = Place(seeds, FreeShadeId, FirstSeed)
    /\ pending' = Touch
    /\ Announce(ShadeEvents(registry', FreeShadeId))
    /\ UNCHANGED <<announced, group, flash, acks, troubles>>

\* Announced whether or not anything changed; the table is only written when
\* it did.
ConfirmPairing(id) ==
    /\ Edit
    /\ id \in Live(registry)
    /\ registry' = [registry EXCEPT ![id].confirmed = TRUE]
    /\ pending' = IF registry[id].confirmed THEN pending ELSE Touch
    /\ Announce(ShadeEvents(registry', id))
    /\ UNCHANGED <<seeds, announced, group, flash, acks, troubles>>

\* The new configuration keeps the address and the pairing state.
Reconfigure(id) ==
    /\ Edit
    /\ id \in Live(registry)
    /\ pending' = Touch
    /\ Announce(ShadeEvents(registry, id))
    /\ UNCHANGED <<registry, seeds, announced, group, flash, acks, troubles>>

\* Catalog::remove and Registry::remove_shade: the slot, its seed and every
\* membership go, the announced bit stays.
RemoveShade(id) ==
    /\ Edit
    /\ id \in Live(registry)
    /\ registry' = [registry EXCEPT ![id] = None]
    /\ seeds' = [seeds EXCEPT ![id] = None]
    /\ group' = group \ {id}
    /\ pending' = Touch
    /\ Announce((IF registry[id].confirmed THEN <<Removed(id)>> ELSE <<>>)
                   \o <<AwaitingSetup(Awaiting(registry'))>>)
    /\ UNCHANGED <<announced, flash, acks, troubles>>

\* Catalog::mark_announced and mark_retired: no write for what is so already.
TakeAck ==
    /\ acks # <<>>
    /\ acks' = Tail(acks)
    /\ announced' = IF Head(acks).is = "announced" THEN announced \cup {Head(acks).id}
                                                   ELSE announced \ {Head(acks).id}
    /\ pending' = IF announced' = announced THEN pending ELSE Touch
    /\ UNCHANGED <<registry, seeds, group, flash, events, missed, edits, troubles>>

-----------------------------------------------------------------------------
(* The write                                                               *)

Persist ==
    /\ Due
    /\ flash' = RecordOf(registry, seeds, announced)
    /\ pending' = None
    /\ UNCHANGED <<registry, seeds, announced, group, events, acks, missed, edits, troubles>>

\* An error leaves the change pending, whether or not the record was stored.
PersistFails ==
    /\ Due
    /\ Trouble
    /\ flash' \in {flash, RecordOf(registry, seeds, announced)}
    /\ UNCHANGED <<registry, seeds, announced, pending, group, events, acks, missed, edits>>

\* Time passes only while nothing is due.
Age ==
    /\ pending # None /\ ~Due
    /\ pending' = [first |-> pending.first + 1, last |-> pending.last + 1]
    /\ UNCHANGED <<registry, seeds, announced, group, flash, events, acks, missed, edits,
                   troubles>>

-----------------------------------------------------------------------------
(* The boot                                                                *)

\* An empty registry is filled in record order.
Registered(record) ==
    [id \in Ids |-> IF id < Len(record.rows) THEN record.rows[id + 1] ELSE None]

Catalogued(record) ==
    [id \in Ids |-> IF id < Len(record.rows) THEN record.rows[id + 1].seed ELSE None]

\* A member the table has no row for is left out.
Grouped(record) == {row \in Members : row < Len(record.rows)}

Boot ==
    /\ registry' = Registered(flash)
    /\ seeds' = Catalogued(flash)
    /\ announced' = flash.announced
    /\ group' = Grouped(flash)
    /\ pending' = None
    /\ events' = <<>> /\ acks' = <<>> /\ missed' = FALSE
    /\ UNCHANGED <<flash, edits>>

TableInit ==
    /\ flash = [rows |-> Rows, announced |-> 0..Len(Rows) - 1]
    /\ registry = Registered(flash)
    /\ seeds = Catalogued(flash)
    /\ announced = flash.announced
    /\ group = Grouped(flash)
    /\ pending = None
    /\ events = <<>> /\ acks = <<>> /\ missed = FALSE
    /\ edits = 0 /\ troubles = 0

\* What the state task does; a boot comes from outside.
TableTask ==
    \/ \E unit \in Units : Add(unit)
    \/ \E id \in Ids : ConfirmPairing(id)
    \/ \E id \in Ids : Reconfigure(id)
    \/ \E id \in Ids : RemoveShade(id)
    \/ TakeAck
    \/ Persist
    \/ PersistFails
    \/ Age
=============================================================================
