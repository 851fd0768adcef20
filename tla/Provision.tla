------------------------------ MODULE Provision ------------------------------
(***************************************************************************)
(* A controller's table through everything that may change it: the edits   *)
(* of the interface (firmware/src/tasks.rs, apply_edit), a calibration,    *)
(* the debounced write, a restart that reads both regions back             *)
(* (firmware/src/main.rs, provision_shades and provision_estate) and the   *)
(* import of another controller's backup (firmware/src/restore.rs).        *)
(*                                                                         *)
(* One entry the next boot cannot read costs the whole table, so the       *)
(* module asks whether any sequence of accepted edits writes one.          *)
(* ShadeTable models the same task's events, acknowledgements and          *)
(* debounce; Backup the staging of a file and the codes it carries. Here   *)
(* the two regions of an import are written in one step.                   *)
(***************************************************************************)
EXTENDS Import

CONSTANTS MAX_SHADES,  \* slots of the registry
          BASE,        \* the device's own first address
          MAX_TRAVEL,  \* the longest travel a calibration accepts
          Times,       \* travel times an operator supplies
          Bands,       \* lags and bands an operator supplies
          Elapsed,     \* lengths of a calibration run
          Remotes,     \* wall remotes heard
          Tables,      \* shade records a device may wake up with
          Estates,     \* estate records beside them
          Backups,     \* files there are to import
          MaxChanges   \* bound: edits, calibrations, writes and imports

Slots == 0..MAX_SHADES - 1

\* What a record of any layout may hold: kinds and protocols that this build
\* has no meaning for among them, and numbers of any size.
Entries(record) ==
    [config : [address : Nat, kind : {row.config.kind : row \in ToSet(record.rows)},
               protocol : {row.config.protocol : row \in ToSet(record.rows)},
               up : Nat, down : Nat, upFrom : Sources, downFrom : Sources,
               lag : Nat, vent : Nat, close : Nat, confirmed : BOOLEAN],
     seed : Nat]
TableRecords(record) ==
    [version : Nat, rows : Seq(Entries(record)), links : Seq([row : Nat, address : Nat]),
     announced : SUBSET Slots]
EstateRecords ==
    [rooms : Nat, roomOf : [0..CAPACITY - 1 -> Nat \cup {None}],
     groups : Seq([address : Nat, members : SUBSET Nat, recovered : BOOLEAN])]

\* What the text of a backup may say.
Files(file) ==
    [version : Nat, rooms : Seq(Nat),
     shades : Seq([id : Nat, address : Nat, kind : {shade.kind : shade \in ToSet(file.shades)},
                   protocol : {shade.protocol : shade \in ToSet(file.shades)},
                   up : Nat, down : Nat, links : Seq(Nat), room : Nat, last : Nat]),
     groups : Seq([id : Nat, address : Nat, members : Seq(Nat)])]

\* The addresses a controller may give, its base with an offset for the slot and
\* one for a probe, stop short of what no remote can have.
ASSUME ProvisionAssumption ==
    /\ MAX_SHADES = CAPACITY
    /\ BASE \in Nat \ {0} /\ BASE + 2 * MAX_SHADES <= SENTINEL
    /\ MAX_TRAVEL \in Nat /\ MaxChanges \in Nat
    /\ Times \subseteq Nat /\ Bands \subseteq Nat /\ Elapsed \subseteq Nat /\ Remotes \subseteq Nat
    /\ \A table \in Tables \ {None} : table \in TableRecords(table)
    /\ Estates \subseteq EstateRecords
    /\ \A backup \in Backups : backup \in Files(backup)
    /\ None \notin Backups \cup [config : Configs, seed : Nat]
                 \cup [version : Nat, rows : Seq([config : Configs, seed : Nat]),
                       links : Seq([row : Nat, address : Nat]), announced : SUBSET Slots]

VARIABLES registry, \* the row in each slot, or None
          linked,   \* the remotes each slot follows
          groupsOf, \* the slots each group commands
          roomOf,   \* the room of each slot
          announced, \* slots whose entities the broker holds
          flash,    \* the newest shade record, or None
          estate,   \* the newest estate record
          on,       \* whether the controller has booted
          dirty,    \* whether the table differs from its record
          imported, \* the backup the table came from, or None
          changes   \* changes so far

provisionVars == <<registry, linked, groupsOf, roomOf, announced, flash, estate,
                   on, dirty, imported, changes>>

Live == {id \in Slots : registry[id] # None}
ConfigOf(id) == registry[id].config
Holds(id, address) == ConfigOf(id).address = address \/ address \in ToSet(linked[id])

-----------------------------------------------------------------------------
(* Edits                                                                   *)

Change == /\ on
          /\ changes < MaxChanges
          /\ changes' = changes + 1

\* What every accepted edit leaves behind.
Edited == /\ Change
          /\ dirty' = TRUE
          /\ imported' = None
          /\ UNCHANGED <<flash, estate, on>>

SetConfig(id, config) == registry' = [registry EXCEPT ![id].config = config]

FreeSlot == CHOOSE id \in Slots \ Live : \A other \in Slots \ Live : id <= other

\* The slot's own address, or the next that no shade answers to.
FreeAddresses(id) == {address \in BASE + id..BASE + id + MAX_SHADES :
                         \A live \in Live : ~Holds(live, address)}
FreeAddress(id) == CHOOSE address \in FreeAddresses(id) :
                      \A other \in FreeAddresses(id) : address <= other

Add(up, down) ==
    LET id == FreeSlot
        config == [NewConfig(FreeAddress(id)) EXCEPT
                      !.up = up, !.down = down,
                      !.upFrom = SourceOf(up), !.downFrom = SourceOf(down)]
    IN /\ Live # Slots
       /\ FreeAddresses(id) # {}
       /\ LiftTimes(config)
       /\ registry' = [registry EXCEPT ![id] = Row(config, 1)]
       /\ Edited
       /\ UNCHANGED <<linked, groupsOf, roomOf, announced>>

\* Mutant: a lag is stored in a unit the record has not.
PatchedUnrounded(config, patch) ==
    [config EXCEPT
        !.up = IF patch.up = None THEN @ ELSE patch.up,
        !.upFrom = IF patch.up = None THEN @ ELSE SourceOf(patch.up),
        !.lag = IF patch.lag = None THEN @ ELSE patch.lag,
        !.vent = IF patch.vent = None THEN @ ELSE Round(patch.vent)]

\* A patch names the fields it changes; every field is checked before any
\* is stored.
Patched(config, patch) ==
    [config EXCEPT
        !.up = IF patch.up = None THEN @ ELSE patch.up,
        !.upFrom = IF patch.up = None THEN @ ELSE SourceOf(patch.up),
        !.lag = IF patch.lag = None THEN @ ELSE Round(patch.lag),
        !.vent = IF patch.vent = None THEN @ ELSE Round(patch.vent)]

\* (checked against what the shade would become, not the patch alone)
Accepted(config, patch) ==
    /\ patch.lag # None => Rounds(patch.lag)
    /\ patch.vent # None => Rounds(patch.vent)
    /\ LiftTimes(Patched(config, patch))
    /\ CheckedBands(Patched(config, patch))

Reconfigure(id, patch) ==
    /\ id \in Live
    /\ Accepted(ConfigOf(id), patch)
    /\ SetConfig(id, Patched(ConfigOf(id), patch))
    /\ Edited
    /\ UNCHANGED <<linked, groupsOf, roomOf, announced>>

\* A run the device timed itself; a travel its bands would eat is refused.
Measured(config, leg, elapsed) ==
    IF leg = "up" THEN [config EXCEPT !.up = elapsed, !.upFrom = "measured"]
                  ELSE [config EXCEPT !.down = elapsed, !.downFrom = "measured"]

Plausible(config) == CheckedBands(config)

FinishCalibration(id, leg, elapsed) ==
    /\ id \in Live
    /\ elapsed \in 1..MAX_TRAVEL
    /\ Plausible(Measured(ConfigOf(id), leg, elapsed))
    /\ SetConfig(id, Measured(ConfigOf(id), leg, elapsed))
    /\ Edited
    /\ UNCHANGED <<linked, groupsOf, roomOf, announced>>

ConfirmPairing(id) ==
    /\ id \in Live
    /\ ~ConfigOf(id).confirmed
    /\ SetConfig(id, [ConfigOf(id) EXCEPT !.confirmed = TRUE])
    /\ Edited
    /\ UNCHANGED <<linked, groupsOf, roomOf, announced>>

\* The record has one pool of links for every shade.
Pool == {link \in Slots \X (1..MAX_LINKED_REMOTES) :
            link[1] \in Live /\ link[2] \in DOMAIN linked[link[1]]}
PoolHasRoom == Cardinality(Pool) < MAX_LINKS

CanLink(id, address) ==
    /\ Usable(address)
    /\ ~Holds(id, address)
    /\ Len(linked[id]) < MAX_LINKED_REMOTES

Link(id, address) ==
    /\ id \in Live
    /\ PoolHasRoom
    /\ CanLink(id, address)
    /\ linked' = [linked EXCEPT ![id] = Append(@, address)]
    /\ Edited
    /\ UNCHANGED <<registry, groupsOf, roomOf, announced>>

\* The last remote takes the place of the one that leaves.
Unlink(id, address) ==
    /\ id \in Live
    /\ address \in ToSet(linked[id])
    /\ linked' = [linked EXCEPT
                     ![id] = Front([n \in DOMAIN @ |-> IF @[n] = address THEN Last(@)
                                                                            ELSE @[n]])]
    /\ Edited
    /\ UNCHANGED <<registry, groupsOf, roomOf, announced>>

RemoveShade(id) ==
    /\ id \in Live
    /\ registry' = [registry EXCEPT ![id] = None]
    /\ linked' = [linked EXCEPT ![id] = <<>>]
    /\ groupsOf' = [g \in DOMAIN groupsOf |-> groupsOf[g] \ {id}]
    /\ roomOf' = [roomOf EXCEPT ![id] = None]
    /\ Edited
    /\ UNCHANGED announced

\* An acknowledgement of the broker session.
Acked(id) ==
    /\ announced' = IF id \in Live THEN announced \cup {id} ELSE announced \ {id}
    /\ announced' # announced
    /\ Edited
    /\ UNCHANGED <<registry, linked, groupsOf, roomOf>>

-----------------------------------------------------------------------------
(* Writing, booting, importing                                             *)

\* Rows are packed in the order of their slots, links name rows, and a link
\* past the pool is dropped.
Order == Ascending(Live)
PackedLinks(order) == Packed([r \in DOMAIN order |-> linked[order[r]]])
Record ==
    LET order == Order
        links == PackedLinks(order)
    IN Encode([r \in DOMAIN order |-> registry[order[r]]],
              IF Len(links) > MAX_LINKS THEN SubSeq(links, 1, MAX_LINKS) ELSE links,
              announced)

Persist ==
    /\ dirty
    /\ Change
    /\ flash' = Record
    /\ dirty' = FALSE
    /\ UNCHANGED <<registry, linked, groupsOf, roomOf, announced, estate, on, imported>>

LinksOfRow(table, row) ==
    LET own == Kept(table.links, {n \in DOMAIN table.links : table.links[n].row = row})
    IN [n \in DOMAIN own |-> own[n].address]

\* The registry numbers the shades it is given from zero; members and
\* assignments that name a row it has not are passed over.
Commanded(members, held) == members \cap held
Boot ==
    LET table == LoadTable(flash)
        rows == [id \in Slots |-> IF id + 1 \in DOMAIN table.rows THEN table.rows[id + 1]
                                                                 ELSE None]
        held == {id \in Slots : rows[id] # None}
        placed == LoadEstate(estate)
    IN /\ ~on
       /\ registry' = rows
       /\ linked' = [id \in Slots |-> LinksOfRow(table, id)]
       /\ groupsOf' = [g \in DOMAIN placed.groups |-> Commanded(placed.groups[g].members, held)]
       /\ roomOf' = [id \in Slots |-> IF id \in held THEN placed.roomOf[id] ELSE None]
       /\ announced' = table.announced
       /\ on' = TRUE
       /\ dirty' = FALSE
       /\ UNCHANGED <<flash, estate, imported, changes>>

Cleared == /\ registry' = [id \in Slots |-> None]
           /\ linked' = [id \in Slots |-> <<>>]
           /\ groupsOf' = <<>>
           /\ roomOf' = [id \in Slots |-> None]
           /\ announced' = {}
           /\ on' = FALSE
           /\ dirty' = FALSE

Restart == /\ on
           /\ Cleared
           /\ UNCHANGED <<flash, estate, imported, changes>>

\* Mutant: the bits of the table being replaced are left behind.
StampedForgotten == {}

\* The bits of the table being replaced are stamped onto the new record.
Stamped == LoadTable(flash).announced

ImportBackup(backup) ==
    /\ Change
    /\ ~Refused(backup)
    /\ flash' = Encode(ImportedTable(backup).rows, ImportedTable(backup).links, Stamped)
    /\ estate' = ImportedEstate(backup)
    /\ imported' = backup
    /\ Cleared

-----------------------------------------------------------------------------

Patches == [up : Times \cup {None}, lag : Bands \cup {None}, vent : Bands \cup {None}]

ProvisionInit ==
    /\ registry = [id \in Slots |-> None]
    /\ linked = [id \in Slots |-> <<>>]
    /\ groupsOf = <<>>
    /\ roomOf = [id \in Slots |-> None]
    /\ announced = {}
    /\ flash \in Tables
    /\ estate \in Estates
    /\ on = FALSE
    /\ dirty = FALSE
    /\ imported = None
    /\ changes = 0

ProvisionNext ==
    \/ \E up, down \in Times : Add(up, down)
    \/ \E id \in Slots, patch \in Patches : Reconfigure(id, patch)
    \/ \E id \in Slots, leg \in {"up", "down"}, elapsed \in Elapsed :
          FinishCalibration(id, leg, elapsed)
    \/ \E id \in Slots : ConfirmPairing(id) \/ RemoveShade(id) \/ Acked(id)
    \/ \E id \in Slots, address \in Remotes : Link(id, address) \/ Unlink(id, address)
    \/ Persist
    \/ Boot
    \/ Restart
    \/ \E backup \in Backups : ImportBackup(backup)

ProvisionSpec == ProvisionInit /\ [][ProvisionNext]_provisionVars

-----------------------------------------------------------------------------
(* Properties                                                              *)

\* The values each variable takes, and that every shade in the registry obeys
\* the rules its record will be read by.
ProvisionTypeOK ==
    /\ \A id \in Live : ConfigOf(id) \in Configs /\ registry[id].seed \in Nat
    /\ \A id \in Slots : Len(linked[id]) <= MAX_LINKED_REMOTES
    /\ \A g \in DOMAIN groupsOf : groupsOf[g] \subseteq Live
    /\ \A id \in Slots : roomOf[id] # None => id \in Live /\ roomOf[id] \in Nat
    /\ announced \subseteq Slots
    /\ on \in BOOLEAN /\ dirty \in BOOLEAN
    /\ changes \in 0..MaxChanges

\* Every record this build has written is one this build reads: no sequence
\* of accepted edits, calibrations, links and imports leaves an entry or a
\* link that would cost the next boot the whole table (ShadeRecord::for_each
\* visits nothing once one of them is refused).
WrittenIsRead ==
    /\ flash # None /\ flash \notin Tables => TableReads(flash)
    /\ estate \notin Estates => EstateReads(estate)

\* A restart after a write changes nothing an operator set: the table read
\* back is the registry packed, description by description, code by code and
\* remote by remote, and the announced slots are the same
\* (Catalog::record, ShadeRecord::encode and decode, provision_shades).
BootRestores ==
    on => LET table == LoadTable(Record)
          IN /\ table.rows = [r \in DOMAIN Order |-> registry[Order[r]]]
             /\ \A r \in DOMAIN Order : LinksOfRow(table, r - 1) = linked[Order[r]]
             /\ table.announced = announced

\* After an import and before anything else has changed, each group commands
\* the shades the backup lists for it, each shade is in its room, starts one
\* past the last code the old controller sent and follows the same remotes,
\* and whatever the import took differently it has said in a caveat
\* (import_with).
ImportMeansTheBackup ==
    on /\ imported # None =>
        LET shades == ParsedShades(imported)
            groups == ParsedGroups(imported)
            slot(address) == CHOOSE id \in Live : ConfigOf(id).address = address
        IN /\ \A r \in DOMAIN shades :
                 LET shade == shades[r]
                     id == slot(shade.address)
                     caveats == ShadeCaveats(imported, shade)
                 IN /\ registry[id].seed = shade.next
                    /\ linked[id] = shade.links
                    /\ ConfigOf(id).kind # shade.kind => "kind" \in caveats
                    /\ ConfigOf(id).protocol # shade.protocol => "protocol" \in caveats
                    /\ IF roomOf[id] = None
                       THEN shade.room \in RoomUnassigned \/ "room" \in caveats
                       ELSE ParsedRooms(imported)[roomOf[id] + 1] = shade.room
           /\ \A g \in DOMAIN groups, s \in DOMAIN shades :
                 LET id == slot(shades[s].address)
                     first == \A r \in 1..s - 1 : shades[r].id # shades[s].id
                 IN id \in groupsOf[g] <=> first /\ shades[s].id \in groups[g].members
           /\ \A g \in DOMAIN groups :
                 \A id \in groups[g].members :
                    \/ \E s \in DOMAIN shades : shades[s].id = id
                    \/ "member" \in GroupCaveats(imported, groups[g])

\* The table means to a later boot what it means to this one.
TableSafe == ProvisionTypeOK /\ WrittenIsRead /\ BootRestores /\ ImportMeansTheBackup

\* A slot the broker holds entities for stops being named in flash only when
\* the session has answered that it cleared them: no edit, restart or import
\* of a whole other table forgets one (write_regions, Catalog::mark_retired).
BitsLeaveByAnswer ==
    [][\A id \in LoadTable(flash).announced \ LoadTable(flash').announced :
          on /\ id \notin announced]_provisionVars

\* (Violated.)  What the documentation of CalibrationSource says of a travel time a person
\* typed on the device a setup was migrated from: its source is the operator.
\* The import leaves every source at the factory default.
MigratedTimesAreSupplied ==
    on /\ imported # None =>
        \A id \in Live : ConfigOf(id).upFrom = SourceOf(ConfigOf(id).up)
=============================================================================
