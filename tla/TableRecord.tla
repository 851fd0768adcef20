----------------------------- MODULE TableRecord -----------------------------
(***************************************************************************)
(* What the shades region and the estate region hold, and what a boot      *)
(* makes of them: the shade record in its four layouts                     *)
(* (somfy-config/src/shade.rs), the estate record beside it                *)
(* (somfy-config/src/estate.rs) and the rules a shade's description obeys  *)
(* wherever it comes from (somfy-domain/src/types.rs).                     *)
(*                                                                         *)
(* A record here is what its bytes say once the checksum has passed. One   *)
(* "kind" stands for the kind and the tilt mode, one "protocol" for the     *)
(* protocol and the frame width; names are left out, and so is the tilt    *)
(* time. The start lag and the dead bands have one resolution here, STEP,  *)
(* where the code has two.                                                 *)
(***************************************************************************)
EXTENDS Naturals, FiniteSets, SequencesExt

CONSTANTS None,
          CAPACITY,           \* shades in a table (SHADE_TABLE_CAPACITY)
          ROOMS,              \* rooms in an estate (ESTATE_ROOM_CAPACITY)
          GROUPS,             \* groups in an estate (ESTATE_GROUP_CAPACITY)
          MAX_LINKS,          \* linked remotes in a table, all shades together
          MAX_LINKS_V3,       \* the same in the layouts before version 4
          MAX_LINKED_REMOTES, \* linked remotes of one shade
          OWN_SPACE,          \* addresses from here up are this device's own
          SENTINEL,           \* the first address no remote can have
          STEP,               \* resolution of a stored lag or band
          MAX_STEPS,          \* the largest multiple its byte holds
          FACTORY             \* the travel time a shade is created with

ASSUME RecordAssumption ==
    /\ CAPACITY \in Nat /\ ROOMS \in Nat /\ GROUPS \in Nat /\ MAX_LINKS \in Nat
    /\ MAX_LINKS_V3 \in Nat /\ MAX_LINKED_REMOTES \in Nat /\ OWN_SPACE \in Nat
    /\ SENTINEL \in Nat /\ STEP \in Nat \ {0} /\ MAX_STEPS \in Nat /\ FACTORY \in Nat \ {0}
    /\ None \notin Nat

VERSION == 4 \* the layout this build writes

Kinds == {"roller", "awning"} \* what this build has a meaning for
Protocols == {"rts", "rtw"}

Usable(address) == address # 0 /\ address < SENTINEL

-----------------------------------------------------------------------------
(* What a shade is told about itself                                       *)

Sources == {"factory", "operator", "measured"} \* where a travel time came from

Configs == [address : Nat, kind : Kinds, protocol : Protocols, up : Nat, down : Nat,
            upFrom : Sources, downFrom : Sources, lag : Nat, vent : Nat, close : Nat,
            confirmed : BOOLEAN]

\* A new description has the factory times, no lag, no bands, and waits for
\* its operator to report it working.
NewConfig(address) ==
    [address |-> address, kind |-> "roller", protocol |-> "rts", 
     up |-> FACTORY, down |-> FACTORY, upFrom |-> "factory", downFrom |-> "factory",
     lag |-> 0, vent |-> 0, close |-> 0, confirmed |-> FALSE]

\* A dead band may not eat the whole travel it is part of.
CheckedBands(config) ==
    /\ config.up > 0 => config.lag + config.vent < config.up
    /\ config.down > 0 => config.lag + config.close < config.down

LiftTimes(config) == config.up # 0 /\ config.down # 0

Rounds(ms) == ms <= MAX_STEPS * STEP
Round(ms) == ((ms + STEP \div 2) \div STEP) * STEP

\* The provenance of a value that came without one.
SourceOf(ms) == IF ms = FACTORY THEN "factory" ELSE "operator"

\* The address alone says whether a motor already obeys it: this device's own
\* addresses are new to every motor, any other was in use before.
Provisioned(address) == address < OWN_SPACE

-----------------------------------------------------------------------------
(* The shade record                                                        *)

\* Numbers in order: the n-th is the one with n of them up to it.
Ascending(numbers) ==
    [n \in 1..Cardinality(numbers) |->
        CHOOSE x \in numbers : Cardinality({y \in numbers : y <= x}) = n]

\* The elements at some places of a sequence, in order.
Kept(s, places) == LET order == Ascending(places) IN [n \in DOMAIN order |-> s[order[n]]]

\* The remotes of every row, one row after another.
Packed(lists) ==
    FlattenSeq([r \in DOMAIN lists |->
                   [n \in DOMAIN lists[r] |-> [row |-> r - 1, address |-> lists[r][n]]]])

\* A row is a description and the code its address starts from.
Row(config, seed) == [config |-> config, seed |-> seed]

\* The lag and the bands are stored in steps; the remainder is not stored.
Entry(config) == [config EXCEPT !.lag = @ \div STEP, !.vent = @ \div STEP,
                                !.close = @ \div STEP]

Encode(rows, links, announced) ==
    [version |-> VERSION,
     rows |-> [r \in DOMAIN rows |-> Row(Entry(rows[r].config), rows[r].seed)],
     links |-> links, announced |-> announced]

MaxLinks(version) == CASE version = 1 -> 0
                       [] version \in {2, 3} -> MAX_LINKS_V3
                       [] OTHER -> MAX_LINKS

HeaderReads(record) ==
    /\ record.version \in 1..VERSION
    /\ Len(record.rows) <= CAPACITY
    /\ record.version > 1 => /\ Len(record.links) <= MaxLinks(record.version)
                             /\ Len(record.links) <= MAX_LINKS

\* Before there was an announced word every row had been announced.
AnnouncedIn(record) == IF record.version = 1 THEN 0..Len(record.rows) - 1
                                             ELSE record.announced
LinksIn(record) == IF record.version = 1 THEN <<>> ELSE record.links

\* What an older layout has no room for is what those boards were doing.
Calibration(version, entry) ==
    IF version < 4
    THEN [entry EXCEPT !.upFrom = SourceOf(entry.up), !.downFrom = SourceOf(entry.down),
                       !.lag = 0, !.vent = 0, !.close = 0]
    ELSE [entry EXCEPT !.lag = @ * STEP, !.vent = @ * STEP, !.close = @ * STEP]

DecodeEntry(version, entry) ==
    LET radio == IF version < 2 THEN [entry EXCEPT !.protocol = "rts"] ELSE entry
        paired == IF version < 3 THEN [radio EXCEPT !.confirmed = TRUE] ELSE radio
    IN Calibration(version, paired)

EntryReads(version, entry) ==
    /\ Usable(entry.address)
    /\ entry.kind \in Kinds
    /\ DecodeEntry(version, entry).protocol \in Protocols
    /\ LiftTimes(entry)
    /\ CheckedBands(DecodeEntry(version, entry))

\* A link names a row of this table and an address other than that row's own,
\* once, and no row has more than the domain lets a shade hold.
LinkReads(record, n) ==
    LET link == LinksIn(record)[n]
        before == {m \in 1..n - 1 : LinksIn(record)[m].row = link.row}
    IN /\ link.row < Len(record.rows)
       /\ Usable(link.address)
       /\ link.address # record.rows[link.row + 1].config.address
       /\ \A m \in before : LinksIn(record)[m].address # link.address
       /\ Cardinality(before) < MAX_LINKED_REMOTES

\* One unreadable entry or link and nothing of the record is taken.
TableReads(record) ==
    /\ HeaderReads(record)
    /\ \A r \in DOMAIN record.rows : EntryReads(record.version, record.rows[r].config)
    /\ \A r, s \in DOMAIN record.rows :
          r # s => record.rows[r].config.address # record.rows[s].config.address
    /\ \A n \in DOMAIN LinksIn(record) : LinkReads(record, n)

NoTable == [rows |-> <<>>, links |-> <<>>, announced |-> {}]

Decode(record) ==
    [rows |-> [r \in DOMAIN record.rows |->
                  Row(DecodeEntry(record.version, record.rows[r].config),
                      record.rows[r].seed)],
     links |-> LinksIn(record), announced |-> AnnouncedIn(record)]

\* What load_with visits: the whole record or none of it.
LoadTable(record) == IF record # None /\ TableReads(record) THEN Decode(record) ELSE NoTable

-----------------------------------------------------------------------------
(* The estate record: rooms, the room of each row, and groups of rows      *)

NoEstate == [rooms |-> 0, roomOf |-> [r \in 0..CAPACITY - 1 |-> None], groups |-> <<>>]

Group(address, members, recovered) ==
    [address |-> address, members |-> members, recovered |-> recovered]

EstateHeaderReads(estate) == estate.rooms <= ROOMS /\ Len(estate.groups) <= GROUPS

AssignmentsRead(estate) ==
    \A row \in DOMAIN estate.roomOf :
        estate.roomOf[row] # None => estate.roomOf[row] < estate.rooms

GroupReads(group) == Usable(group.address)

EstateReads(estate) ==
    /\ EstateHeaderReads(estate)
    /\ AssignmentsRead(estate)
    /\ \A g \in DOMAIN estate.groups : GroupReads(estate.groups[g])
    /\ \A g, h \in DOMAIN estate.groups :
          g # h => estate.groups[g].address # estate.groups[h].address

LoadEstate(estate) == IF EstateReads(estate) THEN estate ELSE NoEstate
=============================================================================
