------------------------------- MODULE Import -------------------------------
(***************************************************************************)
(* What the controller makes of a backup written by the C++ firmware it    *)
(* replaces: the parser (somfy-migrate), the mapping onto its own records  *)
(* (somfy-config/src/import.rs, import_with), and the two things the       *)
(* mapping may answer, a refusal of the whole file or a caveat about one   *)
(* field of it.                                                            *)
(*                                                                         *)
(* A backup is what its text says: the fields in the order they are        *)
(* written are a record here. Names, positions, the settings and network   *)
(* records and the count of records that did not align are left out.       *)
(***************************************************************************)
EXTENDS TableRecord

CONSTANTS MIN_SUPPORTED_VERSION,  \* versions of the file the parser takes
          MAX_SUPPORTED_VERSION,
          GROUP_CODE_MIN_VERSION, \* the first that carries a group's code
          CODES                   \* rolling codes there are (2^16)

ASSUME ImportAssumption ==
    CODES \in Nat \ {0} /\ GROUP_CODE_MIN_VERSION \in Nat

-----------------------------------------------------------------------------
(* The parser: slots the old controller had not filled are dropped, and a  *)
(* code is the one after the last sent.                                    *)

NextCode(last) == (last + 1) % CODES

\* What the parser keeps of a shade record and of a group record.
Migrated(shade) ==
    [id |-> shade.id, address |-> shade.address, kind |-> shade.kind,
     protocol |-> shade.protocol, up |-> shade.up, down |-> shade.down,
     room |-> shade.room, next |-> NextCode(shade.last),
     links |-> Kept(shade.links, {n \in DOMAIN shade.links : shade.links[n] # 0})]
MigratedGroup(group) ==
    [id |-> group.id, address |-> group.address, members |-> ToSet(group.members) \ {0}]

ParsedRooms(backup) == Kept(backup.rooms, {r \in DOMAIN backup.rooms : backup.rooms[r] # 0})
Filled(records) == Kept(records, {n \in DOMAIN records : records[n].id # 255})
ParsedShades(backup) ==
    LET filled == Filled(backup.shades) IN [s \in DOMAIN filled |-> Migrated(filled[s])]
ParsedGroups(backup) ==
    LET filled == Filled(backup.groups) IN [g \in DOMAIN filled |-> MigratedGroup(filled[g])]

-----------------------------------------------------------------------------
(* The mapping                                                             *)

RoomUnassigned == {0, 255}

RoomRow(backup, id) == {r - 1 : r \in {r \in DOMAIN ParsedRooms(backup) :
                                          ParsedRooms(backup)[r] = id}}
\* The row a group's member id means: the first shade that has it.
RowsOf(backup, id) == {r \in DOMAIN ParsedShades(backup) : ParsedShades(backup)[r].id = id}
ShadeRow(backup, id) == {r - 1 : r \in {r \in RowsOf(backup, id) :
                                           \A s \in RowsOf(backup, id) : r <= s}}

\* A raw value this build has no meaning for becomes the default.
ImportedConfig(shade) ==
    [NewConfig(shade.address) EXCEPT
        !.kind = IF shade.kind \in Kinds THEN shade.kind ELSE @,
        !.protocol = IF shade.protocol \in Protocols THEN shade.protocol ELSE @,
        !.up = shade.up, !.down = shade.down,
        !.confirmed = Provisioned(shade.address)]

ImportedLinks(shades) == Packed([r \in DOMAIN shades |-> shades[r].links])

ImportedRoom(backup, shade) ==
    IF shade.room \in RoomUnassigned \/ RoomRow(backup, shade.room) = {} THEN None
    ELSE CHOOSE row \in RoomRow(backup, shade.room) : TRUE

ImportedGroup(backup, group) ==
    Group(group.address, UNION {ShadeRow(backup, id) : id \in group.members},
          backup.version >= GROUP_CODE_MIN_VERSION)

ImportedTable(backup) ==
    LET shades == ParsedShades(backup)
    IN [rows |-> [r \in DOMAIN shades |->
                     Row(ImportedConfig(shades[r]), shades[r].next)],
        links |-> ImportedLinks(shades)]

ImportedEstate(backup) ==
    LET shades == ParsedShades(backup)
        groups == ParsedGroups(backup)
    IN [rooms |-> Len(ParsedRooms(backup)),
        roomOf |-> [row \in 0..CAPACITY - 1 |->
                       IF row + 1 \in DOMAIN shades
                       THEN ImportedRoom(backup, shades[row + 1]) ELSE None],
        groups |-> [g \in DOMAIN groups |-> ImportedGroup(backup, groups[g])]]

-----------------------------------------------------------------------------
(* Refusals                                                                *)

ShadeRefused(shade) == ~Usable(shade.address) \/ shade.up = 0 \/ shade.down = 0

\* A remote links once, to a shade it is not, and a shade holds so many.
LinkRefused(shade) ==
    \/ \E address \in ToSet(shade.links) : ~Usable(address) \/ address = shade.address
    \/ ~IsInjective(shade.links)
    \/ Len(shade.links) > MAX_LINKED_REMOTES

SharesAddress(rows) ==
    \E r, s \in DOMAIN rows : r # s /\ rows[r].address = rows[s].address

\* A group's own address is nobody else's: no shade's, no group's, no remote's.
GroupRefused(backup, g) ==
    LET groups == ParsedGroups(backup)
        address == groups[g].address
    IN \/ ~Usable(address)
       \/ \E r \in DOMAIN ParsedShades(backup) :
             \/ ParsedShades(backup)[r].address = address
             \/ address \in ToSet(ParsedShades(backup)[r].links)
       \/ \E earlier \in 1..g - 1 : groups[earlier].address = address

Unreadable(backup) ==
    backup.version \notin MIN_SUPPORTED_VERSION..MAX_SUPPORTED_VERSION

Refused(backup) ==
    LET shades == ParsedShades(backup)
        groups == ParsedGroups(backup)
        rooms == ParsedRooms(backup)
    IN \/ Unreadable(backup)
       \/ shades = <<>> \/ Len(shades) > CAPACITY
       \/ ~IsInjective(rooms) \/ Len(rooms) > ROOMS \/ Len(groups) > GROUPS
       \/ \E r \in DOMAIN shades : ShadeRefused(shades[r]) \/ LinkRefused(shades[r])
       \/ SharesAddress(shades)
       \/ Len(ImportedLinks(shades)) > MAX_LINKS
       \/ \E g \in DOMAIN groups : GroupRefused(backup, g)

-----------------------------------------------------------------------------
(* Caveats: what the import took differently from what the file says       *)

ShadeCaveats(backup, shade) ==
    {c \in {"kind", "protocol", "room"} :
        \/ c = "kind" /\ shade.kind \notin Kinds
        \/ c = "protocol" /\ shade.protocol # "rts"
        \/ /\ c = "room"
           /\ shade.room \notin RoomUnassigned
           /\ RoomRow(backup, shade.room) = {}}

GroupCaveats(backup, group) ==
    {c \in {"member", "code"} :
        \/ c = "member" /\ \E id \in group.members : RowsOf(backup, id) = {}
        \/ c = "code" /\ backup.version < GROUP_CODE_MIN_VERSION}
=============================================================================
