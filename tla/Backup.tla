-------------------------------- MODULE Backup --------------------------------
(***************************************************************************)
(* A backup and its restore (somfy-backup, firmware/src/restore.rs and the *)
(* routes of api/routes.rs).  The export is a walk of chunks, each read    *)
(* from what the board holds by then.  The restore is an upload into a     *)
(* staging region, a restart, an applier that boot runs in place of the    *)
(* controller, and one restart more, after which codes are seeded.         *)
(*                                                                         *)
(* A shade stands for its address, and rows are in the order of addresses. *)
(***************************************************************************)
EXTENDS Naturals, FiniteSets

CONSTANTS N,          \* addresses
          PER_CHUNK,  \* rolling codes in a chunk of the export
          PAGES,      \* pages of an uploaded file
          MaxCode,    \* bound: of a rolling code
          MaxEdits,   \* bound: presses and edits of the table
          MaxUploads, \* bound: restores asked for
          MaxFaults   \* bound: power cuts, failed writes, calls not served

\* An address to begin with, its code, and codes that come in chunks.
ASSUME BackupAssumption ==
    /\ N \in Nat \ {0} /\ PER_CHUNK \in Nat \ {0} /\ PAGES \in Nat
    /\ MaxCode \in Nat /\ MaxCode >= 2

VARIABLES table,     \* the registry
          saved,     \* the shades region: the newest record
          estateOf,  \* the table the estate region was written beside
          code,      \* the rolling-code store
          export,    \* Export, and what the client has so far
          file,      \* the file the client holds in the end
          stage,     \* the state record of the staging region
          staged,    \* how many pages of which file are in it
          writing,   \* Staging.writing
          at,        \* the board: off, up, or where apply is
          client,    \* where the handler of an upload is
          posted,    \* a page is in the channel
          asked,     \* the restart the handler asks for
          edited,    \* the table changed during the export, or was not yet written when it began
          clash,     \* a write of the applier failed between the two regions
          had,       \* addresses with a code when a file was applied
          edits, tried, faulted

exporting == <<export, file, edited>>
restoring == <<stage, staged, writing>>
uploading == <<client, posted, asked, tried>>
seenBy == <<clash, had>>
backupVars == <<table, saved, estateOf, code, exporting, restoring, at, uploading, seenBy, edits,
                faulted>>

Addresses == 1..N
Chunks == 1 + ((N + PER_CHUNK - 1) \div PER_CHUNK)
NoExport == Chunks + 1
\* A file: the pinned record, the count of codes and the codes; and how it stood at first:
\* the codes, and whether the record was that of the table.
Codes == [Addresses -> 0..MaxCode]
Nobody == [a \in Addresses |-> 0]
EmptyFile == [table |-> {}, seed |-> Nobody, count |-> 0, got |-> 0, codes |-> Nobody,
              first |-> Nobody, fresh |-> FALSE]

BackupTypeOK ==
    /\ table \subseteq Addresses /\ code \in Codes
    /\ saved.table \subseteq Addresses /\ saved.seed \in Codes /\ saved.announced \subseteq Addresses
    /\ saved.of \in {"board", "file"} /\ estateOf \in {"board", "file"}
    /\ export.at \in 0..NoExport /\ file.codes \in Codes /\ file.got \in 0..N
    /\ stage \in {"none", "staged", "applied", "refused"}
    /\ staged \in 0..PAGES /\ writing \in 0..PAGES + 1
    /\ at \in {"off", "up", "shades", "estate", "applied", "refused"}
    /\ client \in {"idle", "begin", "read", "page", "finish", "abort"}
    /\ {posted, asked, edited, clash} \subseteq BOOLEAN
    /\ had \subseteq Addresses

BackupInit ==
    /\ table = {1, N} /\ code = [a \in Addresses |-> IF a \in table THEN 2 ELSE 0]
    /\ saved = [of |-> "board", table |-> table, seed |-> [a \in Addresses |-> 1],
                announced |-> table]
    /\ estateOf = "board"
    /\ export = [at |-> NoExport, file |-> EmptyFile] /\ file = EmptyFile /\ edited = FALSE
    /\ stage = "none" /\ staged = 0 /\ writing = PAGES + 1
    /\ at = "up" /\ client = "idle" /\ posted = FALSE /\ asked = FALSE
    /\ clash = FALSE /\ had = {}
    /\ edits = 0 /\ tried = 0 /\ faulted = 0

Failure == faulted < MaxFaults /\ faulted' = faulted + 1

-----------------------------------------------------------------------------
(* What goes on meanwhile: commands, edits, the debounced write            *)

Edit == at = "up" /\ edits < MaxEdits /\ edits' = edits + 1

PressShade ==
    /\ Edit
    /\ \E a \in table : code[a] < MaxCode /\ code' = [code EXCEPT ![a] = @ + 1]
    /\ UNCHANGED <<table, saved, estateOf, exporting, restoring, at, uploading, seenBy, faulted>>

\* An added shade is seeded at once; a removed one leaves its code behind.
EditTable ==
    /\ Edit
    /\ \/ \E a \in Addresses \ table :
            table' = table \cup {a} /\ code' = [code EXCEPT ![a] = IF @ = 0 THEN 1 ELSE @]
       \/ \E a \in table : table' = table \ {a} /\ UNCHANGED code
    /\ edited' = (edited \/ export.at # NoExport)
    /\ UNCHANGED <<saved, estateOf, export, file, restoring, at, uploading, seenBy, faulted>>

\* The entities of the rows the record names are announced by then.
PersistRows ==
    /\ at = "up" /\ saved.table # table
    /\ saved' = [saved EXCEPT !.table = table, !.announced = @ \cup table]
    /\ UNCHANGED <<table, estateOf, code, exporting, restoring, at, uploading, seenBy, edits,
                   faulted>>

-----------------------------------------------------------------------------
(* The export                                                              *)

\* codes: of each shade that has one, in order.
Listed == {a \in table : code[a] # 0}
Place(a) == Cardinality({b \in Listed : b <= a})
InChunk(a, chunk) == Place(a) \in (chunk - 1) * PER_CHUNK + 1..chunk * PER_CHUNK

\* A walk begins by pinning the record; the count of the codes is in its first chunk.
ExportBegin ==
    /\ at = "up" /\ export.at = NoExport /\ file = EmptyFile
    /\ export' = [at |-> 1,
                  file |-> [EmptyFile EXCEPT !.table = saved.table, !.seed = saved.seed,
                                             !.count = Cardinality(Listed), !.first = code,
                                             !.fresh = saved.table = table]]
    /\ edited' = (saved.table # table)
    /\ UNCHANGED <<table, saved, estateOf, code, file, restoring, at, uploading, seenBy, edits,
                   faulted>>

\* The header is written again for each of its chunks.
ExportChunk ==
    /\ at = "up" /\ export.at < Chunks
    /\ LET Entries == {a \in Listed : InChunk(a, export.at) /\ Place(a) <= export.file.count}
       IN  export' = [at |-> export.at + 1,
                      file |-> [export.file EXCEPT
                        !.codes = [a \in Addresses |-> IF a \in Entries THEN code[a] ELSE @[a]],
                        !.got = @ + Cardinality(Entries)]]
    /\ UNCHANGED <<table, saved, estateOf, code, file, edited, restoring, at, uploading, seenBy,
                   edits, faulted>>

\* The rest comes from the pinned slots, and the checksum covers whatever was sent.
ExportEnd ==
    /\ at = "up" /\ export.at = Chunks
    /\ file' = export.file /\ export' = [at |-> NoExport, file |-> EmptyFile]
    /\ UNCHANGED <<table, saved, estateOf, code, edited, restoring, at, uploading, seenBy, edits,
                   faulted>>

\* Another board, which has never driven a motor.
Replace ==
    /\ at = "up" /\ file # EmptyFile /\ client = "idle" /\ stage = "none" /\ Failure
    /\ table' = {} /\ code' = Nobody
    /\ saved' = [of |-> "board", table |-> {}, seed |-> Nobody, announced |-> {}]
    /\ estateOf' = "board"
    /\ staged' = 0 /\ writing' = PAGES + 1 /\ posted' = FALSE /\ asked' = FALSE
    /\ UNCHANGED <<exporting, stage, at, client, tried, seenBy, edits>>

-----------------------------------------------------------------------------
(* The upload                                                              *)

served == <<table, saved, estateOf, code, exporting, at, seenBy, edits>>

AskRestore ==
    /\ at = "up" /\ client = "idle" /\ file # EmptyFile /\ tried < MaxUploads
    /\ client' = "begin" /\ tried' = tried + 1
    /\ UNCHANGED <<served, restoring, posted, asked, faulted>>

\* begin erases the region, unless a file in it waits to be applied.  The answer to this
\* or another call may come too late for the handler.
Stage ==
    IF stage = "staged" THEN client' = "idle" /\ UNCHANGED <<staged, writing>>
    ELSE staged' = 0 /\ writing' = 0 /\ client' \in {"read", "idle"}

StageBegin ==
    /\ at = "up" /\ client = "begin" /\ Stage
    /\ UNCHANGED <<served, stage, posted, asked, tried, faulted>>

\* The page is lent once the channel is free.
SendPage ==
    /\ client = "read" /\ writing < PAGES /\ ~posted
    /\ posted' = TRUE /\ client' = "page"
    /\ UNCHANGED <<served, restoring, asked, tried, faulted>>

StagePage ==
    /\ at = "up" /\ client = "page" /\ posted /\ posted' = FALSE
    /\ \/ writing < PAGES /\ writing' = writing + 1 /\ staged' = writing'
          /\ client' \in {IF writing' = PAGES THEN "finish" ELSE "read", "abort"} /\ UNCHANGED faulted
       \/ Failure /\ client' = "abort" /\ UNCHANGED <<writing, staged>>
    /\ UNCHANGED <<served, stage, asked, tried>>

\* The body ends early, or the socket fails and nothing is aborted.
StageStops ==
    /\ client = "read" /\ client' \in {"abort", "idle"}
    /\ UNCHANGED <<served, restoring, posted, asked, tried, faulted>>

\* A call nobody serves in time.  Nobody takes a page back: the next upload is lent none.
StageUnserved ==
    /\ client \in {"begin", "page", "finish", "abort"} /\ Failure
    /\ client' = (IF client = "page" THEN "abort" ELSE "idle")
    /\ UNCHANGED <<served, restoring, posted, asked, tried>>

\* A file staged without an answer waits for a restart that nobody asks for.
StageFinish ==
    /\ at = "up" /\ client = "finish" /\ client' = "idle" /\ writing' = PAGES + 1
    /\ \/ stage' = "staged" /\ asked' \in {TRUE, asked} /\ UNCHANGED faulted
       \/ Failure /\ UNCHANGED <<stage, asked>>
    /\ UNCHANGED <<served, staged, posted, tried>>

\* The record is written even if there was nothing to give up.
StageAbort ==
    /\ at = "up" /\ client = "abort" /\ client' = "idle" /\ writing' = PAGES + 1
    /\ stage' = "none"
    /\ UNCHANGED <<served, staged, posted, asked, tried, faulted>>

-----------------------------------------------------------------------------
(* Resets, and the boot that applies                                       *)

Forgotten ==
    /\ at' = "off" /\ table' = {} /\ client' = "idle" /\ posted' = FALSE /\ asked' = FALSE
    /\ writing' = PAGES + 1
    /\ export' = [at |-> NoExport, file |-> EmptyFile]
    /\ UNCHANGED <<staged, file, edited, tried, edits>>

\* A cut loses the state record if that was being written.
CutOff ==
    /\ Failure /\ Forgotten
    /\ stage' \in {stage} \cup (IF at \in {"applied", "refused"} \/ client = "finish" THEN {"none"} ELSE {})
    /\ UNCHANGED <<saved, estateOf, code, clash, had>>

RestartForRestore ==
    /\ at = "up" /\ asked /\ Forgotten
    /\ UNCHANGED <<saved, estateOf, code, stage, clash, had, faulted>>

\* A file is refused whole: one that was cut short, or a code with no address.
Reads == staged = PAGES /\ file.got = file.count

\* start, when nothing is staged: shades with no code are given their seed.
StartBoard ==
    /\ at = "off" /\ stage # "staged"
    /\ at' = "up" /\ table' = saved.table
    /\ code' = [a \in Addresses |->
                 IF a \in saved.table /\ code[a] = 0 THEN saved.seed[a] ELSE code[a]]
    /\ UNCHANGED <<saved, estateOf, exporting, restoring, uploading, seenBy, edits, faulted>>

ApplyBegin ==
    /\ at = "off" /\ stage = "staged"
    /\ at' = (IF Reads THEN "shades" ELSE "refused")
    /\ had' = {a \in Addresses : code[a] # 0}
    /\ UNCHANGED <<table, saved, estateOf, code, exporting, restoring, uploading, clash, edits,
                   faulted>>

\* Mutant: the record is stored with the seeds it carries.
GraftNothing == file.seed
\* The live codes go into the record that is written.
Graft == [a \in Addresses |-> IF file.codes[a] # 0 THEN file.codes[a] ELSE file.seed[a]]

\* Mutant: the new table has announced nothing.
CarryNothing == {}
\* What the old table announced is still to be named by the new one.
Carried == saved.announced

\* The shades region is first, the estate region after it.
AfterShades == at' = "estate"

WriteShades ==
    /\ at = "shades" /\ AfterShades
    /\ saved' = [of |-> "file", table |-> file.table, seed |-> Graft, announced |-> Carried]
    /\ UNCHANGED <<table, estateOf, code, exporting, restoring, uploading, seenBy, edits, faulted>>

WriteEstate ==
    /\ at = "estate" /\ at' = "applied"
    /\ estateOf' = "file" /\ clash' = FALSE
    /\ UNCHANGED <<table, saved, code, exporting, restoring, uploading, had, edits, faulted>>

ApplyFails ==
    /\ at \in {"shades", "estate"} /\ Failure
    /\ at' = "refused" /\ clash' = (saved.of # estateOf)
    /\ UNCHANGED <<table, saved, estateOf, code, exporting, restoring, uploading, had, edits>>

\* Mutant: settle says what happened and records nothing.
SettleUnrecorded == UNCHANGED stage
Settle == stage' = at

\* settle, then the restart; an outcome that is not recorded leaves the file staged.
RecordOutcome ==
    /\ at \in {"applied", "refused"} /\ Forgotten
    /\ \/ Settle /\ UNCHANGED faulted
       \/ Failure /\ UNCHANGED stage
    /\ UNCHANGED <<saved, estateOf, code, clash, had>>

-----------------------------------------------------------------------------

Living == PressShade \/ EditTable \/ PersistRows \/ Replace
Exporting == ExportBegin \/ ExportChunk \/ ExportEnd
Uploads == AskRestore \/ StageBegin \/ SendPage \/ StagePage \/ StageStops \/ StageUnserved
           \/ StageFinish \/ StageAbort
Applying == ApplyBegin \/ WriteShades \/ WriteEstate \/ ApplyFails \/ RecordOutcome
BackupNext == Living \/ Exporting \/ Uploads \/ CutOff \/ RestartForRestore \/ StartBoard \/ Applying

\* Boot never waits for anyone, and neither does the restarter.
Boots == RestartForRestore \/ StartBoard \/ ApplyBegin \/ WriteShades \/ WriteEstate \/ RecordOutcome
BackupSpec == BackupInit /\ [][BackupNext]_backupVars /\ WF_backupVars(Boots)

-----------------------------------------------------------------------------
(* Properties                                                              *)

\* What is staged is a whole file: no upload writes over one that waits to be applied.
StagedWhole == stage = "staged" => staged = PAGES

\* Rooms and groups name rows of the table they were written beside, however a cut falls
\* between the two writes, once the board runs; a failed second write is the exception.
WrittenTogether == at = "up" /\ ~clash => saved.of = estateOf

\* A shade that comes back from a file is driven from no earlier code than it had when the
\* download began, unless the board knew one of its own, or the file's record was not that of the table.
ResumesFromFile ==
    at = "up" /\ saved.of = "file" /\ ~edited =>
        \A a \in table \cap file.table : a \in had \/ code[a] >= file.first[a]

\* A restore is whole, its two records are of one table, and no code goes back.
RestoreSafe == BackupTypeOK /\ StagedWhole /\ WrittenTogether /\ ResumesFromFile

\* No entity of a replaced table is forgotten: it is announced still, or named to be cleared.
NobodyForgotten == [][saved.announced \subseteq saved'.announced \/ faulted' > faulted]_backupVars

\* A staged file is applied or refused once a restart is asked for, if writes do not fail for
\* ever.
RestoreEnds == stage = "staged" /\ (asked \/ at = "off") ~> stage # "staged"

\* (Violated.)  "the file is a consistent snapshot of the table as it was when the download
\* started": every shade of the file that had a code is in it with one, even when the record is
\* up to date.
ExportIsSnapshot ==
    file.fresh => \A a \in file.table : file.first[a] # 0 => file.codes[a] >= file.first[a]
=============================================================================
