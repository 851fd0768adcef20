-------------------------------- MODULE Update --------------------------------
(***************************************************************************)
(* A firmware update over the air (somfy-ota, firmware/src/ota, and the    *)
(* upload route of api/routes.rs): pages go into the slot that is not      *)
(* running, otadata is made to select it, the board restarts, and the new  *)
(* image has one attempt at a self-test before the old one comes back.     *)
(*                                                                         *)
(* The tasks are the handler of the upload, the state task that serves its *)
(* calls and ticks the self-test, and the restarter.  The state task's     *)
(* writes to otadata are steps of their own: only a power cut comes        *)
(* between them.                                                           *)
(***************************************************************************)
EXTENDS Naturals

CONSTANTS IMAGE_PAGES, \* pages of an image
          WINDOW,      \* of the self-test, in ticks
          MaxSendings, \* bound: uploads of a run
          MaxMishaps   \* bound: flash failures, power cuts and unrelated restarts

VARIABLES content,   \* what each slot holds
          entry,     \* the state in each slot's otadata record
          newest,    \* the slot of the record with the higher sequence number
          promotes,  \* the bootloader was built with rollback: never changes
          attempts,  \* ATTEMPTS, which a restart keeps and power-on zeroes
          board,     \* off, up, or amid the state task's writes to otadata
          run,       \* Slots.booted
          verifying, \* PENDING
          soak,      \* ticks since SOAK_FROM
          legs,      \* LEGS
          handler,   \* where the upload's handler is
          sending,   \* the image it is sent, and the pages it has still to read
          lent,      \* a page is in the channel
          session,   \* Pages.session: none, or how many pages are written
          restarting,\* RESTART
          proved,    \* slots whose image has passed, or was flashed over serial
          excused,   \* a failure kept a roll-back or a mark from landing
          overlapped,\* an upload was begun during a self-test
          turns,     \* resets the update itself made, since power-on or upload
          uploads, faults

otadata == <<entry, newest, promotes>>
testVars == <<verifying, soak, legs>>
uploadVars == <<handler, sending, lent, session>>
seen == <<proved, excused, overlapped>>
updateVars == <<content, otadata, attempts, board, run, testVars, uploadVars, restarting, seen,
                turns, uploads, faults>>

Sides == {0, 1}
Other(s) == 1 - s
\* An image that passes, one whose radio leg fails, one that panics in its self-test.
Whole == {"good", "deaf", "crashing"}
\* What the verifier refuses: at its length, at its first page, at its last.
Refused == {"large", "foreign", "damaged"}
ImageStates == {"blank", "undefined", "new", "pending", "valid", "invalid", "aborted"}
LegStates == {"pending", "passed", "failed", "skipped"}
NoSession == IMAGE_PAGES + 1
NoLegs == [radio |-> "pending", stores |-> "pending", network |-> "pending"]

UpdateTypeOK ==
    /\ content \in [Sides -> Whole \cup {"partial"}] /\ entry \in [Sides -> ImageStates]
    /\ {newest, run} \subseteq Sides
    /\ board \in {"off", "up", "condemn", "switch", "mark", "unmark"}
    /\ attempts \in 0..3 /\ soak \in 0..WINDOW
    /\ legs \in [{"radio", "stores", "network"} -> LegStates]
    /\ handler \in {"idle", "begin", "read", "posted", "finish", "abort"}
    /\ sending \in [image : Whole \cup Refused, left : 0..IMAGE_PAGES]
    /\ session \in 0..NoSession
    /\ proved \subseteq Sides
    /\ {promotes, verifying, lent, restarting, excused, overlapped} \subseteq BOOLEAN

UpdateInit ==
    /\ content = [s \in Sides |-> IF s = 0 THEN "good" ELSE "partial"]
    /\ entry = [s \in Sides |-> "blank"] /\ newest = 0
    /\ promotes \in BOOLEAN
    /\ attempts = 0 /\ board = "off" /\ run = 0
    /\ verifying = FALSE /\ soak = 0 /\ legs = NoLegs
    /\ handler = "idle" /\ sending = [image |-> "good", left |-> 0]
    /\ lent = FALSE /\ session = NoSession /\ restarting = FALSE
    /\ proved = {0} /\ excused = FALSE /\ overlapped = FALSE
    /\ turns = 0 /\ uploads = 0 /\ faults = 0

-----------------------------------------------------------------------------
(* otadata: two records, of which the one with the higher number selects   *)

Blank == \A s \in Sides : entry[s] = "blank"
Selected == IF entry[newest] = "blank" THEN Other(newest) ELSE newest
\* set_current_app_partition: a new record, with the state its place held.
Select(s) ==
    /\ newest' = s
    /\ entry' = [entry EXCEPT ![s] = IF @ = "blank" THEN "undefined" ELSE @]
SetState(state) == entry' = [entry EXCEPT ![Selected] = state] /\ UNCHANGED newest

Fault == faults < MaxMishaps /\ faults' = faults + 1

-----------------------------------------------------------------------------
(* Resets, and what a boot makes of otadata                                *)

Ram ==
    /\ verifying' = FALSE /\ soak' = 0 /\ legs' = NoLegs
    /\ handler' = "idle" /\ lent' = FALSE /\ session' = NoSession
    /\ sending' = [image |-> "good", left |-> 0] /\ restarting' = FALSE

SoftwareReset == board' = "off" /\ Ram /\ UNCHANGED <<content, promotes, run, uploads>>

\* A reset of the update's own: after a roll-back, and when the self-test cannot start.
Turn == SoftwareReset /\ turns' = turns + 1 /\ UNCHANGED <<attempts, proved, overlapped>>

\* The record being rewritten is lost to a cut.
PowerOff ==
    /\ Fault
    /\ SoftwareReset
    /\ attempts' = 0 /\ turns' = 0
    /\ entry' \in {entry} \cup
         (CASE board \in {"condemn", "mark"} -> {[entry EXCEPT ![Selected] = "blank"]}
            [] board = "switch" -> {[entry EXCEPT ![Other(run)] = "blank"]}
            [] OTHER -> {})
    /\ excused' = (excused \/ board \notin {"off", "up"})
    /\ UNCHANGED <<newest, proved, overlapped>>

\* A settings change, or a panic, that has nothing to do with the update.
Unrelated ==
    /\ board = "up" /\ Fault /\ SoftwareReset
    /\ UNCHANGED <<entry, newest, attempts, turns, seen>>

Restart ==
    /\ board = "up" /\ restarting /\ SoftwareReset
    /\ UNCHANGED <<entry, newest, attempts, turns, seen, faults>>

\* The bootloader: the selected slot if its image is whole, else the other.  One
\* built with rollback gives an unconfirmed image one boot.
Chosen == IF Blank THEN 0 ELSE Selected
GaveUp == promotes /\ entry[Chosen] = "pending"
Booted ==
    IF content[Chosen] \notin Whole \/ (GaveUp /\ content[Other(Chosen)] \in Whole)
    THEN Other(Chosen) ELSE Chosen
Promoted ==
    CASE GaveUp -> [entry EXCEPT ![Chosen] = "aborted"]
      [] promotes /\ entry[Chosen] = "new" /\ Booted = Chosen -> [entry EXCEPT ![Chosen] = "pending"]
      [] OTHER -> entry

Unsettled == {"new", "pending", "invalid", "aborted"}

\* boot_verdict: one switch and one self-test for each power-on.
Verdict(state, before) ==
    CASE state \in {"blank", "valid", "undefined"} -> "settled"
      [] state \in {"invalid", "aborted"} -> IF before = 0 THEN "roll back" ELSE "settled"
      [] OTHER -> IF before = 0 THEN "verify" ELSE "roll back"

\* survey, then report.  A selection the bootloader did not follow is repaired.
Survey(state) ==
    LET verdict == Verdict(state, attempts)
    IN  /\ attempts' = IF state \in Unsettled /\ attempts < 3 THEN attempts + 1 ELSE attempts
        /\ verifying' = (verdict = "verify")
        /\ board' = IF verdict = "roll back" THEN "condemn" ELSE "up"

Boot ==
    /\ board = "off"
    /\ run' = Booted
    /\ IF ~Blank /\ Selected # Booted
       THEN /\ newest' = Booted
            /\ entry' = [Promoted EXCEPT ![Booted] = IF @ = "blank" THEN "undefined" ELSE @]
       ELSE entry' = Promoted /\ UNCHANGED newest
    /\ Survey(IF Blank THEN "blank" ELSE entry'[Booted])
    /\ legs' = [NoLegs EXCEPT !.stores = "passed"]
    /\ UNCHANGED <<content, promotes, soak, uploadVars, restarting, seen, turns, uploads, faults>>

\* The repair does not land: the board runs, and reports no update machinery.
BootUnread ==
    /\ board = "off" /\ ~Blank /\ Selected # Booted /\ Fault
    /\ run' = Booted /\ entry' = Promoted /\ UNCHANGED newest
    /\ board' = "up" /\ excused' = TRUE
    /\ legs' = [NoLegs EXCEPT !.stores = "passed"]
    /\ UNCHANGED <<content, promotes, attempts, verifying, soak, uploadVars, restarting, proved,
                   overlapped, turns, uploads>>

\* switch_back: the record selected now is condemned, then the other slot selected.
Condemn ==
    /\ board = "condemn"
    /\ SetState("invalid") /\ board' = "switch"
    /\ UNCHANGED <<content, promotes, attempts, run, testVars, uploadVars, restarting, seen, turns,
                   uploads, faults>>
SwitchBack ==
    /\ board = "switch"
    /\ Select(Other(run)) /\ Turn
    /\ UNCHANGED <<excused, faults>>
\* Neither failure keeps the board from restarting.
SwitchFails ==
    /\ board \in {"condemn", "switch"} /\ Fault
    /\ excused' = TRUE /\ Turn
    /\ UNCHANGED <<entry, newest>>

-----------------------------------------------------------------------------
(* The self-test                                                           *)

Leg(leg, state) ==
    /\ board = "up" /\ legs[leg] = "pending"
    /\ legs' = [legs EXCEPT ![leg] = state]
    /\ UNCHANGED <<content, otadata, attempts, board, run, verifying, soak, uploadVars, restarting,
                   seen, turns, uploads, faults>>

RadioLeg == Leg("radio", IF content[run] = "deaf" THEN "failed" ELSE "passed")
\* net::start runs, or is not asked to.  Associating is not required.
NetworkLeg == legs.radio # "pending" /\ \E state \in {"passed", "skipped"} : Leg("network", state)
NetworkFails == legs.radio # "pending" /\ Fault /\ board = "up" /\ legs.network = "pending"
    /\ legs' = [legs EXCEPT !.network = "failed"]
    /\ UNCHANGED <<content, otadata, attempts, board, run, verifying, soak, uploadVars, restarting,
                   seen, turns, uploads>>

\* start fails after the survey: an unconfirmed image does not wait for anyone.
StartFails ==
    /\ board = "up" /\ verifying /\ legs.radio = "pending"
    /\ Fault /\ Turn
    /\ UNCHANGED <<entry, newest, excused>>

\* Mutant: a leg that was skipped is waited for.
PollSkipped ==
    IF \E leg \in DOMAIN legs : legs[leg] = "failed" THEN "fail"
    ELSE IF soak < WINDOW \/ \E leg \in DOMAIN legs : legs[leg] # "passed" THEN "wait" ELSE "pass"

Poll ==
    IF \E leg \in DOMAIN legs : legs[leg] = "failed" THEN "fail"
    ELSE IF soak < WINDOW \/ \E leg \in DOMAIN legs : legs[leg] = "pending" THEN "wait" ELSE "pass"

TickSelfTest == board = "up" /\ verifying /\ legs.radio # "pending"

Soak ==
    /\ TickSelfTest /\ Poll = "wait" /\ soak < WINDOW
    /\ soak' = soak + 1
    /\ UNCHANGED <<content, otadata, attempts, board, run, verifying, legs, uploadVars, restarting,
                   seen, turns, uploads, faults>>

Panics ==
    /\ TickSelfTest /\ content[run] = "crashing"
    /\ SoftwareReset
    /\ UNCHANGED <<entry, newest, attempts, turns, seen, faults>>

\* What is marked valid is whatever otadata selects by now.
Pass ==
    /\ TickSelfTest /\ Poll = "pass" /\ content[run] # "crashing"
    /\ verifying' = FALSE
    /\ proved' = proved \cup {run}
    /\ \/ SetState("valid") /\ attempts' = 0 /\ UNCHANGED <<excused, faults>>
       \/ Fault /\ excused' = TRUE /\ UNCHANGED <<entry, newest, attempts>>
    /\ UNCHANGED <<content, promotes, board, run, soak, legs, uploadVars, restarting, overlapped,
                   turns, uploads>>

Fails ==
    /\ TickSelfTest /\ Poll = "fail"
    /\ verifying' = FALSE /\ board' = "condemn"
    /\ UNCHANGED <<content, otadata, attempts, run, soak, legs, uploadVars, restarting, seen, turns,
                   uploads, faults>>

-----------------------------------------------------------------------------
(* The upload: the handler's side                                          *)

untouched == <<content, promotes, board, run, testVars, restarting, turns, uploads>>

\* take: the sender is the lock, and a second upload is refused.
TakeSender ==
    /\ board = "up" /\ legs.network = "passed" /\ handler = "idle" /\ uploads < MaxSendings
    /\ \E image \in Whole \cup Refused : sending' = [image |-> image, left |-> IMAGE_PAGES]
    /\ handler' = "begin" /\ uploads' = uploads + 1
    /\ UNCHANGED <<content, otadata, attempts, board, run, testVars, lent, session, restarting,
                   seen, turns, faults>>

\* A page read from the socket, and posted.
ReadPage ==
    /\ handler = "read" /\ sending.left > 0 /\ ~lent
    /\ sending' = [sending EXCEPT !.left = @ - 1]
    /\ lent' = TRUE /\ handler' = "posted"
    /\ UNCHANGED <<untouched, otadata, attempts, session, seen, faults>>

\* The body ends early, and the upload is aborted; or the socket fails, and it is not.
BodyEnds ==
    /\ handler = "read"
    /\ handler' \in {"abort", "idle"}
    /\ UNCHANGED <<untouched, otadata, attempts, sending, lent, session, seen, faults>>

-----------------------------------------------------------------------------
(* The upload: the state task's side.  Any answer may come too late.       *)

Target == Other(run)

\* A session that cannot begin: no room for it, or otadata that cannot be seeded.
BeginRefused ==
    /\ board = "up" /\ handler = "begin"
    /\ \/ sending.image = "large" /\ UNCHANGED faults
       \/ Blank /\ Fault
    /\ session' = NoSession /\ lent' = FALSE /\ handler' = "idle"
    /\ UNCHANGED <<untouched, otadata, attempts, sending, seen>>

Begin ==
    /\ board = "up" /\ handler = "begin" /\ sending.image # "large"
    /\ IF Blank THEN Select(run) ELSE UNCHANGED <<entry, newest>>
    /\ attempts' = 0 /\ turns' = 0
    /\ overlapped' = (overlapped \/ verifying)
    /\ session' = 0 /\ lent' = FALSE
    /\ handler' \in {"read", "idle"}
    /\ UNCHANGED <<content, promotes, board, run, testVars, sending, restarting, proved, excused,
                   uploads, faults>>

\* A page erases the sector it opens, so the slot's old image is gone with the first.
WritePage(image) ==
    /\ content' = [content EXCEPT ![Target] = image]
    /\ proved' = proved \ {Target}

Page ==
    /\ board = "up" /\ handler = "posted" /\ lent
    /\ session # NoSession /\ ~(sending.image = "foreign" /\ session = 0)
    /\ WritePage(IF session + 1 = IMAGE_PAGES /\ sending.image \in Whole THEN sending.image
                 ELSE "partial")
    /\ session' = session + 1 /\ lent' = FALSE
    /\ handler' \in {IF sending.left = 0 THEN "finish" ELSE "read", "abort"}
    /\ UNCHANGED <<otadata, attempts, board, run, testVars, sending, restarting, promotes, excused,
                   overlapped, turns, uploads, faults>>

\* What the verifier refuses, or the flash, ends the session.
PageRefused ==
    /\ board = "up" /\ handler = "posted" /\ lent
    /\ \/ /\ session = NoSession \/ (sending.image = "foreign" /\ session = 0)
          /\ UNCHANGED <<content, proved, faults>>
       \/ session # NoSession /\ WritePage("partial") /\ Fault
    /\ session' = NoSession /\ lent' = FALSE /\ handler' = "abort"
    /\ UNCHANGED <<otadata, attempts, board, run, testVars, sending, restarting, excused,
                   overlapped, turns, uploads>>

\* The call is not served before its caller gives up.
Unserved ==
    /\ handler \in {"begin", "posted", "finish", "abort"}
    /\ handler' = IF handler = "posted" THEN "abort" ELSE "idle"
    /\ UNCHANGED <<untouched, otadata, attempts, sending, lent, session, seen, faults>>

Abort ==
    /\ board = "up" /\ handler = "abort"
    /\ session' = NoSession /\ lent' = FALSE /\ handler' = "idle"
    /\ UNCHANGED <<untouched, otadata, attempts, sending, seen, faults>>

FinishRefused ==
    /\ board = "up" /\ handler = "finish"
    /\ \/ (session = NoSession \/ sending.image \notin Whole) /\ UNCHANGED faults
       \/ session # NoSession /\ sending.image \in Whole /\ Fault
    /\ session' = NoSession /\ handler' = "idle"
    /\ UNCHANGED <<untouched, otadata, attempts, sending, lent, seen>>

\* The selection lands first ...
Finish ==
    /\ board = "up" /\ handler = "finish" /\ session # NoSession /\ sending.image \in Whole
    /\ Select(Target)
    /\ board' = "mark" /\ session' = NoSession
    /\ UNCHANGED <<content, promotes, attempts, run, testVars, sending, lent, handler, restarting,
                   seen, turns, uploads, faults>>

\* Mutant: the state the selected record held is left as it was.
MarkNothing ==
    /\ board = "mark" /\ board' = "up" /\ UNCHANGED <<entry, newest>>
    /\ handler' = "idle" /\ restarting' \in {TRUE, restarting}
    /\ UNCHANGED <<content, promotes, attempts, run, testVars, sending, lent, session, seen, turns,
                   uploads, faults>>

\* ... then the state, which is read back.
Mark ==
    /\ board = "mark" /\ board' = "up" /\ SetState("new")
    /\ handler' = "idle" /\ restarting' \in {TRUE, restarting}
    /\ UNCHANGED <<content, promotes, attempts, run, testVars, sending, lent, session, seen, turns,
                   uploads, faults>>
\* Neither may land, or only the reading back of the state fails.
MarkFails ==
    /\ board = "mark" /\ Fault /\ board' = "unmark"
    /\ SetState("new") \/ UNCHANGED <<entry, newest>>
    /\ UNCHANGED <<content, promotes, attempts, run, testVars, uploadVars, restarting, seen, turns,
                   uploads>>
Unmark ==
    /\ board = "unmark" /\ board' = "up" /\ handler' = "idle"
    /\ \/ Select(run) /\ UNCHANGED <<excused, faults>>
       \/ Fault /\ excused' = TRUE /\ UNCHANGED <<entry, newest>>
    /\ UNCHANGED <<content, promotes, attempts, run, testVars, sending, lent, session, restarting,
                   proved, overlapped, turns, uploads>>

-----------------------------------------------------------------------------

Resets == PowerOff \/ Unrelated \/ Restart \/ Panics \/ StartFails
Booting == Boot \/ BootUnread \/ Condemn \/ SwitchBack \/ SwitchFails
SelfTesting == RadioLeg \/ NetworkLeg \/ NetworkFails \/ Soak \/ Pass \/ Fails
Handler == TakeSender \/ ReadPage \/ BodyEnds \/ Unserved
Serving == BeginRefused \/ Begin \/ Page \/ PageRefused \/ Abort \/ FinishRefused \/ Finish
           \/ Mark \/ MarkFails \/ Unmark
UpdateNext == Resets \/ Booting \/ SelfTesting \/ Handler \/ Serving

\* The bootloader, start, and the state task with its ticker always go on.
Runs == Boot \/ Condemn \/ SwitchBack \/ RadioLeg \/ NetworkLeg \/ Soak \/ Panics \/ Pass \/ Fails
        \/ Restart \/ Mark \/ Unmark
UpdateSpec == UpdateInit /\ [][UpdateNext]_updateVars /\ WF_updateVars(Runs)

-----------------------------------------------------------------------------
(* Properties                                                              *)

\* The image that runs is whole at all times: an update writes the other slot, even
\* when otadata already selects it because an upload has just been finished.
RunningSlotKept == board # "off" => content[run] \in Whole

\* An image nobody has proved runs only under its self-test, unless a failed write or a
\* cut kept a mark or a roll-back from landing, or an upload overlapped a self-test.
UntestedNeverSettles ==
    board = "up" /\ ~verifying => run \in proved \/ excused \/ overlapped

\* The update resets the board a bounded number of times for each power-on and each
\* upload, one more for each write that fails: condemned images do not send each other
\* back for ever.
TurnsEnd == turns <= 3 + faults

\* An update never costs the image that runs, trusts one unproved, or resets for ever.
UpdateSafe == UpdateTypeOK /\ RunningSlotKept /\ UntestedNeverSettles /\ TurnsEnd

\* Whatever fails, a board left alone comes to rest with an image out of its self-test.
ComesToRest == <>[](board = "up" /\ ~verifying)

\* (Violated.)  The same as UntestedNeverSettles with uploads during a self-test, which
\* nothing refuses: finish promises that an image that fails "comes back ... on its own".
ComesBack == board = "up" /\ ~verifying => run \in proved \/ excused
=============================================================================
