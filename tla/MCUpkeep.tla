------------------------------- MODULE MCUpkeep -------------------------------
(***************************************************************************)
(* What an operator has done to the device over the network, each with a   *)
(* restart in it, side by side for TLC: a credential tried, a backup taken *)
(* and restored, a firmware update.  They meet only in the restart, which  *)
(* each module has, so a behaviour is of one part, chosen at the start, and *)
(* the others stay as they begin.                                          *)
(***************************************************************************)
EXTENDS WifiTrial, Backup, Update

CONSTANT Parts   \* which of the parts are run

VARIABLE part

allVars == <<part, trialVars, backupVars, updateVars>>

OfTrial(A) == part = "trial" /\ A /\ UNCHANGED <<part, backupVars, updateVars>>
OfBackup(A) == part = "backup" /\ A /\ UNCHANGED <<part, trialVars, updateVars>>
OfUpdate(A) == part = "update" /\ A /\ UNCHANGED <<part, trialVars, backupVars>>

MCInit ==
    /\ part \in Parts
    /\ TrialInit /\ (part # "trial" => Loaded.mqtt = Nothing)
    /\ BackupInit
    /\ UpdateInit /\ (part # "update" => promotes)

MCNext ==
    \/ /\ part = "trial"
       /\ TrialNext
       /\ UNCHANGED <<part, backupVars, updateVars>>
    \/ /\ part = "backup"
       /\ BackupNext
       /\ UNCHANGED <<part, trialVars, updateVars>>
    \/ /\ part = "update"
       /\ UpdateNext
       /\ UNCHANGED <<part, trialVars, backupVars>>

\* The fairness of TrialSpec, BackupSpec and UpdateSpec, each of its part.
MCFairSpec ==
    /\ MCInit /\ [][MCNext]_allVars
    /\ WF_allVars(OfTrial(WifiLink)) /\ WF_allVars(OfTrial(Watch \/ Revert))
    /\ WF_allVars(OfTrial(Tick)) /\ WF_allVars(OfTrial(SaveWifi))
    /\ WF_allVars(OfTrial(End)) /\ WF_allVars(OfTrial(Restarter))
    /\ WF_allVars(OfBackup(Boots))
    /\ WF_allVars(OfUpdate(Runs))

-----------------------------------------------------------------------------
\* ComesToRest, of a board that an update is done to; the others are not up for this.
UpdateComesToRest == part = "update" => ComesToRest
===============================================================================
