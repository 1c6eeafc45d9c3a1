----------------------------- MODULE MCArchive -----------------------------
(* Model-checking runs of Backup and Archive. The two serve different          *)
(* installations and share no state: a behaviour plays one of them (its scene),*)
(* the variables of the other stay at their initial values.                    *)
EXTENDS Backup

ASSUME FileNamesAssumption == NamesAssumption

CONSTANTS Scenes, Owners, Slots, Restorers, Alone, MaxNames, MaxRequests,
          MaxRefusals, MaxDeaths

VARIABLES scene, rows, objects, dossiers, lock, req, spent, lost, withdrawn, served,
          refusals, deaths

A == INSTANCE Archive WITH
  archives <- dossiers, faults <- refusals, crashes <- deaths,
  MaxFaults <- MaxRefusals, MaxCrashes <- MaxDeaths

ASSUME RequestsAssumption == A!SlotsAssumption

dossierVars == <<rows, objects, dossiers, lock, req, spent, lost, withdrawn, served,
                 refusals, deaths>>
DossierStep(r) == A!Step(r)

MCVars == <<vars, dossierVars, scene>>
MCInit == Init /\ A!Init /\ scene \in Scenes
MCNext == /\ \/ scene = "dossiers" /\ A!Next /\ UNCHANGED vars
             \/ scene = "files" /\ Next /\ UNCHANGED dossierVars
          /\ UNCHANGED scene
MCSpec == /\ MCInit /\ [][MCNext]_MCVars
          /\ \A r \in Slots : WF_dossierVars(DossierStep(r))

\* services/documents.py, dossier_export.py: the properties of module Archive.
RegisteredReadable == A!RegisteredReadable
ReadableUnlessWithdrawn == A!ReadableUnlessWithdrawn
RestoreAllOrNothing == A!RestoreAllOrNothing
RequestsEnd == A!RequestsEnd
OthersFilesSurvive == A!OthersFilesSurvive
=============================================================================
