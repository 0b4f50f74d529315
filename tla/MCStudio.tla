------------------------------ MODULE MCStudio ------------------------------
(***************************************************************************)
(* A project and what becomes of it, for TLC: its files and its way to the   *)
(* trash (Projects), its design (Studio), its links and the reports about it  *)
(* (Sharing), which share no state, side by side.  One of them moves while    *)
(* the others are in an initial state, so that TLC explores each on its own    *)
(* instead of their product.                                                *)
(***************************************************************************)
EXTENDS Sharing, TLC

CONSTANTS
    Designs, Keep, MaxRevisions, MaxVersions, MaxModels,        \* of Studio
    Models, Thumbnails, RestoreDays                             \* of Projects

VARIABLES
    lock, project, revisions, versions, job, sent, studioReq,           \* of Studio
    life, trashed, status, canonical, thumbnail, old, store, doomed, due, seedLost,
    atRisk, projectReq                                                  \* of Projects

D == INSTANCE Studio WITH req <- studioReq
P == INSTANCE Projects WITH req <- projectReq

studio == <<lock, project, revisions, versions, job, sent, studioReq>>
projects == <<life, trashed, status, canonical, thumbnail, old, store, doomed, due,
              seedLost, atRisk, projectReq>>

\* What the constants must be.
ASSUME PartsAssumption == D!StudioAssumption /\ P!ProjectsAssumption

\* At rest: one initial state of each.
SharingAtRest == Init /\ paying
StudioAtRest == D!Init /\ project.design = None
ProjectsAtRest == P!Init /\ canonical = None

MCInit == Init /\ D!Init /\ P!Init

MCNext ==
    \/ StudioAtRest /\ ProjectsAtRest /\ Next /\ UNCHANGED <<studio, projects>>
    \/ SharingAtRest /\ ProjectsAtRest /\ D!Next /\ UNCHANGED <<vars, projects>>
    \/ SharingAtRest /\ StudioAtRest /\ P!Next /\ UNCHANGED <<vars, studio>>

MCSpec == MCInit /\ [][MCNext]_<<vars, studio, projects>>

\* In the cfg the designs, the models and two of the reports are the same values.
Symmetry == Permutations(Requests) \cup Permutations(Designs)

-----------------------------------------------------------------------------

\* Studio: every revision was made from the one before it.
RevisionsChain == D!RevisionsChain

\* Studio: the version a design was exported from is kept.
ExportsKept == D!ExportsKept

\* Projects: the model of a live project is there.
CanonicalStored == P!CanonicalStored
=============================================================================
