------------------------------ MODULE Governance ------------------------------
(***************************************************************************)
(* The services people govern by, side by side: the release of playbooks,  *)
(* the rollback of what they contained, the ledger of claims, the          *)
(* incident's case and the sessions all of them come in.  In the model     *)
(* they share no state, so what each can reach it can reach while the      *)
(* others rest where they start: one of them, the focus, moves.            *)
(* Containment is extended for its theorems to name what is checked here.  *)
(***************************************************************************)
EXTENDS Containment

\* What the instances below give to the constants of the services; a name
\* is the service's own unless two of them mean different things by it.
CONSTANTS Publisher, Procedure, Action, Instance, Uses, ZeroConfig, Wazuh,
          HighImpact, Minimum, TopMode, First, Runner, Local, MaxVersion,
          MaxRemaps, MaxReleases, NoUser, NoProcedure,
          Analyst, Claim, Finding, Relater, Machine, NoOne,
          MaxAssessments, MaxRelations, MaxTexts,
          Holds, Invited, Slot, MaxEdits,
          Member, Admins, MaxTokens, MaxGeneration

VARIABLES focus,
          catalogue, mode, version, created, binding, grip, connector,
          releasing, released, remaps,
          claim, assessed, related, texts, relating,
          status, owner, resolver, helpers, file, editing, edits,
          active, admin, generation, store, index, asking, login, ended

Release == INSTANCE PlaybookRelease WITH
    User <- Publisher, Gone <- NoProcedure, MaxRequests <- MaxReleases,
    request <- releasing, opened <- released

Ledger == INSTANCE ClaimLedger WITH
    User <- Analyst, Request <- Relater, Nobody <- NoOne,
    request <- relating

Desk == INSTANCE IncidentCase WITH
    User <- Analyst, Nobody <- NoOne, MaxRequests <- MaxEdits,
    request <- editing, opened <- edits

Sessions == INSTANCE Identity WITH
    User <- Member, Nobody <- NoOne,
    request <- asking

ASSUME GovernanceAssumption ==
    /\ Release!ReleaseAssumption
    /\ ContainmentAssumption
    /\ Ledger!LedgerAssumption
    /\ Desk!CaseAssumption
    /\ Sessions!IdentityAssumption

releaseVars == <<catalogue, mode, version, created, binding, grip, connector,
                 releasing, released, remaps>>
ledgerVars == <<claim, assessed, related, texts, relating>>
deskVars == <<status, owner, resolver, helpers, file, editing, edits>>
sessionVars == <<active, admin, generation, store, index, asking, login, ended>>
vars == <<focus, releaseVars, containmentVars, ledgerVars, deskVars, sessionVars>>

ServicesInit ==
    /\ focus \in {"release", "rollbacks", "ledger", "desk", "sessions"}
    /\ Release!Init /\ Init /\ Ledger!Init /\ Desk!Init /\ Sessions!Init

ReleaseMoves ==
    /\ focus = "release" /\ Release!Next
    /\ UNCHANGED <<focus, containmentVars, ledgerVars, deskVars, sessionVars>>
RollbacksMove ==
    /\ focus = "rollbacks" /\ Next
    /\ UNCHANGED <<focus, releaseVars, ledgerVars, deskVars, sessionVars>>
LedgerMoves ==
    /\ focus = "ledger" /\ Ledger!Next
    /\ UNCHANGED <<focus, releaseVars, containmentVars, deskVars, sessionVars>>
DeskMoves ==
    /\ focus = "desk" /\ Desk!Next
    /\ UNCHANGED <<focus, releaseVars, containmentVars, ledgerVars, sessionVars>>
SessionsMove ==
    /\ focus = "sessions" /\ Sessions!Next
    /\ UNCHANGED <<focus, releaseVars, containmentVars, ledgerVars, deskVars>>

ServicesNext == ReleaseMoves \/ RollbacksMove \/ LedgerMoves \/ DeskMoves \/ SessionsMove

ServicesSpec == ServicesInit /\ [][ServicesNext]_vars

TypesOK == /\ Release!TypeOK /\ TypeOK /\ Ledger!TypeOK
           /\ Desk!TypeOK /\ Sessions!TypeOK
RetirementIsFinal == Release!RetirementIsFinal
ListingDisarmsPredecessors == Release!ListingDisarmsPredecessors
TrustIsNotRegained == Ledger!TrustIsNotRegained
ValidatedByOthers == Ledger!ValidatedByOthers
ResolvedIsReviewable == Desk!ResolvedIsReviewable
ResolverNeverCloses == Desk!ResolverNeverCloses
OneSessionPerLogin == Sessions!OneSessionPerLogin
RevocationEndsLogins == Sessions!RevocationEndsLogins
=============================================================================
