----------------------------- MODULE ClaimLedger -----------------------------
(***************************************************************************)
(* The claims about one incident: statements of people, of the analysis    *)
(* and of rules, the assessments others pass on them and the relations     *)
(* between them.  Every table is append-only and no state is stored: what  *)
(* a claim reads as is derived from all its rows each time it is shown.    *)
(* Relating claims reads before it writes, without a lock.                 *)
(*                                                                         *)
(* Source: claims/application/service.py and domain/models.py, with the    *)
(* keys of migrations 0010 and 0011.  What a claim says, its type and its  *)
(* evidence are data.                                                      *)
(***************************************************************************)
EXTENDS Integers, Sequences, FiniteSets, SequencesExt, Relation

CONSTANTS User, Claim,
          Finding,        \* what machines report: one claim for each
          Request,        \* open requests
          Machine, Nobody,
          MaxAssessments, \* bound on the assessments of a claim
          MaxRelations,   \* bound on the relations of the incident
          MaxTexts        \* bound on the presentations of a claim

LedgerAssumption ==
    /\ Machine \notin User /\ Nobody \notin User \cup {Machine}
    /\ Nobody \notin Finding
    /\ MaxAssessments \in Nat /\ MaxRelations \in Nat /\ MaxTexts \in Nat \ {0}

VARIABLES claim,    \* who states it, and the finding it is keyed by
          assessed, \* claim_assessments, in the order of created_at
          related,  \* claim_relationships
          texts,    \* the last version in claim_presentations
          request   \* relations checked and not inserted yet

ledgerVars == <<claim, assessed, related, texts, request>>

Kind == {"CONTRADICTS", "SUPERSEDES", "DERIVED_FROM", "SUPPORTS"}
Acyclic == {"SUPERSEDES", "DERIVED_FROM"}
Outcome == {"VALIDATED", "REJECTED", "INSUFFICIENT_EVIDENCE", "RETRACTED"}
Unstated == [author |-> Nobody, of |-> Nobody]
Stated == {c \in Claim : claim[c] # Unstated}
Assessment == [outcome : Outcome, by : User]
NoRelation == <<>>

TypeOK ==
    /\ claim \in [Claim -> [author : User \cup {Machine, Nobody},
                            of : Finding \cup {Nobody}]]
    /\ \A c, d \in Stated : claim[c].of # Nobody /\ claim[c].of = claim[d].of
                            => c = d
    /\ assessed \in [Claim -> UNION {[1 .. n -> Assessment] :
                                        n \in 0 .. MaxAssessments}]
    /\ related \subseteq Stated \X Stated \X Kind
    /\ texts \in [Claim -> 0 .. MaxTexts]
    /\ \A c \in Claim \ Stated : assessed[c] = <<>> /\ texts[c] = 0
    /\ request \in [Request -> {NoRelation} \cup (Stated \X Stated \X Kind)]

Init ==
    /\ claim = [c \in Claim |-> Unstated]
    /\ assessed = [c \in Claim |-> <<>>]
    /\ related = {}
    /\ texts = [c \in Claim |-> 0]
    /\ request = [r \in Request |-> NoRelation]

State(c, author, finding, versions) ==
    /\ c \notin Stated
    /\ claim' = [claim EXCEPT ![c] = [author |-> author, of |-> finding]]
    /\ texts' = [texts EXCEPT ![c] = versions]
    /\ UNCHANGED <<assessed, related, request>>

CreateHumanClaim(u, c) == State(c, u, Nobody, 0)

\* record_analysis, record_correlation_match and record_threat_intel_lookup:
\* the idempotency key stands for what is reported, so that reporting it
\* again leaves the first claim.
RecordFinding(c, finding) ==
    /\ \A d \in Stated : claim[d].of # finding
    /\ State(c, Machine, finding, 1)

\* Mutant: only a retraction asks who the author is.
Assess_ByAnyone(u, c, outcome) ==
    /\ c \in Stated
    /\ Len(assessed[c]) < MaxAssessments
    /\ outcome = "RETRACTED" => claim[c].author = u
    /\ \E i \in 1 .. Len(assessed[c]) + 1 :
          assessed' = [assessed EXCEPT ![c] =
                          InsertAt(@, i, [outcome |-> outcome, by |-> u])]
    /\ UNCHANGED <<claim, related, texts, request>>

\* The row is dated when its transaction starts and seen when it commits:
\* rows that are there already may be younger.
Assess(u, c, outcome) ==
    /\ c \in Stated
    /\ Len(assessed[c]) < MaxAssessments
    /\ (outcome = "RETRACTED") = (claim[c].author = u)
    /\ \E i \in 1 .. Len(assessed[c]) + 1 :
          assessed' = [assessed EXCEPT ![c] =
                          InsertAt(@, i, [outcome |-> outcome, by |-> u])]
    /\ UNCHANGED <<claim, related, texts, request>>

\* _would_cycle: the source can be reached from the target.
WouldCycle(source, target, kind) ==
    LET Edge(x, y) == <<x, y, kind>> \in related
    IN  TransitiveClosure([e \in Claim \X Claim |-> Edge(e[1], e[2])],
                          Claim)[target, source]

Relate(r, source, target, kind) ==
    /\ request[r] = NoRelation
    /\ Cardinality(related) < MaxRelations
    /\ {source, target} \subseteq Stated /\ source # target
    /\ kind \in Acyclic => ~WouldCycle(source, target, kind)
    /\ request' = [request EXCEPT ![r] = <<source, target, kind>>]
    /\ UNCHANGED <<claim, assessed, related, texts>>

\* A relation that is there already refuses the row.
RelateCommit(r) ==
    /\ request[r] # NoRelation
    /\ related' = related \cup {request[r]}
    /\ request' = [request EXCEPT ![r] = NoRelation]
    /\ UNCHANGED <<claim, assessed, texts>>

\* Two requests may compute one version: the unique key refuses the second.
AddPresentation(c) ==
    /\ c \in Stated /\ texts[c] < MaxTexts
    /\ texts' = [texts EXCEPT ![c] = @ + 1]
    /\ UNCHANGED <<claim, assessed, related, request>>

Next ==
    \/ \E u \in User, c \in Claim :
          CreateHumanClaim(u, c) \/ \E o \in Outcome : Assess(u, c, o)
    \/ \E c \in Claim, finding \in Finding : RecordFinding(c, finding)
    \/ \E r \in Request : RelateCommit(r)
          \/ \E c, d \in Claim, k \in Kind : Relate(r, c, d, k)
    \/ \E c \in Claim : AddPresentation(c)

Spec == Init /\ [][Next]_ledgerVars

----------------------------------------------------------------------------
(* What a claim reads as: _view and derive_presentation_state.             *)

Outcomes(c) == {assessed[c][i].outcome : i \in 1 .. Len(assessed[c])}
\* Mutant: a retraction does not count among the outcomes.
Conflicting_Unretracted(c) == Cardinality(Outcomes(c) \ {"RETRACTED"}) > 1

Conflicting(c) == Cardinality(Outcomes(c)) > 1

Latest(c) == IF assessed[c] = <<>> THEN "NONE" ELSE Last(assessed[c]).outcome
Superseded(c) == \E d \in Claim : <<d, c, "SUPERSEDES">> \in related
Contradicted(c) == \E d \in Claim :
    {<<c, d, "CONTRADICTS">>, <<d, c, "CONTRADICTS">>} \cap related # {}

ReadsAs(c) ==
    CASE Latest(c) = "RETRACTED" -> "RETRACTED"
      [] Latest(c) # "RETRACTED" /\ Superseded(c) -> "SUPERSEDED"
      [] OTHER -> IF Contradicted(c) \/ Conflicting(c) THEN "CONTESTED"
                  ELSE IF Latest(c) = "NONE" THEN "PROPOSED" ELSE Latest(c)

----------------------------------------------------------------------------
(* A claim that has lost its standing, or never had the chance to gain it, *)
(* does not read as validated again, in whatever order assessments and     *)
(* relations of concurrent requests are dated and seen: only a new claim   *)
(* starts over (PHASE_17_CLAIM_LEDGER.md, "the last outcome does not       *)
(* destroy earlier outcomes").                                             *)
TrustIsNotRegained == [][\A c \in Claim :
    ReadsAs(c)' = "VALIDATED" => ReadsAs(c) \in {"PROPOSED", "VALIDATED"}
    ]_ledgerVars

(* Nobody's own word validates a claim: one that reads as validated has    *)
(* only assessments of others, all of them in its favour.                  *)
ValidatedByOthers == \A c \in Claim : ReadsAs(c) = "VALIDATED" =>
    \A i \in 1 .. Len(assessed[c]) :
        assessed[c][i].outcome = "VALIDATED" /\ assessed[c][i].by # claim[c].author

(* Does not hold of the code, see README: claims do not supersede one      *)
(* another in a circle, nor derive from one another ("Claim relationship   *)
(* would create a cycle").                                                 *)
NoCycle == \A c, d \in Claim, k \in Acyclic :
    <<c, d, k>> \in related => ~WouldCycle(c, d, k)
=============================================================================
