------------------------------ MODULE Enrichment ------------------------------
(***************************************************************************)
(* What an incident's evidence means: the techniques it maps to, the risk  *)
(* it scores and the explanations of that score.  Whoever recalculates the *)
(* risk reads the newest match of the incident and adds the rows that are  *)
(* not there yet, in one transaction without locks; whoever asks for an    *)
(* explanation reads the newest assessment, waits for the language model   *)
(* and records what it wrote in a second transaction.                      *)
(*                                                                         *)
(* Source: threat_knowledge/application/service.py, risk/domain/models.py  *)
(* and the unique keys of migration 0014.  A fingerprint is the input it   *)
(* digests; a text is the risk and the techniques it tells of.  The        *)
(* catalogue of techniques comes in releases, one of which is active, each *)
(* with rows of its own for the same techniques: which release a mapping   *)
(* belongs to is part of its fingerprint and not of the risk's.  The       *)
(* mapping rule is active; where a release lacks a technique the request   *)
(* fails.                                                                  *)
(***************************************************************************)
EXTENDS Naturals, Sequences, FiniteSets, SequencesExt

CONSTANTS Match,    \* correlation runs that may come to be the incident's
          Evidence, \* what the members of each are
          Severity, \* the severities the incident is given
          Release,  \* of the ATT&CK catalogue, as they are imported
          Installed, \* the one that was activated first
          Request,
          MaxRequests \* bound on recalculations and explanations

Severities == {"informational", "info", "low", "medium", "high", "critical"}
Selector == {"auth_failure", "auth_success", "privilege_change"}
Members == [count : Nat \ {0}, sources : Nat \ {0}, valid : BOOLEAN,
            selectors : SUBSET Selector]

EnrichmentAssumption ==
    /\ \A m \in Match : Evidence[m] \in Members
    /\ Severity \subseteq Severities /\ "medium" \in Severity
    /\ Installed \in Release
    /\ MaxRequests \in Nat

VARIABLES severity,
          release,     \* the active one of attack_releases
          matches,     \* the incident's matches, in the order of created_at
          mapping,     \* incident_attack_mappings
          assessments, \* risk_assessments, in the order of created_at
          explanation, \* incident_explanations
          request,
          opened

enrichmentVars == <<severity, release, matches, mapping, assessments,
                    explanation, request, opened>>

----------------------------------------------------------------------------
(* assess_risk.                                                            *)

SeverityPoints == [informational |-> 5, info |-> 5, low |-> 15,
                   medium |-> 30, high |-> 45, critical |-> 60]
Corroboration(count) ==
    CASE count = 1 -> 0 [] count = 2 -> 5 [] count = 3 -> 10 [] OTHER -> 15
Diversity(sources) == IF sources >= 2 THEN 10 ELSE 0
Mappings(count) == CASE count = 0 -> 0 [] count = 1 -> 5 [] OTHER -> 10
Quality(valid) == IF valid THEN 5 ELSE 0

RiskInput == [severity : Severities, evidence : Nat \ {0}, sources : Nat \ {0},
              mappings : Nat, valid : BOOLEAN]

Score(input) ==
    SeverityPoints[input.severity] + Corroboration(input.evidence)
    + Diversity(input.sources) + Mappings(input.mappings) + Quality(input.valid)

Band(score) ==
    CASE score <= 19 -> "minimal"
      [] score \in 20 .. 39 -> "low"
      [] score \in 40 .. 59 -> "medium"
      [] score \in 60 .. 79 -> "high"
      [] OTHER -> "critical"

----------------------------------------------------------------------------

\* map_credential_attack: each selector stands for one technique.
Candidates(m) == Evidence[m].selectors

Input(m, s) == [severity |-> s, evidence |-> Evidence[m].count,
                sources |-> Evidence[m].sources,
                mappings |-> Cardinality(Candidates(m)),
                valid |-> Evidence[m].valid]

Assessment == [input : RiskInput, match : Match]

\* deterministic_explanation.
Text(a) == [score |-> Score(a.input), band |-> Band(Score(a.input)),
            techniques |-> Candidates(a.match)]

Idle == [op |-> "none"]
Assessed == ToSet(assessments)

TypeOK ==
    /\ severity \in Severity /\ release \in Release
    /\ IsInjective(matches) /\ ToSet(matches) \subseteq Match
    /\ mapping \subseteq [match : ToSet(matches), release : Release,
                         technique : Selector]
    /\ \A a \in Assessed : a.match \in ToSet(matches)
    /\ \A i, j \in 1 .. Len(assessments) :
          assessments[i].input = assessments[j].input => i = j
    /\ \A e \in explanation : e.of \in Assessed /\ e.mode \in {"DETERMINISTIC", "AI"}
    /\ \A d, e \in explanation : d.of = e.of /\ d.mode = e.mode => d = e
    /\ \A r \in Request : request[r].op \in {"none", "enrich", "explain"}
    /\ opened \in 0 .. MaxRequests

Init ==
    /\ severity = "medium"
    /\ release = Installed
    /\ matches = <<>>
    /\ mapping = {}
    /\ assessments = <<>>
    /\ explanation = {}
    /\ request = [r \in Request |-> Idle]
    /\ opened = 0

\* The correlation attaches another match, an analyst changes the severity,
\* an operator imports or reactivates a release of the catalogue.
Correlate(m) ==
    /\ m \notin ToSet(matches)
    /\ matches' = Append(matches, m)
    /\ UNCHANGED <<severity, release, mapping, assessments, explanation, request,
                   opened>>

SetSeverity(s) ==
    /\ s # severity
    /\ severity' = s
    /\ UNCHANGED <<release, matches, mapping, assessments, explanation, request,
                   opened>>

ActivateRelease(x) ==
    /\ x # release
    /\ release' = x
    /\ UNCHANGED <<severity, matches, mapping, assessments, explanation, request,
                   opened>>

Open(r, read) ==
    /\ request[r] = Idle
    /\ opened < MaxRequests
    /\ request' = [request EXCEPT ![r] = read]
    /\ opened' = opened + 1
    /\ UNCHANGED <<severity, release, matches, mapping, assessments, explanation>>

Close(r) ==
    /\ request' = [request EXCEPT ![r] = Idle]
    /\ UNCHANGED <<severity, release, matches, opened>>

\* A unique key refuses what somebody else inserted first, the release lacks a
\* technique, or a call fails.
Fail(r) ==
    /\ request[r] # Idle
    /\ Close(r)
    /\ UNCHANGED <<mapping, assessments, explanation>>

----------------------------------------------------------------------------
(* Recalculating.                                                          *)

Enrich(r) ==
    /\ matches # <<>>
    /\ Open(r, [op |-> "enrich", match |-> Last(matches), release |-> release,
                severity |-> severity, older |-> Len(assessments)])

\* One mapping per technique of the match, to the technique's row in release x.
Supported(m, x) == {[match |-> m, release |-> x, technique |-> c] :
                       c \in Candidates(m)}

\* Mutant: only the mappings that are not there yet are counted.
Counted_NewOnly(q) == [Input(q.match, q.severity) EXCEPT
    !.mappings = Cardinality(Supported(q.match, q.release) \ mapping)]

\* They are counted whether they were there or not; what the match maps to in
\* another release is not.
Counted(q) == [Input(q.match, q.severity) EXCEPT
    !.mappings = Cardinality(Supported(q.match, q.release))]

\* A row is dated when its transaction starts: it is younger than what was
\* committed by then.
EnrichCommit(r) ==
    LET q == request[r]
        fresh == [input |-> Counted(q), match |-> q.match] IN
    /\ q.op = "enrich"
    /\ mapping' = mapping \cup Supported(q.match, q.release)
    /\ IF \E a \in Assessed : a.input = fresh.input
       THEN UNCHANGED <<assessments, explanation>>
       ELSE /\ \E i \in q.older + 1 .. Len(assessments) + 1 :
                  assessments' = InsertAt(assessments, i, fresh)
            /\ explanation' = explanation \cup
                  {[of |-> fresh, mode |-> "DETERMINISTIC", text |-> Text(fresh)]}
    /\ Close(r)

----------------------------------------------------------------------------
(* Explaining.                                                             *)

Newest == Last(assessments)

Explain(r) ==
    /\ assessments # <<>>
    /\ Open(r, [op |-> "explain", of |-> Newest, text |-> Text(Newest)])

\* Mutant: the text goes to what is newest by then.
Target_Newest(q) == Newest

\* record_ai_redaction files the text under the assessment it was given.
Target(q) == q.of

\* What is there already is kept.
ExplainCommit(r) ==
    LET q == request[r] IN
    /\ q.op = "explain"
    /\ explanation' =
          IF \E e \in explanation : e.of = Target(q) /\ e.mode = "AI"
          THEN explanation
          ELSE explanation \cup {[of |-> Target(q), mode |-> "AI", text |-> q.text]}
    /\ Close(r)
    /\ UNCHANGED <<mapping, assessments>>

Next ==
    \/ \E m \in Match : Correlate(m)
    \/ \E s \in Severity : SetSeverity(s)
    \/ \E x \in Release : ActivateRelease(x)
    \/ \E r \in Request : Enrich(r) \/ EnrichCommit(r) \/ Explain(r)
                          \/ ExplainCommit(r) \/ Fail(r)

Spec == Init /\ [][Next]_enrichmentVars

----------------------------------------------------------------------------
(* An explanation tells of the very assessment it is filed under, though   *)
(* the model answers long after the newest assessment was read and others  *)
(* recalculate meanwhile (grounded=True, record_ai_redaction).             *)
ExplanationsAreGrounded == \A e \in explanation : e.text = Text(e.of)

(* What is shown with a score (get): the mappings of its match, of every   *)
(* release.                                                                *)
Shown(a) == {m \in mapping : m.match = a.match}
ShownOf(a, x) == {m \in Shown(a) : m.release = x}

(* A score counts exactly the mappings of its match in a release, whoever  *)
(* inserted them and whenever: in whatever release the match was mapped at *)
(* all, it was mapped to as many techniques as the score counts.           *)
RiskCountsItsMappings == \A a \in Assessed :
    /\ \E x \in Release : a.input.mappings = Cardinality(ShownOf(a, x))
    /\ \A x \in Release : ShownOf(a, x) # {} =>
                           a.input.mappings = Cardinality(ShownOf(a, x))

(* Does not hold of the code, see README: a score counts all the mappings  *)
(* that are shown with it.  After another release was activated a match    *)
(* that is recalculated gets a second set of mappings, and the assessment, *)
(* whose fingerprint has no release, stays what it was.                    *)
ShownIsCounted == \A a \in Assessed : a.input.mappings = Cardinality(Shown(a))

(* Does not hold of the code, see README: what the model wrote of an       *)
(* assessment that is no longer the newest is discarded (PHASE_19, 11.2).  *)
StaleOutputIsDiscarded == [][\A r \in Request :
    ExplainCommit(r) /\ explanation' # explanation
        => request[r].of = Newest]_enrichmentVars

(* Does not hold of the code, see README: what is shown as the incident's  *)
(* risk is of its newest match once that has been assessed.                *)
NewestMatchIsShown == [][\A r \in Request :
    EnrichCommit(r) => Newest'.match = request[r].match]_enrichmentVars
=============================================================================
