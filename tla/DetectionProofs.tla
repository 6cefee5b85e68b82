---------------------------- MODULE DetectionProofs ----------------------------
(***************************************************************************)
(* What correlation and enrichment keep, proved for any findings, rules,   *)
(* handlers and requests, and for the services of Detection side by side.  *)
(* A handler's open transaction and a request's reading are part of the    *)
(* invariants: what they hold is still good when they commit.              *)
(***************************************************************************)
EXTENDS Detection, GovernedMemoryProofs, SequenceTheorems, FiniteSetTheorems, TLAPS

----------------------------------------------------------------------------
(* Enrichment.                                                             *)

\* What an open request has read.
Reading(q) ==
    \/ q = Enriching!Idle
    \/ /\ q.op = "enrich" /\ q.match \in Enriching!ToSet(matches)
       /\ q.severity \in Severity /\ q.release \in Release
       /\ q.older \in 0 .. Len(assessments)
    \/ /\ q.op = "explain" /\ q.of \in Enriching!Assessed
       /\ q.text = Enriching!Text(q.of)

\* An assessment counts the techniques its match supports, and in some
\* release all of them are on file.
Counts(a) ==
    /\ a.input.mappings = Cardinality(Enriching!Candidates(a.match))
    /\ \E x \in Release : Enriching!Supported(a.match, x) \subseteq mapping

\* Nothing is on file that its match does not support, and what is on file of
\* a match in one release is there as a whole.
Whole(x, rows) ==
    /\ x \in Enriching!Supported(x.match, x.release)
    /\ Enriching!Supported(x.match, x.release) \subseteq rows

EnrichInv ==
    /\ Enriching!TypeOK
    /\ matches \in Seq(Match) /\ assessments \in Seq(Enriching!Assessment)
    /\ enriching = [r \in Request |-> enriching[r]]
    /\ \A r \in Request : Reading(enriching[r])
    /\ Enriching!ExplanationsAreGrounded
    /\ \A a \in Enriching!Assessed : Counts(a)
    /\ \A x \in mapping : Whole(x, mapping)

\* The row e stands at place i of t, between the others of s.
PutIn(S, s, i, e, t) ==
    /\ t \in Seq(S) /\ Len(t) = Len(s) + 1
    /\ \A k \in 1 .. Len(s) + 1 :
          t[k] = IF k < i THEN s[k] ELSE IF k = i THEN e ELSE s[k - 1]

\* InsertAt puts a row among the others and keeps their order.
LEMMA Inserted ==
    ASSUME NEW S, NEW s \in Seq(S), NEW i \in 1 .. Len(s) + 1, NEW e \in S
    PROVE  PutIn(S, s, i, e, Enriching!InsertAt(s, i, e))
<1> DEFINE before == SubSeq(s, 1, i - 1)
           after == SubSeq(s, i, Len(s))
           upto == before \o <<e>>
<1>1. /\ before \in Seq(S) /\ Len(before) = i - 1
      /\ \A k \in 1 .. i - 1 : before[k] = s[k]
  BY SubSeqProperties
<1>2. /\ after \in Seq(S) /\ Len(after) = Len(s) - i + 1
      /\ \A k \in 1 .. Len(s) - i + 1 : after[k] = s[i + k - 1]
  BY SubSeqProperties
<1>3. <<e>> \in Seq(S) /\ Len(<<e>>) = 1 /\ <<e>>[1] = e
  OBVIOUS
<1> HIDE DEF before, after
<1>4. /\ upto \in Seq(S) /\ Len(upto) = i
      /\ \A k \in 1 .. i : upto[k] = IF k < i THEN s[k] ELSE e
  BY <1>1, <1>3
<1> HIDE DEF upto
<1>5. /\ upto \o after \in Seq(S) /\ Len(upto \o after) = Len(s) + 1
      /\ \A k \in 1 .. Len(s) + 1 :
            (upto \o after)[k] = IF k <= i THEN upto[k] ELSE after[k - i]
  <2>1. Len(upto) + Len(after) = Len(s) + 1
    BY <1>2, <1>4
  <2> QED
    BY <1>2, <1>4, <2>1, ConcatProperties
<1> DEFINE all == upto \o after
<1>6. Enriching!InsertAt(s, i, e) = all
  BY DEF Enriching!InsertAt, upto, before, after
<1>7. \A k \in 1 .. Len(s) + 1 : all[k] = IF k <= i THEN upto[k] ELSE after[k - i]
  BY <1>5
<1> HIDE DEF all
<1>8. Len(s) \in Nat /\ i \in Nat
  OBVIOUS
<1>9. ASSUME NEW k \in 1 .. Len(s) + 1
      PROVE  all[k] = IF k < i THEN s[k] ELSE IF k = i THEN e ELSE s[k - 1]
  <2>1. CASE k <= i
    <3>1. k \in 1 .. i
      BY <1>8, <2>1
    <3>2. all[k] = upto[k] /\ upto[k] = IF k < i THEN s[k] ELSE e
      BY <1>4, <1>7, <2>1, <3>1
    <3> QED
      BY <1>8, <2>1, <3>2
  <2>2. CASE ~(k <= i)
    <3>1. k - i \in 1 .. Len(s) - i + 1 /\ i + (k - i) - 1 = k - 1
      BY <1>8, <2>2
    <3>2. all[k] = after[k - i] /\ after[k - i] = s[i + (k - i) - 1]
      BY <1>2, <1>7, <2>2, <3>1
    <3> QED
      BY <1>8, <2>2, <3>1, <3>2
  <2> QED
    BY <2>1, <2>2
<1>10. all \in Seq(S) /\ Len(all) = Len(s) + 1
  BY <1>5 DEF all
<1> QED
  BY <1>6, <1>9, <1>10 DEF PutIn

LEMMA InsertedLen ==
    ASSUME NEW S, NEW s \in Seq(S), NEW i \in 1 .. Len(s) + 1, NEW e \in S
    PROVE  /\ Enriching!InsertAt(s, i, e) \in Seq(S)
           /\ Len(Enriching!InsertAt(s, i, e)) = Len(s) + 1
<1>a. PutIn(S, s, i, e, Enriching!InsertAt(s, i, e))
  BY Inserted
<1> QED
  BY <1>a DEF PutIn

\* Its rows are those that were there and the one put in.
LEMMA InsertedRows ==
    ASSUME NEW S, NEW s \in Seq(S), NEW i \in 1 .. Len(s) + 1, NEW e \in S
    PROVE  Enriching!ToSet(Enriching!InsertAt(s, i, e)) = Enriching!ToSet(s) \cup {e}
<1>0. /\ Enriching!InsertAt(s, i, e) \in Seq(S)
      /\ Len(Enriching!InsertAt(s, i, e)) = Len(s) + 1
  BY InsertedLen
<1>a. PutIn(S, s, i, e, Enriching!InsertAt(s, i, e))
  BY Inserted
<1>1. ASSUME NEW k \in 1 .. Len(s) + 1
      PROVE  Enriching!InsertAt(s, i, e)[k] =
                IF k < i THEN s[k] ELSE IF k = i THEN e ELSE s[k - 1]
  BY <1>a DEF PutIn
<1>2. PICK t : t = Enriching!InsertAt(s, i, e)
  OBVIOUS
<1>3. /\ Len(s) \in Nat /\ Len(t) = Len(s) + 1
      /\ \A k \in 1 .. Len(s) + 1 :
            t[k] = IF k < i THEN s[k] ELSE IF k = i THEN e ELSE s[k - 1]
  BY <1>0, <1>1, <1>2
<1>4. ASSUME NEW k \in 1 .. Len(t) PROVE t[k] \in Enriching!ToSet(s) \cup {e}
  <2>1. CASE k < i
    BY <1>3, <2>1 DEF Enriching!ToSet
  <2>2. CASE k = i
    BY <1>3, <2>2
  <2>3. CASE k > i
    <3>1. k - 1 \in 1 .. Len(s) /\ t[k] = s[k - 1]
      BY <1>3, <2>3
    <3> QED
      BY <3>1 DEF Enriching!ToSet
  <2> QED
    BY <1>3, <2>1, <2>2, <2>3
<1>5. ASSUME NEW j \in 1 .. Len(s) PROVE s[j] \in Enriching!ToSet(t)
  <2>1. CASE j < i
    BY <1>3, <2>1 DEF Enriching!ToSet
  <2>2. CASE j >= i
    <3>1. j + 1 \in 1 .. Len(t) /\ t[j + 1] = s[j]
      BY <1>3, <2>2
    <3> QED
      BY <3>1 DEF Enriching!ToSet
  <2> QED
    BY <1>3, <2>1, <2>2
<1>6. e \in Enriching!ToSet(t)
  BY <1>3 DEF Enriching!ToSet
<1>7. Enriching!ToSet(t) = Enriching!ToSet(s) \cup {e}
  BY <1>4, <1>5, <1>6 DEF Enriching!ToSet
<1> QED
  BY <1>2, <1>7

\* The enrichment counts as everyone does, and what it counts is finite.
LEMMA EnrichingCounts == ASSUME NEW O PROVE Enriching!Cardinality(O) = Cardinality(O)
BY DEF Cardinality, Enriching!Cardinality

LEMMA CandidatesAreFinite ==
    ASSUME DetectionAssumption, NEW m \in Match
    PROVE  IsFiniteSet(Enriching!Candidates(m))
<1> DEFINE All == (({} \cup {"auth_failure"}) \cup {"auth_success"})
                  \cup {"privilege_change"}
<1>1. IsFiniteSet(All)
  <2>1. IsFiniteSet({} \cup {"auth_failure"})
    BY FS_EmptySet, FS_AddElement
  <2>2. IsFiniteSet(({} \cup {"auth_failure"}) \cup {"auth_success"})
    BY <2>1, FS_AddElement
  <2> QED
    BY <2>2, FS_AddElement
<1>2. Enriching!Candidates(m) \in SUBSET All
  BY DetectionAssumption DEF Enriching!EnrichmentAssumption, Enriching!Members,
     Enriching!Candidates, Enriching!Selector
<1> QED
  BY <1>1, <1>2, FS_Subset

\* In every release a match maps to as many rows as it supports techniques.
LEMMA SupportedCount ==
    ASSUME DetectionAssumption, NEW m \in Match, NEW x
    PROVE  /\ Cardinality(Enriching!Candidates(m)) \in Nat
           /\ Cardinality(Enriching!Supported(m, x)) = Cardinality(Enriching!Candidates(m))
<1> DEFINE C == Enriching!Candidates(m)
           T == Enriching!Supported(m, x)
           Of(c) == [match |-> m, release |-> x, technique |-> c]
           f == [c \in C |-> Of(c)]
<1>1. IsFiniteSet(C)
  BY CandidatesAreFinite
<1>2. T = {Of(c) : c \in C}
  BY DEF Enriching!Supported
<1>3. \A c, d : Of(c) = Of(d) => c = d
  <2>1. \A c : Of(c).technique = c
    OBVIOUS
  <2> HIDE DEF Of
  <2> QED
    BY <2>1
<1> HIDE DEF C, T, Of
<1>4. f \in Bijection(C, T)
  BY <1>2, <1>3 DEF Bijection, Injection, Surjection, IsInjective
<1>5. ExistsBijection(C, T)
  BY <1>4 DEF ExistsBijection
<1>6. Cardinality(T) = Cardinality(C) /\ Cardinality(C) \in Nat
  BY <1>1, <1>5, FS_Bijection, FS_CardinalityType
<1> QED
  BY <1>6 DEF C, T

LEMMA EnrichInit ==
    ASSUME DetectionAssumption, Enriching!Init
    PROVE  EnrichInv
<1>1. Enriching!Assessed = {} /\ Enriching!ToSet(matches) = {}
  BY DEF Enriching!Init, Enriching!Assessed, Enriching!ToSet
<1>2. Enriching!TypeOK
  BY <1>1, DetectionAssumption DEF Enriching!Init, Enriching!TypeOK, Enriching!Idle,
     Enriching!EnrichmentAssumption, Enriching!IsInjective
<1> QED
  BY <1>1, <1>2 DEF Enriching!Init, EnrichInv, Reading, Enriching!ExplanationsAreGrounded

\* What was read stays good while matches and assessments only grow.
LEMMA ReadingKept ==
    ASSUME NEW q, Reading(q),
           Enriching!ToSet(matches) \subseteq Enriching!ToSet(matches)',
           Enriching!Assessed \subseteq Enriching!Assessed',
           Len(assessments) \in Nat, Len(assessments') \in Nat,
           Len(assessments) <= Len(assessments')
    PROVE  Reading(q)'
<1>1. CASE q = Enriching!Idle
  BY <1>1 DEF Reading, Enriching!Idle
<1>2. CASE q.op = "enrich" /\ q.match \in Enriching!ToSet(matches)
           /\ q.severity \in Severity /\ q.release \in Release
           /\ q.older \in 0 .. Len(assessments)
  BY <1>2 DEF Reading
<1>3. CASE q.op = "explain" /\ q.of \in Enriching!Assessed
           /\ q.text = Enriching!Text(q.of)
  BY <1>3 DEF Reading, Enriching!Text, Enriching!Score, Enriching!Candidates
<1> QED
  BY <1>1, <1>2, <1>3 DEF Reading

\* A request that opens or closes, a new severity or another release: the rows
\* rest.
LEMMA RowsRest ==
    ASSUME EnrichInv, UNCHANGED <<matches, mapping, assessments>>,
           severity' \in Severity, release' \in Release,
           enriched' \in 0 .. MaxRequests,
           enriching' = [r \in Request |-> enriching'[r]],
           \A r \in Request : Reading(enriching'[r]),
           explanation' = explanation \/ \E e : /\ explanation' = explanation \cup {e}
                                                /\ e.of \in Enriching!Assessed
                                                /\ e.mode = "AI"
                                                /\ e.text = Enriching!Text(e.of)
                                                /\ \A d \in explanation :
                                                      ~(d.of = e.of /\ d.mode = "AI")
    PROVE  EnrichInv'
<1>1. /\ Enriching!Assessed' = Enriching!Assessed
      /\ Enriching!ToSet(matches)' = Enriching!ToSet(matches)
      /\ Len(assessments') = Len(assessments) /\ Len(assessments) \in Nat
  BY DEF Enriching!Assessed, EnrichInv
<1>2. ASSUME NEW r \in Request
      PROVE  Reading(enriching[r])' /\ enriching'[r].op \in {"none", "enrich", "explain"}
  <2>1. PICK q : q = enriching'[r]
    OBVIOUS
  <2>2. Reading(q)
    BY <2>1
  <2>3. Reading(q)'
    BY <1>1, <2>2, ReadingKept
  <2> QED
    BY <2>1, <2>2, <2>3 DEF Reading, Enriching!Idle
<1>3. /\ Enriching!IsInjective(matches') /\ Enriching!ToSet(matches)' \subseteq Match
      /\ mapping' \subseteq [match : Enriching!ToSet(matches)', release : Release,
                             technique : Enriching!Selector]
      /\ \A a \in Enriching!Assessed' : a.match \in Enriching!ToSet(matches)'
      /\ \A i, j \in 1 .. Len(assessments') :
            assessments'[i].input = assessments'[j].input => i = j
  BY <1>1 DEF EnrichInv, Enriching!TypeOK
<1>4. /\ \A e \in explanation' : e.of \in Enriching!Assessed' /\ e.mode \in {"DETERMINISTIC", "AI"}
      /\ \A d, e \in explanation' : d.of = e.of /\ d.mode = e.mode => d = e
      /\ \A e \in explanation' : e.text = Enriching!Text(e.of)
  BY <1>1 DEF EnrichInv, Enriching!TypeOK, Enriching!ExplanationsAreGrounded
<1>5. Enriching!TypeOK' /\ Enriching!ExplanationsAreGrounded'
  BY <1>2, <1>3, <1>4 DEF Enriching!TypeOK, Enriching!ExplanationsAreGrounded,
     Enriching!Text, Enriching!Score, Enriching!Candidates
<1>6. \A a \in Enriching!Assessed' : Counts(a)'
  BY <1>1 DEF EnrichInv, Counts, Enriching!Supported, Enriching!Candidates
<1>7. \A x \in mapping' : Whole(x, mapping')
  BY DEF EnrichInv
<1> QED
  BY <1>1, <1>2, <1>5, <1>6, <1>7
     DEF EnrichInv, Whole, Enriching!Supported, Enriching!Candidates

LEMMA OneReading ==
    ASSUME EnrichInv, NEW r \in Request, NEW to, Reading(to),
           enriching' = [enriching EXCEPT ![r] = to]
    PROVE  /\ enriching' = [s \in Request |-> enriching'[s]]
           /\ \A s \in Request : Reading(enriching'[s])
<1>1. enriching' = [s \in Request |-> IF s = r THEN to ELSE enriching[s]]
  BY DEF EnrichInv
<1> QED
  BY <1>1 DEF EnrichInv

\* Everything but a new match and a recalculation leaves the rows as they are.
LEMMA QuietStep ==
    ASSUME DetectionAssumption, EnrichInv,
           \/ \E s \in Severity : Enriching!SetSeverity(s)
           \/ \E x \in Release : Enriching!ActivateRelease(x)
           \/ \E r \in Request : \/ Enriching!Enrich(r) \/ Enriching!Explain(r)
                                 \/ Enriching!ExplainCommit(r) \/ Enriching!Fail(r)
    PROVE  EnrichInv'
<1>0. /\ severity \in Severity /\ release \in Release
      /\ enriched \in 0 .. MaxRequests /\ MaxRequests \in Nat
      /\ enriching = [r \in Request |-> enriching[r]]
      /\ \A r \in Request : Reading(enriching[r])
      /\ assessments \in Seq(Enriching!Assessment) /\ matches \in Seq(Match)
  BY DetectionAssumption DEF EnrichInv, Enriching!TypeOK, Enriching!EnrichmentAssumption
<1>1. ASSUME NEW s \in Severity, Enriching!SetSeverity(s) PROVE EnrichInv'
  BY <1>0, <1>1, RowsRest DEF Enriching!SetSeverity
<1>a. ASSUME NEW x \in Release, Enriching!ActivateRelease(x) PROVE EnrichInv'
  BY <1>0, <1>a, RowsRest DEF Enriching!ActivateRelease
<1>2. ASSUME NEW r \in Request, NEW read, Reading(read), Enriching!Open(r, read)
      PROVE  EnrichInv'
  BY <1>0, <1>2, OneReading, RowsRest DEF Enriching!Open
<1>3. ASSUME NEW r \in Request, Enriching!Enrich(r) PROVE EnrichInv'
  <2> DEFINE read == [op |-> "enrich", match |-> Enriching!Last(matches),
                      release |-> release, severity |-> severity,
                      older |-> Len(assessments)]
  <2>1. Enriching!Open(r, read) /\ matches # <<>>
    BY <1>3 DEF Enriching!Enrich
  <2>2. Enriching!Last(matches) \in Enriching!ToSet(matches)
    BY <1>0, <2>1 DEF Enriching!Last, Enriching!ToSet
  <2>3. Reading(read)
    BY <1>0, <2>2 DEF Reading
  <2> HIDE DEF read
  <2> QED
    BY <1>2, <2>1, <2>3
<1>4. ASSUME NEW r \in Request, Enriching!Explain(r) PROVE EnrichInv'
  <2> DEFINE read == [op |-> "explain", of |-> Enriching!Newest,
                      text |-> Enriching!Text(Enriching!Newest)]
  <2>1. Enriching!Open(r, read) /\ assessments # <<>>
    BY <1>4 DEF Enriching!Explain
  <2>2. Enriching!Newest \in Enriching!Assessed
    BY <1>0, <2>1 DEF Enriching!Newest, Enriching!Last, Enriching!Assessed, Enriching!ToSet
  <2>3. Reading(read)
    BY <2>2 DEF Reading
  <2> HIDE DEF read
  <2> QED
    BY <1>2, <2>1, <2>3
<1>5. ASSUME NEW r \in Request, Enriching!Close(r),
             UNCHANGED <<mapping, assessments>>
      PROVE  /\ UNCHANGED <<matches, mapping, assessments, severity, release, enriched>>
             /\ enriching' = [s \in Request |-> enriching'[s]]
             /\ \A s \in Request : Reading(enriching'[s])
  <2>1. Reading(Enriching!Idle)
    BY DEF Reading
  <2> QED
    BY <1>5, <2>1, OneReading DEF Enriching!Close
<1>6. ASSUME NEW r \in Request, Enriching!Fail(r) PROVE EnrichInv'
  BY <1>0, <1>5, <1>6, RowsRest DEF Enriching!Fail
<1>7. ASSUME NEW r \in Request, Enriching!ExplainCommit(r) PROVE EnrichInv'
  <2> DEFINE q == enriching[r]
             e == [of |-> q.of, mode |-> "AI", text |-> q.text]
  <2>1. /\ q.op = "explain" /\ Enriching!Close(r) /\ UNCHANGED <<mapping, assessments>>
        /\ explanation' = IF \E d \in explanation : d.of = q.of /\ d.mode = "AI"
                          THEN explanation ELSE explanation \cup {e}
    BY <1>7 DEF Enriching!ExplainCommit, Enriching!Target
  <2>2. q.of \in Enriching!Assessed /\ q.text = Enriching!Text(q.of)
    BY <1>0, <2>1 DEF Reading, Enriching!Idle
  <2>3. \/ explanation' = explanation
        \/ /\ explanation' = explanation \cup {e}
           /\ \A d \in explanation : ~(d.of = e.of /\ d.mode = "AI")
    BY <2>1
  <2>4. e.of = q.of /\ e.mode = "AI" /\ e.text = q.text
    OBVIOUS
  <2>5. explanation' = explanation \/ \E x : /\ explanation' = explanation \cup {x}
                                             /\ x.of \in Enriching!Assessed
                                             /\ x.mode = "AI"
                                             /\ x.text = Enriching!Text(x.of)
                                             /\ \A d \in explanation :
                                                   ~(d.of = x.of /\ d.mode = "AI")
    <3> HIDE DEF e, q
    <3> QED
      BY <2>2, <2>3, <2>4
  <2> QED
    BY <1>0, <1>5, <2>1, <2>5, RowsRest
<1> QED
  BY <1>1, <1>a, <1>3, <1>4, <1>6, <1>7

\* Another match of the incident.
LEMMA CorrelateStep ==
    ASSUME EnrichInv, NEW m \in Match, Enriching!Correlate(m)
    PROVE  EnrichInv'
<1>1. /\ matches \in Seq(Match) /\ m \notin Enriching!ToSet(matches)
      /\ Enriching!IsInjective(matches)
      /\ matches' = Append(matches, m)
      /\ UNCHANGED <<severity, release, mapping, assessments, explanation, enriching,
                     enriched>>
  BY DEF EnrichInv, Enriching!TypeOK, Enriching!Correlate
<1>2. /\ matches' \in Seq(Match) /\ Len(matches') = Len(matches) + 1
      /\ \A k \in 1 .. Len(matches) : matches'[k] = matches[k]
      /\ matches'[Len(matches) + 1] = m
  BY <1>1, AppendProperties
<1>3. /\ Len(matches) \in Nat
      /\ \A k \in 1 .. Len(matches) : matches[k] # m
      /\ \A k, l \in 1 .. Len(matches) : matches[k] = matches[l] => k = l
      /\ DOMAIN matches = 1 .. Len(matches)
  BY <1>1 DEF Enriching!ToSet, Enriching!IsInjective
<1>4. Enriching!IsInjective(matches')
  <2>1. ASSUME NEW k \in 1 .. Len(matches) + 1, NEW l \in 1 .. Len(matches) + 1,
               matches'[k] = matches'[l]
        PROVE  k = l
    BY <1>2, <1>3, <2>1
  <2>2. DOMAIN matches' = 1 .. Len(matches) + 1
    BY <1>2
  <2> QED
    BY <2>1, <2>2 DEF Enriching!IsInjective
<1>5. /\ Enriching!ToSet(matches) \subseteq Enriching!ToSet(matches)'
      /\ Enriching!ToSet(matches)' \subseteq Match
  <2>1. DOMAIN matches' = 1 .. Len(matches) + 1
    BY <1>2
  <2>2. ASSUME NEW k \in 1 .. Len(matches) PROVE matches[k] \in Enriching!ToSet(matches)'
    <3>1. k \in DOMAIN matches' /\ matches'[k] = matches[k]
      BY <1>2, <1>3, <2>1
    <3> QED
      BY <3>1 DEF Enriching!ToSet
  <2>3. ASSUME NEW k \in 1 .. Len(matches) + 1 PROVE matches'[k] \in Match
    BY <1>2, <2>3
  <2> QED
    BY <1>3, <2>1, <2>2, <2>3 DEF Enriching!ToSet
<1>6. /\ UNCHANGED Enriching!Assessed
      /\ Len(assessments) \in Nat /\ Len(assessments') = Len(assessments)
  BY <1>1 DEF EnrichInv, Enriching!Assessed
<1>7. ASSUME NEW r \in Request PROVE Reading(enriching[r])'
  <2>1. PICK q : q = enriching[r]
    OBVIOUS
  <2>2. Reading(q)'
    BY <1>5, <1>6, <2>1, ReadingKept DEF EnrichInv
  <2> QED
    BY <1>1, <2>1, <2>2
<1>8. Enriching!TypeOK'
  BY <1>1, <1>4, <1>5, <1>6 DEF EnrichInv, Enriching!TypeOK
<1>9. \A a \in Enriching!Assessed' : Counts(a)'
  BY <1>1, <1>6 DEF EnrichInv, Counts, Enriching!Supported, Enriching!Candidates
<1> QED
  BY <1>1, <1>2, <1>7, <1>8, <1>9 DEF EnrichInv, Enriching!ExplanationsAreGrounded, Whole,
     Enriching!Text, Enriching!Score, Enriching!Candidates, Enriching!Supported

\* Rows whose inputs differ still do when one with another input is put in.
LEMMA InsertedApart ==
    ASSUME NEW S, NEW s \in Seq(S), NEW i \in 1 .. Len(s) + 1, NEW e \in S,
           \A k, l \in 1 .. Len(s) : s[k].input = s[l].input => k = l,
           \A k \in 1 .. Len(s) : s[k].input # e.input,
           NEW t, t = Enriching!InsertAt(s, i, e)
    PROVE  \A k, l \in 1 .. Len(t) : t[k].input = t[l].input => k = l
<1>1. Len(s) \in Nat /\ Len(t) = Len(s) + 1
  BY InsertedLen
<1>2. ASSUME NEW k \in 1 .. Len(t)
      PROVE  t[k] = IF k < i THEN s[k] ELSE IF k = i THEN e ELSE s[k - 1]
  <2>a. PutIn(S, s, i, e, t)
    BY Inserted
  <2>1. \A n \in 1 .. Len(s) + 1 :
           t[n] = IF n < i THEN s[n] ELSE IF n = i THEN e ELSE s[n - 1]
    BY <2>a DEF PutIn
  <2>2. k \in 1 .. Len(s) + 1
    BY <1>1
  <2> QED
    BY <2>1, <2>2
<1> DEFINE place(k) == IF k < i THEN k ELSE k - 1
<1>3. ASSUME NEW k \in 1 .. Len(t), k # i
      PROVE  place(k) \in 1 .. Len(s) /\ t[k] = s[place(k)]
  BY <1>1, <1>2, <1>3
<1>4. ASSUME NEW k \in 1 .. Len(t), NEW l \in 1 .. Len(t), t[k].input = t[l].input
      PROVE  k = l
  <2>1. CASE k = i /\ l = i
    BY <2>1
  <2>2. CASE k = i /\ l # i
    <3>1. t[k] = e
      BY <1>1, <1>2, <2>2
    <3>2. t[l] = s[place(l)] /\ place(l) \in 1 .. Len(s)
      BY <1>3, <2>2
    <3> HIDE DEF place
    <3> QED
      BY <1>4, <3>1, <3>2
  <2>3. CASE k # i /\ l = i
    <3>1. t[l] = e
      BY <1>1, <1>2, <2>3
    <3>2. t[k] = s[place(k)] /\ place(k) \in 1 .. Len(s)
      BY <1>3, <2>3
    <3> HIDE DEF place
    <3> QED
      BY <1>4, <3>1, <3>2
  <2>4. CASE k # i /\ l # i
    <3>1. place(k) = place(l)
      <4>1. /\ place(k) \in 1 .. Len(s) /\ place(l) \in 1 .. Len(s)
            /\ s[place(k)].input = s[place(l)].input
        BY <1>3, <1>4, <2>4
      <4> HIDE DEF place
      <4> QED
        BY <4>1
    <3> QED
      BY <1>1, <2>4, <3>1
  <2> QED
    BY <2>1, <2>2, <2>3, <2>4
<1> QED
  BY <1>4

\* The row of a recalculation counts what its match supports.
LEMMA FreshRow ==
    ASSUME DetectionAssumption, EnrichInv, NEW r \in Request, enriching[r].op = "enrich"
    PROVE  LET q == enriching[r]
               fresh == [input |-> Enriching!Counted(q), match |-> q.match] IN
           /\ q.match \in Match /\ q.match \in Enriching!ToSet(matches)
           /\ q.older \in 0 .. Len(assessments)
           /\ fresh \in Enriching!Assessment
           /\ q.release \in Release
           /\ fresh.input.mappings = Cardinality(Enriching!Candidates(q.match))
           /\ Enriching!Supported(q.match, q.release)
                 \subseteq [match : {q.match}, release : {q.release},
                            technique : Enriching!Selector]
<1> DEFINE q == enriching[r]
           N == Cardinality(Enriching!Candidates(q.match))
<1>1. /\ q.match \in Match /\ q.match \in Enriching!ToSet(matches)
      /\ q.release \in Release
      /\ q.severity \in Enriching!Severities /\ q.older \in 0 .. Len(assessments)
      /\ Evidence[q.match] \in Enriching!Members
  BY DetectionAssumption DEF EnrichInv, Reading, Enriching!TypeOK, Enriching!Idle,
     Enriching!EnrichmentAssumption
<1>2. N \in Nat
  BY <1>1, SupportedCount
<1>3. Enriching!Counted(q) = [Enriching!Input(q.match, q.severity) EXCEPT !.mappings = N]
  BY <1>1, EnrichingCounts, SupportedCount DEF Enriching!Counted
<1> HIDE DEF N
<1>4. /\ Enriching!Counted(q) \in Enriching!RiskInput
      /\ Enriching!Counted(q).mappings = N
  BY <1>1, <1>2, <1>3 DEF Enriching!Input, Enriching!RiskInput, Enriching!Members
<1>5. Enriching!Supported(q.match, q.release)
         \subseteq [match : {q.match}, release : {q.release}, technique : Enriching!Selector]
  BY <1>1 DEF Enriching!Supported, Enriching!Candidates, Enriching!Members
<1> QED
  BY <1>1, <1>4, <1>5 DEF N, Enriching!Assessment

LEMMA EnrichCommitStep ==
    ASSUME DetectionAssumption, EnrichInv, NEW r \in Request, Enriching!EnrichCommit(r)
    PROVE  EnrichInv'
<1> DEFINE q == enriching[r]
           fresh == [input |-> Enriching!Counted(q), match |-> q.match]
           text == [of |-> fresh, mode |-> "DETERMINISTIC", text |-> Enriching!Text(fresh)]
<1>1. /\ q.op = "enrich" /\ mapping' = mapping \cup Enriching!Supported(q.match, q.release)
      /\ enriching' = [enriching EXCEPT ![r] = Enriching!Idle]
      /\ UNCHANGED <<severity, release, matches, enriched>>
  BY DEF Enriching!EnrichCommit, Enriching!Close
<1>2. /\ Enriching!TypeOK /\ matches \in Seq(Match)
      /\ assessments \in Seq(Enriching!Assessment) /\ Len(assessments) \in Nat
      /\ \A a \in Enriching!Assessed : Counts(a)
      /\ \A x \in mapping : Whole(x, mapping)
  BY DEF EnrichInv
<1>3. /\ q.match \in Match /\ q.match \in Enriching!ToSet(matches)
      /\ q.release \in Release /\ q.older \in 0 .. Len(assessments)
      /\ fresh \in Enriching!Assessment
      /\ fresh.input.mappings = Cardinality(Enriching!Candidates(q.match))
      /\ fresh.match = q.match
      /\ Enriching!Supported(q.match, q.release)
            \subseteq [match : {q.match}, release : {q.release},
                       technique : Enriching!Selector]
  BY <1>1, FreshRow
<1>4. \/ /\ UNCHANGED <<assessments, explanation>>
         /\ Enriching!Assessed' = Enriching!Assessed
      \/ /\ \A a \in Enriching!Assessed : a.input # fresh.input
         /\ assessments' \in Seq(Enriching!Assessment)
         /\ Len(assessments') = Len(assessments) + 1
         /\ Enriching!Assessed' = Enriching!Assessed \cup {fresh}
         /\ \A i, j \in 1 .. Len(assessments') :
               assessments'[i].input = assessments'[j].input => i = j
         /\ explanation' = explanation \cup {text}
  <2>1. CASE \E a \in Enriching!Assessed : a.input = fresh.input
    BY <2>1 DEF Enriching!EnrichCommit, Enriching!Assessed
  <2>2. CASE \A a \in Enriching!Assessed : a.input # fresh.input
    <3>1. /\ \E i \in q.older + 1 .. Len(assessments) + 1 :
                assessments' = Enriching!InsertAt(assessments, i, fresh)
          /\ explanation' = explanation \cup {text}
      BY <2>2 DEF Enriching!EnrichCommit
    <3> HIDE DEF fresh, q, text
    <3>2. PICK i \in 1 .. Len(assessments) + 1 :
              assessments' = Enriching!InsertAt(assessments, i, fresh)
      BY <1>2, <1>3, <3>1
    <3>3. /\ assessments' \in Seq(Enriching!Assessment)
          /\ Len(assessments') = Len(assessments) + 1
      BY <1>2, <1>3, <3>2, InsertedLen
    <3>4. Enriching!Assessed' = Enriching!Assessed \cup {fresh}
      BY <1>2, <1>3, <3>2, InsertedRows DEF Enriching!Assessed
    <3>5. \A k \in 1 .. Len(assessments) : assessments[k].input # fresh.input
      BY <1>2, <2>2 DEF Enriching!Assessed, Enriching!ToSet
    <3>6. \A k, l \in 1 .. Len(assessments) :
             assessments[k].input = assessments[l].input => k = l
      BY <1>2 DEF Enriching!TypeOK
    <3>7. \A k, l \in 1 .. Len(assessments') :
             assessments'[k].input = assessments'[l].input => k = l
      <4>1. PICK s : s = assessments
        OBVIOUS
      <4>2. PICK t : t = assessments'
        OBVIOUS
      <4>3. /\ s \in Seq(Enriching!Assessment) /\ i \in 1 .. Len(s) + 1
            /\ fresh \in Enriching!Assessment
            /\ t = Enriching!InsertAt(s, i, fresh)
        BY <1>2, <1>3, <3>2, <4>1, <4>2
      <4>4. \A k, l \in 1 .. Len(s) : s[k].input = s[l].input => k = l
        BY <3>6, <4>1
      <4>5. \A k \in 1 .. Len(s) : s[k].input # fresh.input
        BY <3>5, <4>1
      <4>6. \A k, l \in 1 .. Len(t) : t[k].input = t[l].input => k = l
        <5>1. PICK e : e = fresh
          OBVIOUS
        <5> QED
          BY <4>3, <4>4, <4>5, <5>1, InsertedApart
      <4> QED
        BY <4>2, <4>6
    <3> QED
      BY <2>2, <3>1, <3>3, <3>4, <3>7
  <2> QED
    BY <2>1, <2>2
<1> HIDE DEF fresh, q
<1>5. /\ Enriching!Assessed \subseteq Enriching!Assessed'
      /\ Enriching!Assessed' \subseteq Enriching!Assessed \cup {fresh}
      /\ assessments' \in Seq(Enriching!Assessment)
      /\ Len(assessments') \in Nat /\ Len(assessments) <= Len(assessments')
  BY <1>2, <1>4
<1>6. \A s \in Request : Reading(enriching[s])'
  <2>1. Reading(Enriching!Idle)
    BY DEF Reading
  <2>2. enriching' = [s \in Request |-> enriching'[s]] /\ \A s \in Request : Reading(enriching'[s])
    BY <1>1, <2>1, OneReading
  <2>3. UNCHANGED Enriching!ToSet(matches)
    BY <1>1
  <2>4. ASSUME NEW s \in Request PROVE Reading(enriching[s])'
    <3>1. PICK p : p = enriching'[s]
      OBVIOUS
    <3>2. Reading(p)'
      BY <1>2, <1>5, <2>2, <2>3, <3>1, ReadingKept
    <3> QED
      BY <3>1, <3>2
  <2> QED
    BY <2>4
<1>7. \A a \in Enriching!Assessed' : Counts(a)' /\ a.match \in Enriching!ToSet(matches)'
  <2>1. ASSUME NEW a \in Enriching!Assessed PROVE Counts(a)' /\ a.match \in Enriching!ToSet(matches)'
    BY <1>1, <1>2, <2>1 DEF Counts, Enriching!TypeOK, Enriching!Supported, Enriching!Candidates
  <2>2. \E x \in Release : Enriching!Supported(fresh.match, x) \subseteq mapping'
    BY <1>1, <1>3
  <2> QED
    BY <1>1, <1>3, <1>5, <2>1, <2>2 DEF Counts, Enriching!Supported, Enriching!Candidates
<1>8. ASSUME NEW x \in mapping'
      PROVE  /\ Whole(x, mapping')
             /\ x \in [match : Enriching!ToSet(matches)', release : Release,
                       technique : Enriching!Selector]
  <2>1. CASE x \in mapping
    BY <1>1, <1>2, <2>1 DEF Enriching!TypeOK, Whole
  <2>2. CASE x \in Enriching!Supported(q.match, q.release)
    <3>1. /\ x.match = q.match /\ x.release = q.release
          /\ x \in [match : {q.match}, release : {q.release}, technique : Enriching!Selector]
      BY <1>3, <2>2
    <3> QED
      BY <1>1, <1>3, <2>2, <3>1 DEF Whole
  <2> QED
    BY <1>1, <2>1, <2>2
<1>9. /\ \A e \in explanation' : /\ e.of \in Enriching!Assessed'
                                 /\ e.mode \in {"DETERMINISTIC", "AI"}
                                 /\ e.text = Enriching!Text(e.of)
      /\ \A d, e \in explanation' : d.of = e.of /\ d.mode = e.mode => d = e
  <2>1. /\ \A e \in explanation : /\ e.of \in Enriching!Assessed
                                  /\ e.mode \in {"DETERMINISTIC", "AI"}
                                  /\ e.text = Enriching!Text(e.of)
        /\ \A d, e \in explanation : d.of = e.of /\ d.mode = e.mode => d = e
    BY DEF EnrichInv, Enriching!TypeOK, Enriching!ExplanationsAreGrounded
  <2>2. text.of = fresh /\ text.mode = "DETERMINISTIC" /\ text.text = Enriching!Text(fresh)
    OBVIOUS
  <2>3. CASE UNCHANGED explanation
    BY <1>5, <2>1, <2>3
  <2>4. CASE /\ explanation' = explanation \cup {text} /\ fresh \in Enriching!Assessed'
             /\ fresh \notin Enriching!Assessed
    <3> HIDE DEF text
    <3> QED
      BY <1>5, <2>1, <2>2, <2>4
  <2> QED
    BY <1>4, <2>3, <2>4
<1>10. Enriching!TypeOK'
  <2>1. \A i, j \in 1 .. Len(assessments') :
           assessments'[i].input = assessments'[j].input => i = j
    BY <1>2, <1>4 DEF Enriching!TypeOK
  <2>2. \A s \in Request : enriching'[s].op \in {"none", "enrich", "explain"}
    BY <1>6 DEF Reading, Enriching!Idle
  <2> QED
    BY <1>1, <1>2, <1>7, <1>8, <1>9, <2>1, <2>2 DEF Enriching!TypeOK
<1>11. /\ matches' \in Seq(Match)
       /\ enriching' = [s \in Request |-> enriching'[s]]
  BY <1>1, <1>2 DEF EnrichInv
<1> QED
  BY <1>5, <1>6, <1>7, <1>8, <1>9, <1>10, <1>11
     DEF EnrichInv, Enriching!ExplanationsAreGrounded, Enriching!Text, Enriching!Score,
         Enriching!Candidates, Enriching!Supported, Whole

LEMMA EnrichStep ==
    ASSUME DetectionAssumption, EnrichInv, Enriching!Next
    PROVE  EnrichInv'
BY QuietStep, CorrelateStep, EnrichCommitStep DEF Enriching!Next

LEMMA EnrichRest ==
    ASSUME EnrichInv, UNCHANGED enrichingVars
    PROVE  EnrichInv'
<1>1. /\ UNCHANGED <<matches, mapping, assessments, explanation>>
      /\ severity' = severity /\ release' = release
      /\ enriched' = enriched /\ enriching' = enriching
  BY DEF enrichingVars
<1>2. /\ severity \in Severity /\ release \in Release
      /\ enriched \in 0 .. MaxRequests
      /\ enriching = [r \in Request |-> enriching[r]]
      /\ \A r \in Request : Reading(enriching[r])
  BY DEF EnrichInv, Enriching!TypeOK
<1>3. \A r \in Request : Reading(enriching'[r])
  BY <1>1, <1>2
<1> QED
  BY <1>1, <1>2, <1>3, RowsRest

\* What is on file for a match in a release is what the match supports, or
\* nothing.
LEMMA CountedAreShown ==
    ASSUME DetectionAssumption, EnrichInv
    PROVE  Enriching!RiskCountsItsMappings
<1> SUFFICES ASSUME NEW a \in Enriching!Assessed
             PROVE  /\ \E x \in Release : a.input.mappings
                          = Enriching!Cardinality(Enriching!ShownOf(a, x))
                    /\ \A x \in Release : Enriching!ShownOf(a, x) # {} =>
                          a.input.mappings
                             = Enriching!Cardinality(Enriching!ShownOf(a, x))
  BY DEF Enriching!RiskCountsItsMappings
<1>1. /\ Counts(a) /\ a.match \in Match
      /\ \A x \in mapping : Whole(x, mapping)
  BY DEF EnrichInv, Enriching!TypeOK
<1>2. \A x : \A m \in Enriching!Supported(a.match, x) :
          m.match = a.match /\ m.release = x
  BY DEF Enriching!Supported
<1>3. ASSUME NEW x, Enriching!Supported(a.match, x) \subseteq mapping
      PROVE  a.input.mappings = Enriching!Cardinality(Enriching!ShownOf(a, x))
  <2>1. Enriching!ShownOf(a, x) = Enriching!Supported(a.match, x)
    BY <1>1, <1>2, <1>3 DEF Whole, Enriching!ShownOf, Enriching!Shown
  <2>2. Cardinality(Enriching!ShownOf(a, x)) = a.input.mappings
    BY <1>1, <2>1, SupportedCount DEF Counts
  <2> QED
    BY <2>2, EnrichingCounts
<1>4. ASSUME NEW x, Enriching!ShownOf(a, x) # {}
      PROVE  Enriching!Supported(a.match, x) \subseteq mapping
  BY <1>1, <1>4 DEF Whole, Enriching!ShownOf, Enriching!Shown
<1> QED
  BY <1>1, <1>3, <1>4 DEF Counts

----------------------------------------------------------------------------
(* Correlation.                                                            *)

Busy(h) == task[h] # Engine!Idle

\* A handler at work has a trigger that waits for it, and a match that nobody
\* has committed.
Working(q) ==
    /\ q.trigger \in waiting
    /\ q.found.members \subseteq onFile
    /\ q.prior \in Engine!Case \cup {Nothing}
    /\ \A m \in run : ~Engine!Same(m, q.found)

\* No two of them have one trigger, or one match.
Apart ==
    \A h, k \in Handler : Busy(h) /\ Busy(k) /\ h # k =>
        /\ task[h].trigger # task[k].trigger
        /\ ~Engine!Same(task[h].found, task[k].found)

EngineInv ==
    /\ Engine!TypeOK
    /\ \A m \in run : m.case \in Engine!Case
    /\ task = [h \in Handler |-> task[h]]
    /\ \A h \in Handler : task[h] = Engine!Idle \/ Working(task[h])
    /\ Apart

LEMMA EngineInit ==
    ASSUME DetectionAssumption, Engine!Init
    PROVE  EngineInv
<1>0. /\ \A r, s \in Initial : r = s
      /\ MaxActs \in Nat
  BY DetectionAssumption DEF Engine!CorrelationAssumption
<1>1. Engine!TypeOK
  <2>1. /\ rule \in [Rule -> {"NONE", "DRAFT", "ACTIVE", "RETIRED"}]
        /\ \A r, s \in Rule : rule[r] = "ACTIVE" /\ rule[s] = "ACTIVE" => r = s
    BY <1>0 DEF Engine!Init
  <2>2. /\ activating \in Rule \cup {Nothing}
        /\ acts \in 0 .. MaxActs
    BY <1>0 DEF Engine!Init
  <2>3. /\ onFile = {} /\ waiting = {} /\ refused = {} /\ run = {}
        /\ \A h \in Handler : task[h] = Engine!Idle
    BY DEF Engine!Init
  <2>4. case \in [Engine!Case -> [state : {"none", "open", "shut"},
                                  alerts : SUBSET Alert]]
    BY DEF Engine!Init
  <2>5. sweep.alerts = {} /\ sweep.prior = Nothing
    BY DEF Engine!Init, Engine!NoSweep
  <2> QED
    BY <2>1, <2>2, <2>3, <2>4, <2>5 DEF Engine!TypeOK
<1> QED
  BY <1>1 DEF Engine!Init, EngineInv, Apart, Busy

LEMMA EngineRest ==
    ASSUME EngineInv, UNCHANGED engineVars
    PROVE  EngineInv'
BY DEF EngineInv, engineVars, Engine!TypeOK, Working, Apart, Busy, Engine!Same

RulesOK ==
    /\ rule \in [Rule -> {"NONE", "DRAFT", "ACTIVE", "RETIRED"}]
    /\ \A r, s \in Rule : rule[r] = "ACTIVE" /\ rule[s] = "ACTIVE" => r = s
    /\ activating \in Rule \cup {Nothing} /\ acts \in 0 .. MaxActs

\* Administrators change the rules and nothing else.
LEMMA RulesStep ==
    ASSUME DetectionAssumption, EngineInv,
           \/ Engine!ActivateCommit
           \/ \E r \in Rule : Engine!CreateDraft(r) \/ Engine!Activate(r) \/ Engine!Retire(r)
    PROVE  EngineInv'
<1>0. MaxActs \in Nat /\ Nothing \notin Rule
  BY DetectionAssumption DEF Engine!CorrelationAssumption
<1>1. UNCHANGED <<onFile, waiting, refused, run, case, task, sweep>>
  BY DEF Engine!ActivateCommit, Engine!CreateDraft, Engine!Activate, Engine!Retire,
         Engine!rulesOnly, Engine!findingVars
<1>2. RulesOK
  BY DEF RulesOK, EngineInv, Engine!TypeOK
<1>3. RulesOK'
  <2>1. CASE Engine!ActivateCommit
    BY <1>0, <1>2, <2>1 DEF RulesOK, Engine!ActivateCommit
  <2>2. ASSUME NEW r \in Rule, Engine!CreateDraft(r) PROVE RulesOK'
    BY <1>0, <1>2, <2>2 DEF RulesOK, Engine!CreateDraft, Engine!Act
  <2>3. ASSUME NEW r \in Rule, Engine!Activate(r) PROVE RulesOK'
    BY <1>0, <1>2, <2>3 DEF RulesOK, Engine!Activate, Engine!Act
  <2>4. ASSUME NEW r \in Rule, Engine!Retire(r) PROVE RulesOK'
    BY <1>0, <1>2, <2>4 DEF RulesOK, Engine!Retire, Engine!Act
  <2> QED
    BY <2>1, <2>2, <2>3, <2>4
<1> QED
  BY <1>1, <1>3 DEF RulesOK, EngineInv, Engine!TypeOK, Working, Apart, Busy, Engine!Same

\* The sweep and analysts change incidents, whose alerts stay.
LEMMA CasesStep ==
    ASSUME EngineInv, UNCHANGED <<rule, activating, onFile, waiting, refused, run, task>>,
           case' \in [Engine!Case -> [state : {"none", "open", "shut"},
                                      alerts : SUBSET Alert]],
           \A c \in Engine!Case : case[c].alerts \subseteq case'[c].alerts,
           sweep'.alerts \subseteq onFile, sweep'.prior \in Engine!Case \cup {Nothing},
           acts' \in 0 .. MaxActs
    PROVE  EngineInv'
<1>1. \A m \in run : m.case \in Engine!Case /\ m.members \subseteq case'[m.case].alerts
  BY DEF EngineInv, Engine!TypeOK
<1>2. Engine!TypeOK'
  BY <1>1 DEF EngineInv, Engine!TypeOK, Engine!Case
<1> QED
  BY <1>2 DEF EngineInv, Working, Apart, Busy, Engine!Same, Engine!Case

\* An incident that is joined keeps its alerts.
LEMMA JoinedKeeps ==
    ASSUME EngineInv, NEW c \in Engine!Case, NEW S, S \subseteq Alert
    PROVE  /\ Engine!Joined(c, S) \in [Engine!Case -> [state : {"none", "open", "shut"},
                                                       alerts : SUBSET Alert]]
           /\ \A d \in Engine!Case : case[d].alerts \subseteq Engine!Joined(c, S)[d].alerts
           /\ S \subseteq Engine!Joined(c, S)[c].alerts
           /\ Engine!Joined(c, S)[c].state = IF case[c].state = "none" THEN "open"
                                             ELSE case[c].state
           /\ \A d \in Engine!Case \ {c} : Engine!Joined(c, S)[d] = case[d]
BY DEF EngineInv, Engine!TypeOK, Engine!Joined

LEMMA SweepStep ==
    ASSUME DetectionAssumption, EngineInv,
           \/ \E f \in Alert : Engine!SweepReads(Entity[f])
           \/ Engine!SweepApplies \/ Engine!SweepFails
           \/ \E c \in Engine!Case : Engine!Shut(c) \/ Engine!Reopen(c)
    PROVE  EngineInv'
<1>0. /\ MaxActs \in Nat /\ acts \in 0 .. MaxActs /\ onFile \subseteq Alert
      /\ sweep.alerts \subseteq onFile /\ sweep.prior \in Engine!Case \cup {Nothing}
      /\ case \in [Engine!Case -> [state : {"none", "open", "shut"}, alerts : SUBSET Alert]]
      /\ Nothing \notin Alert
  BY DetectionAssumption DEF Engine!CorrelationAssumption, EngineInv, Engine!TypeOK
<1>1. ASSUME NEW e, Engine!SweepReads(e) PROVE EngineInv'
  <2>1. sweep'.alerts \subseteq onFile /\ sweep'.prior \in Engine!Case \cup {Nothing}
    BY <1>1 DEF Engine!SweepReads
  <2> QED
    BY <1>0, <1>1, <2>1, CasesStep
       DEF Engine!SweepReads, Engine!ruleVars, Engine!findingVars, Engine!Act
<1>2. ASSUME Engine!SweepApplies PROVE EngineInv'
  <2>1. PICK c \in Engine!Case : case' = Engine!Joined(c, sweep.alerts)
    BY <1>2 DEF Engine!SweepApplies
  <2>2. PICK S : S = sweep.alerts
    OBVIOUS
  <2>3. S \subseteq Alert /\ case' = Engine!Joined(c, S)
    BY <1>0, <2>1, <2>2
  <2>4. /\ case' \in [Engine!Case -> [state : {"none", "open", "shut"},
                                      alerts : SUBSET Alert]]
        /\ \A d \in Engine!Case : case[d].alerts \subseteq case'[d].alerts
    BY <2>3, JoinedKeeps
  <2>5. sweep'.alerts \subseteq onFile /\ sweep'.prior \in Engine!Case \cup {Nothing}
    BY <1>2 DEF Engine!SweepApplies, Engine!NoSweep
  <2> QED
    BY <1>0, <1>2, <2>4, <2>5, CasesStep
       DEF Engine!SweepApplies, Engine!ruleVars, Engine!findingVars
<1>3. ASSUME Engine!SweepFails PROVE EngineInv'
  <2>1. sweep'.alerts \subseteq onFile /\ sweep'.prior \in Engine!Case \cup {Nothing}
    BY <1>3 DEF Engine!SweepFails, Engine!NoSweep
  <2> QED
    BY <1>0, <1>3, <2>1, CasesStep
       DEF Engine!SweepFails, Engine!ruleVars, Engine!findingVars
<1>4. ASSUME NEW c \in Engine!Case, Engine!Shut(c) \/ Engine!Reopen(c) PROVE EngineInv'
  <2>1. PICK state \in {"open", "shut"} :
            case' = [case EXCEPT ![c].state = state]
    BY <1>4 DEF Engine!Shut, Engine!Reopen, Engine!SetState
  <2>2. /\ case' \in [Engine!Case -> [state : {"none", "open", "shut"},
                                      alerts : SUBSET Alert]]
        /\ \A d \in Engine!Case : case[d].alerts \subseteq case'[d].alerts
    BY <1>0, <2>1
  <2> QED
    BY <1>0, <1>4, <2>2, CasesStep
       DEF Engine!Shut, Engine!Reopen, Engine!SetState, Engine!ruleVars,
           Engine!findingVars, Engine!Act
<1> QED
  BY <1>1, <1>2, <1>3, <1>4

\* Findings arrive and are passed over or refused, while nobody works on them.
LEMMA FindingsStep ==
    ASSUME DetectionAssumption, EngineInv, NEW f \in Alert,
           Engine!Arrive(f) \/ Engine!Pass(f) \/ Engine!Refuse(f)
    PROVE  EngineInv'
<1>1. /\ UNCHANGED <<rule, activating, run, case, task, sweep, acts>>
      /\ onFile \subseteq onFile' /\ onFile' \subseteq Alert
      /\ waiting' \cup refused' \subseteq onFile' /\ waiting' \cap refused' = {}
      /\ \A t \in waiting : t \in Engine!Taken => t \in waiting'
  BY DEF EngineInv, Engine!TypeOK, Engine!Arrive, Engine!Pass, Engine!Refuse,
         Engine!ruleVars
<1>2. \A h \in Handler : task[h].trigger \in Engine!Taken
  BY DEF Engine!Taken
<1>3. Engine!TypeOK'
  BY <1>1, <1>2 DEF EngineInv, Engine!TypeOK
<1>4. \A h \in Handler : task[h] = Engine!Idle \/ Working(task[h])'
  BY <1>1, <1>2 DEF EngineInv, Working, Engine!Same
<1> QED
  BY <1>1, <1>3, <1>4 DEF EngineInv, Apart, Busy, Engine!Same, Engine!Case

\* A transaction that is undone.
LEMMA CrashStep ==
    ASSUME DetectionAssumption, EngineInv, NEW h \in Handler, Engine!Crash(h)
    PROVE  EngineInv'
<1>1. /\ UNCHANGED <<rule, activating, onFile, waiting, refused, run, case, sweep>>
      /\ task' = [k \in Handler |-> IF k = h THEN Engine!Idle ELSE task[k]]
      /\ acts' \in 0 .. MaxActs
  <2>1. MaxActs \in Nat /\ acts \in 0 .. MaxActs
    BY DetectionAssumption DEF EngineInv, Engine!TypeOK, Engine!CorrelationAssumption
  <2>2. task = [k \in Handler |-> task[k]]
    BY DEF EngineInv
  <2> QED
    BY <2>1, <2>2 DEF Engine!Crash, Engine!ruleVars, Engine!findingVars, Engine!Act
<1>2. Engine!TypeOK'
  BY <1>1 DEF EngineInv, Engine!TypeOK
<1>3. \A k \in Handler : task'[k] = Engine!Idle \/ Working(task[k])'
  BY <1>1 DEF EngineInv, Working, Engine!Same
<1> QED
  BY <1>1, <1>2, <1>3 DEF EngineInv, Apart, Busy, Engine!Same, Engine!Case

\* A handler reserves a match that nobody has.
LEMMA ReserveStep ==
    ASSUME DetectionAssumption, EngineInv, NEW h \in Handler, NEW t \in Alert,
           NEW r \in Rule, Engine!Reserve(h, t, r)
    PROVE  EngineInv'
<1> DEFINE found == Engine!Found(r, t)
<1>1. PICK c : /\ c \in Engine!Case \cup {Nothing}
               /\ task' = [task EXCEPT ![h] = [trigger |-> t, found |-> found, prior |-> c]]
  BY DEF Engine!Reserve, Engine!Prior
<1> DEFINE q == [trigger |-> t, found |-> found, prior |-> c]
<1>2. /\ UNCHANGED <<rule, activating, onFile, waiting, refused, run, case, sweep, acts>>
      /\ t \in waiting /\ t \notin Engine!Taken
      /\ \A m \in run : ~Engine!Same(m, found)
      /\ \A k \in Handler : Busy(k) => ~Engine!Same(task[k].found, found)
  BY DEF Engine!Reserve, Engine!ruleVars, Engine!findingVars, Busy
<1>3. found.members \subseteq onFile
  BY DEF Engine!Found, Engine!Selected, Engine!Candidates
<1>4. q.trigger = t /\ q.found = found /\ q.prior = c
  OBVIOUS
<1>5. task' = [k \in Handler |-> IF k = h THEN q ELSE task[k]]
  BY <1>1 DEF EngineInv
<1>6. \A k \in Handler : task[k].trigger \in Engine!Taken
  BY DEF Engine!Taken
<1> HIDE DEF q, found
<1>7. Engine!TypeOK'
  BY <1>2, <1>4, <1>5 DEF EngineInv, Engine!TypeOK
<1>8. \A k \in Handler : task'[k] = Engine!Idle \/ Working(task[k])'
  BY <1>1, <1>2, <1>3, <1>4, <1>5 DEF EngineInv, Working, Engine!Same
<1>9. Apart'
  <2>1. ASSUME NEW k \in Handler, NEW l \in Handler, Busy(k)', Busy(l)', k # l
        PROVE  /\ task'[k].trigger # task'[l].trigger
               /\ ~Engine!Same(task[k].found, task[l].found)'
    <3>1. CASE k = h
      BY <1>2, <1>4, <1>5, <1>6, <2>1, <3>1 DEF Busy, Engine!Same
    <3>2. CASE l = h
      BY <1>2, <1>4, <1>5, <1>6, <2>1, <3>2 DEF Busy, Engine!Same
    <3>3. CASE k # h /\ l # h
      BY <1>5, <2>1, <3>3 DEF EngineInv, Apart, Busy, Engine!Same
    <3> QED
      BY <3>1, <3>2, <3>3
  <2> QED
    BY <2>1 DEF Apart
<1> QED
  BY <1>2, <1>5, <1>7, <1>8, <1>9 DEF EngineInv

\* It commits: its match is nobody else's, and its trigger waits for nobody.
LEMMA ApplyStep ==
    ASSUME DetectionAssumption, EngineInv, NEW h \in Handler, Engine!Apply(h)
    PROVE  EngineInv'
<1> DEFINE q == task[h]
<1>1. PICK c \in Engine!Case :
         /\ case' = Engine!Joined(c, q.found.members)
         /\ run' = run \cup {[rule |-> q.found.rule, entity |-> q.found.entity,
                              members |-> q.found.members, case |-> c]}
  BY DEF Engine!Apply
<1> DEFINE row == [rule |-> q.found.rule, entity |-> q.found.entity,
                   members |-> q.found.members, case |-> c]
<1>2. /\ UNCHANGED <<rule, activating, onFile, refused, sweep, acts>>
      /\ Busy(h) /\ waiting' = waiting \ {q.trigger}
      /\ task' = [k \in Handler |-> IF k = h THEN Engine!Idle ELSE task[k]]
  BY DEF Engine!Apply, Engine!ruleVars, Busy, EngineInv
<1>3. /\ Working(q) /\ onFile \subseteq Alert
      /\ \A k \in Handler \ {h} : Busy(k) => /\ task[k].trigger # q.trigger
                                             /\ ~Engine!Same(task[k].found, q.found)
  BY <1>2 DEF EngineInv, Busy, Apart, Engine!Same, Engine!TypeOK
<1>4. /\ case' \in [Engine!Case -> [state : {"none", "open", "shut"},
                                    alerts : SUBSET Alert]]
      /\ \A d \in Engine!Case : case[d].alerts \subseteq case'[d].alerts
      /\ q.found.members \subseteq case'[c].alerts
  <2>1. PICK S : S = q.found.members
    OBVIOUS
  <2>2. S \subseteq Alert /\ case' = Engine!Joined(c, S)
    BY <1>1, <1>3, <2>1 DEF Working
  <2> QED
    BY <2>1, <2>2, JoinedKeeps
<1>5. /\ row.rule = q.found.rule /\ row.members = q.found.members /\ row.case = c
      /\ run' = run \cup {row}
  BY <1>1
<1> HIDE DEF row, q
<1>6. \A m \in run : ~(m.rule = row.rule /\ m.members = row.members)
  BY <1>3, <1>5 DEF Working, Engine!Same
<1>7. \A m, n \in run' : m.rule = n.rule /\ m.members = n.members => m = n
  BY <1>5, <1>6 DEF EngineInv, Engine!TypeOK
<1>8. \A m \in run' : m.case \in Engine!Case /\ m.members \subseteq case'[m.case].alerts
  BY <1>4, <1>5 DEF EngineInv, Engine!TypeOK
<1>9. \A k \in Handler : task'[k] = Engine!Idle \/ Working(task[k])'
  <2> SUFFICES ASSUME NEW k \in Handler, k # h, Busy(k) PROVE Working(task[k])'
    BY <1>2 DEF Busy
  <2>1. Working(task[k]) /\ task'[k] = task[k]
    BY <1>2 DEF EngineInv, Busy
  <2>2. \A m \in run' : ~(m.rule = task[k].found.rule /\ m.members = task[k].found.members)
    BY <1>3, <1>5, <2>1 DEF Working, Engine!Same
  <2> QED
    BY <1>2, <1>3, <2>1, <2>2 DEF Working, Engine!Same, Engine!Case
<1>10. Engine!TypeOK'
  <2>1. \A k \in Handler : task'[k] = Engine!Idle \/ task'[k].trigger \in waiting'
    BY <1>9 DEF Working
  <2> QED
    BY <1>2, <1>4, <1>7, <1>8, <2>1 DEF EngineInv, Engine!TypeOK, Engine!Case
<1>11. Apart'
  BY <1>2 DEF EngineInv, Apart, Busy, Engine!Same
<1> QED
  BY <1>2, <1>8, <1>9, <1>10, <1>11 DEF EngineInv, Engine!Case

LEMMA EngineStep ==
    ASSUME DetectionAssumption, EngineInv, Engine!Next
    PROVE  EngineInv'
BY RulesStep, SweepStep, FindingsStep, CrashStep, ReserveStep, ApplyStep DEF Engine!Next

\* A match that adds evidence leaves its incident open: the one it found, if
\* it still is, or one that nobody has opened yet.
LEMMA EvidenceStep ==
    ASSUME DetectionAssumption, EngineInv, NEW h \in Handler, NEW d \in Engine!Case,
           Engine!Apply(h), case'[d].alerts # case[d].alerts
    PROVE  case'[d].state = "open"
<1> DEFINE q == task[h]
<1>1. PICK c \in Engine!Case :
         /\ IF Engine!StillActive(q.prior) THEN c = q.prior ELSE Engine!New(c)
         /\ case' = Engine!Joined(c, q.found.members)
  BY DEF Engine!Apply
<1>2. Working(q) /\ onFile \subseteq Alert
  BY DEF EngineInv, Engine!Apply, Engine!TypeOK
<1>3. PICK S : S = q.found.members
  OBVIOUS
<1>4. S \subseteq Alert /\ case' = Engine!Joined(c, S)
  BY <1>1, <1>2, <1>3 DEF Working
<1>5. d = c
  BY <1>4, JoinedKeeps
<1>6. case[c].state \in {"open", "none"}
  BY <1>1 DEF Engine!StillActive, Engine!New
<1> QED
  BY <1>4, <1>5, <1>6, JoinedKeeps

----------------------------------------------------------------------------
(* Ingestion.                                                              *)

\* What a process holds can be normalized, and is a page at most.
Clean == [document : Document, payload : Payload \ Malformed]
Stamps == {0} \cup {Stamp[d] : d \in Document}

IntakeInv ==
    /\ index \in [Document -> Payload \cup {Hidden}]
    /\ cursor \in Stamps
    /\ page \in [Intake!Process -> Seq(Clean)]
    /\ \A w \in Intake!Process : Len(page[w]) <= Limit
    /\ mark \in [Intake!Process -> Stamps]
    /\ revision \in [Document -> Seq(Payload \ Malformed)]
    /\ \A d \in Document : Intake!IsInjective(revision[d])
    /\ failures \in 0 .. MaxFailures

LEMMA IntakeTypes == ASSUME IntakeInv PROVE Intake!TypeOK
<1>1. \A w \in Intake!Process : page[w] \in Seq(Intake!Finding)
  <2>1. Clean \subseteq Intake!Finding
    BY DEF Clean, Intake!Finding
  <2> QED
    BY <2>1 DEF IntakeInv
<1>2. \A d \in Document : Intake!ToSet(revision[d]) \subseteq Payload \ Malformed
  BY DEF IntakeInv, Intake!ToSet
<1> QED
  BY <1>1, <1>2 DEF IntakeInv, Stamps, Intake!TypeOK

LEMMA IntakeInit == ASSUME DetectionAssumption, Intake!Init PROVE IntakeInv
BY DEF DetectionAssumption, Intake!IngestionAssumption, Intake!Init, IntakeInv, Stamps,
       Intake!IsInjective

\* The transaction of a finding adds a revision that is not there.
LEMMA PersistedKeeps ==
    ASSUME IntakeInv, NEW f \in Clean
    PROVE  /\ Intake!Persisted(f) \in [Document -> Seq(Payload \ Malformed)]
           /\ \A d \in Document : Intake!IsInjective(Intake!Persisted(f)[d])
<1> DEFINE old == revision[f.document]
           new == IF Intake!Stored(f.document, f.payload) THEN old
                  ELSE Append(old, f.payload)
<1>1. f.document \in Document /\ f.payload \in Payload \ Malformed
  BY DEF Clean
<1>2. old \in Seq(Payload \ Malformed) /\ Intake!IsInjective(old)
  BY <1>1 DEF IntakeInv
<1>3. new \in Seq(Payload \ Malformed) /\ Intake!IsInjective(new)
  <2>1. CASE Intake!Stored(f.document, f.payload)
    BY <1>2, <2>1
  <2>2. CASE ~Intake!Stored(f.document, f.payload)
    <3>1. \A k \in 1 .. Len(old) : old[k] # f.payload
      BY <2>2 DEF Intake!Stored, Intake!ToSet
    <3> HIDE DEF old
    <3>2. PICK s : s = Append(old, f.payload)
      OBVIOUS
    <3>3. /\ s \in Seq(Payload \ Malformed) /\ Len(s) = Len(old) + 1
          /\ \A k \in 1 .. Len(old) : s[k] = old[k]
          /\ s[Len(old) + 1] = f.payload /\ Len(old) \in Nat
      BY <1>1, <1>2, <3>2
    <3>4. \A k, l \in 1 .. Len(s) : s[k] = s[l] => k = l
      BY <1>2, <3>1, <3>3 DEF Intake!IsInjective
    <3> QED
      BY <2>2, <3>2, <3>3, <3>4 DEF Intake!IsInjective
  <2> QED
    BY <2>1, <2>2
<1> HIDE DEF new, old
<1>4. Intake!Persisted(f) = [revision EXCEPT ![f.document] = new]
  BY DEF Intake!Persisted, new, old
<1> QED
  BY <1>1, <1>3, <1>4 DEF IntakeInv

\* A page is of documents that are visible and can be normalized.
LEMMA FetchStep ==
    ASSUME DetectionAssumption, IntakeInv, NEW w \in Intake!Process, NEW from,
           Intake!Fetch(w, from)
    PROVE  IntakeInv'
<1>0. Limit \in Nat \ {0} /\ Hidden \notin Payload
  BY DEF DetectionAssumption, Intake!IngestionAssumption
<1> DEFINE Later == {d \in Document : Intake!Visible(d) /\ Stamp[d] > from}
<1>1. PICK found \in Intake!After(from) :
         /\ \A i \in 1 .. Len(found) : index[found[i]] \notin Malformed
         /\ page' = [page EXCEPT ![w] = [i \in 1 .. Len(found) |->
                        [document |-> found[i], payload |-> index[found[i]]]]]
         /\ mark' = [mark EXCEPT ![w] = Stamp[found[Len(found)]]]
         /\ UNCHANGED <<index, cursor, revision, failures>>
  BY DEF Intake!Fetch
<1>2. PICK n \in 1 .. Limit : found \in [1 .. n -> Later]
  BY DEF Intake!After
<1>3. /\ found \in Seq(Document) /\ Len(found) = n /\ n \in Nat
      /\ \A i \in 1 .. n : found[i] \in Document /\ Intake!Visible(found[i])
  BY <1>0, <1>2
<1> DEFINE taken == [i \in 1 .. Len(found) |->
                        [document |-> found[i], payload |-> index[found[i]]]]
<1>4. taken \in [1 .. n -> Clean]
  <2>1. ASSUME NEW i \in 1 .. n
        PROVE  [document |-> found[i], payload |-> index[found[i]]] \in Clean
    BY <1>0, <1>1, <1>3 DEF IntakeInv, Intake!Visible, Clean
  <2> QED
    BY <1>3, <2>1
<1>5. page' = [page EXCEPT ![w] = taken]
  BY <1>1
<1> HIDE DEF taken
<1>6. taken \in Seq(Clean) /\ Len(taken) <= Limit
  BY <1>0, <1>3, <1>4
<1>7. Stamp[found[Len(found)]] \in Stamps
  BY <1>3, <1>2 DEF Stamps
<1>8. /\ page' \in [Intake!Process -> Seq(Clean)]
      /\ \A v \in Intake!Process : Len(page'[v]) <= Limit
  BY <1>5, <1>6 DEF IntakeInv
<1>9. mark' \in [Intake!Process -> Stamps]
  BY <1>1, <1>7 DEF IntakeInv
<1> QED
  BY <1>1, <1>8, <1>9 DEF IntakeInv, Stamps

LEMMA IntakeStep ==
    ASSUME DetectionAssumption, IntakeInv, Intake!Next
    PROVE  IntakeInv'
<1>0. /\ Scheduler \in Intake!Process /\ Operator \subseteq Intake!Process
      /\ MaxFailures \in Nat /\ Limit \in Nat
  BY DEF DetectionAssumption, Intake!IngestionAssumption, Intake!Process
<1>1. ASSUME NEW w \in Intake!Process, Intake!Ingest(w) PROVE IntakeInv'
  <2>1. /\ page[w] \in Seq(Clean) /\ page[w] # <<>> /\ Len(page[w]) <= Limit
        /\ UNCHANGED <<index, cursor, mark, failures>>
    BY <1>1 DEF IntakeInv, Intake!Ingest
  <2>2. PICK f \in Clean : f = Head(page[w])
    BY <2>1
  <2>3. revision' = Intake!Persisted(f)
    BY <1>1, <2>2 DEF Intake!Ingest
  <2>4. Tail(page[w]) \in Seq(Clean) /\ Len(Tail(page[w])) <= Limit
    BY <1>0, <2>1
  <2>5. page' = [page EXCEPT ![w] = Tail(page[w])]
    BY <1>1 DEF Intake!Ingest
  <2>6. /\ page' \in [Intake!Process -> Seq(Clean)]
        /\ \A v \in Intake!Process : Len(page'[v]) <= Limit
    BY <2>4, <2>5 DEF IntakeInv
  <2>7. /\ revision' \in [Document -> Seq(Payload \ Malformed)]
        /\ \A d \in Document : Intake!IsInjective(revision'[d])
    BY <2>3, PersistedKeeps
  <2> QED
    BY <2>1, <2>6, <2>7 DEF IntakeInv
<1>2. ASSUME NEW w \in Intake!Process, Intake!Finish(w) \/ Intake!Fail(w)
      PROVE  IntakeInv'
  <2>1. /\ <<>> \in Seq(Clean) /\ Len(<<>>) = 0 /\ 0 \in Stamps
        /\ mark[w] \in Stamps /\ cursor \in Stamps /\ failures \in 0 .. MaxFailures
    BY DEF Stamps, IntakeInv
  <2>2. /\ page' = [page EXCEPT ![w] = <<>>] /\ mark' = [mark EXCEPT ![w] = 0]
        /\ cursor' \in {cursor, mark[w]}
        /\ UNCHANGED <<index, revision>>
        /\ failures' \in 0 .. MaxFailures
    BY <1>0, <1>2, <2>1 DEF Intake!Finish, Intake!Fail
  <2>3. /\ page' \in [Intake!Process -> Seq(Clean)]
        /\ \A v \in Intake!Process : Len(page'[v]) <= Limit
    BY <1>0, <2>1, <2>2 DEF IntakeInv
  <2>4. mark' \in [Intake!Process -> Stamps] /\ cursor' \in Stamps
    BY <2>1, <2>2 DEF IntakeInv
  <2> QED
    BY <2>2, <2>3, <2>4 DEF IntakeInv, Stamps
<1>3. ASSUME NEW d \in Document, NEW payload \in Payload, Intake!Index(d, payload)
      PROVE  IntakeInv'
  BY <1>3 DEF Intake!Index, IntakeInv, Stamps
<1> QED
  BY <1>0, <1>1, <1>2, <1>3, FetchStep DEF Intake!Next, Intake!Cycle, Intake!Process

LEMMA IntakeRest == ASSUME IntakeInv, UNCHANGED intakeVars PROVE IntakeInv'
BY DEF IntakeInv, intakeVars, Stamps

----------------------------------------------------------------------------
(* The services side by side.                                              *)

\* A step moves one of the services and leaves the others where they are.
LEMMA EachPartMoves ==
    ASSUME [DetectionNext]_vars
    PROVE  /\ Intake!Next \/ UNCHANGED intakeVars
           /\ Engine!Next \/ UNCHANGED engineVars
           /\ Enriching!Next \/ UNCHANGED enrichingVars
           /\ [Next]_memoryVars
BY DEF DetectionNext, IntakeMoves, EngineMoves, EnrichingMoves, LessonsMove, vars

\* The whole implements the memory, whose theorems are stated of it alone.
LEMMA DetectionImplements == DetectionSpec => Spec
<1>1. DetectionInit => Init
  BY DEF DetectionInit
<1>2. [DetectionNext]_vars => [Next]_memoryVars
  BY EachPartMoves
<1> QED
  BY <1>1, <1>2, PTL DEF DetectionSpec, Spec

LEMMA DetectionInv == DetectionSpec => [](IntakeInv /\ EngineInv /\ EnrichInv)
<1>1. DetectionInit => IntakeInv /\ EngineInv /\ EnrichInv
  BY DetectionAssumption, IntakeInit, EngineInit, EnrichInit DEF DetectionInit
<1>2. IntakeInv /\ EngineInv /\ EnrichInv /\ [DetectionNext]_vars => (IntakeInv /\ EngineInv /\ EnrichInv)'
  <2> SUFFICES ASSUME IntakeInv, EngineInv, EnrichInv, [DetectionNext]_vars
               PROVE  (IntakeInv /\ EngineInv /\ EnrichInv)'
    OBVIOUS
  <2>0. IntakeInv'
    BY DetectionAssumption, EachPartMoves, IntakeStep, IntakeRest
  <2>1. EngineInv'
    BY DetectionAssumption, EachPartMoves, EngineStep, EngineRest
  <2>2. EnrichInv'
    BY DetectionAssumption, EachPartMoves, EnrichStep, EnrichRest
  <2> QED
    BY <2>0, <2>1, <2>2
<1> QED
  BY <1>1, <1>2, PTL DEF DetectionSpec

\* Every service keeps its types beside the others: among them, no revision
\* of a finding is stored twice or cannot be normalized, at most one version
\* of a rule is active, and no two runs have one match.
THEOREM TypesHold == DetectionSpec => []TypesOK
<1>1. IntakeInv /\ EngineInv /\ EnrichInv
      => Intake!TypeOK /\ Engine!TypeOK /\ Enriching!TypeOK
  BY IntakeTypes DEF EngineInv, EnrichInv
<1>2. MemoryAssumption
  BY DetectionAssumption DEF DetectionAssumption
<1>3. Spec => []TypeOK
  BY <1>2, TypeCorrect
<1> QED
  BY <1>1, <1>3, DetectionInv, DetectionImplements, PTL DEF TypesOK

\* A match adds evidence to an incident only while it is open, though the
\* handler looked for the incident before it locked it, and analysts, the
\* sweep and other handlers went on meanwhile (apply_match).
THEOREM EvidenceOnlyToLiveCasesHolds == DetectionSpec => EvidenceOnlyToLiveCases
<1> DEFINE Live == \A h \in Handler, c \in Engine!Case :
              Engine!Apply(h) /\ case'[c].alerts # case[c].alerts
              => case'[c].state = "open"
<1>1. EngineInv => [Live]_(Engine!correlationVars)
  BY DetectionAssumption, EvidenceStep
<1>2. Engine!EvidenceOnlyToLiveCases <=> [][Live]_(Engine!correlationVars)
  BY PTL DEF Engine!EvidenceOnlyToLiveCases
<1> QED
  BY <1>1, <1>2, DetectionInv, PTL DEF EvidenceOnlyToLiveCases

\* An explanation tells of the very assessment it is filed under, though the
\* model answers long after that was read (record_ai_redaction).
THEOREM ExplanationsAreGroundedHolds == DetectionSpec => []ExplanationsAreGrounded
<1>1. EnrichInv => ExplanationsAreGrounded
  BY DEF EnrichInv, ExplanationsAreGrounded
<1> QED
  BY <1>1, DetectionInv, PTL

\* In whatever release the match of a score was mapped, it was mapped to as
\* many techniques as the score counts, whoever inserted the mappings and
\* whenever, and however often the release was switched (enrich, get).
THEOREM RiskCountsItsMappingsHolds == DetectionSpec => []RiskCountsItsMappings
<1>1. EnrichInv => RiskCountsItsMappings
  BY DetectionAssumption, CountedAreShown DEF RiskCountsItsMappings
<1> QED
  BY <1>1, DetectionInv, PTL
=============================================================================
