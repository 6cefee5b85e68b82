--------------------------- MODULE GovernedMemory ---------------------------
(***************************************************************************)
(* Governed memory: lessons drawn from the feedback ledger, written in     *)
(* immutable versions that one person drafts, another reviews and another  *)
(* activates, and that are then shown beside the incidents they match.     *)
(* Status is the last row of an append-only history; every transition      *)
(* locks the version's row first, so a handler is one step.  Showing a     *)
(* lesson takes two transactions: one lists, the next records.             *)
(*                                                                         *)
(* Source: governed_memory/application/service.py and domain/, with the    *)
(* triggers and unique keys of migrations 0019 and 0032.                   *)
(***************************************************************************)
EXTENDS Integers, Sequences, FiniteSets, FiniteSetsExt

CONSTANTS User, Memory, Feedback,
          Suggestible,        \* memories the scheduler may suggest
          Shows,              \* the feedback that shows a pattern
          Facts,              \* what an incident is, as a consultation sees it
          Conditions,         \* what versions may ask for: the facts they match
          Validity,           \* the days versions may be valid until
          MinimumOccurrences, \* find_patterns
          SampleSize,         \* memory_minimum_sample_size
          Machine,            \* the author of a suggestion: nobody
          MaxVersion, MaxTime \* bounds on the corrections and on the clock

MemoryAssumption ==
    /\ IsFiniteSet(Memory) /\ Suggestible \subseteq Memory
    /\ Shows \in [Suggestible -> SUBSET Feedback]
    /\ Conditions \subseteq SUBSET Facts
    /\ Validity \subseteq 0 .. MaxTime + 1
    /\ MinimumOccurrences \in Nat \ {0} /\ SampleSize \in Nat
    /\ Machine \notin User
    /\ MaxVersion \in Nat \ {0} /\ MaxTime \in Nat

VARIABLES feedback, \* the feedback recorded so far
          kind,     \* memory_candidates.kind, or "NONE" before it is proposed
          version,  \* memory_candidate_versions with status and reviews
          ledger,   \* memory_influences: by facts and position, the version
          listed,   \* the listing a consultation has in hand
          today     \* the clock, in units of the shortest validity

memoryVars == <<feedback, kind, version, ledger, listed, today>>

Version == Memory \X (1 .. MaxVersion)
Author == User \cup {Machine}
Status == {"NONE", "DRAFT", "IN_REVIEW", "APPROVED", "ACTIVE",
           "REJECTED", "EXPIRED", "DISABLED", "SUPERSEDED"}
Ended == {"REJECTED", "EXPIRED", "DISABLED", "SUPERSEDED"}
Decision == {"APPROVE", "REJECT", "REQUEST_CHANGES"}

Unwritten == [status |-> "NONE", author |-> Machine, drafter |-> Machine,
              activator |-> Machine, review |-> [u \in User |-> "NONE"],
              applies |-> {}, until |-> 0]
NoListing == [facts |-> "none", shown |-> <<>>]

TypeOK ==
    /\ feedback \subseteq Feedback
    /\ kind \in [Memory -> {"NONE", "CASE_NOTE", "TREND"}]
    /\ version \in [Version ->
          [status : Status, author : Author, drafter : Author,
           activator : Author, review : [User -> Decision \cup {"NONE"}],
           applies : SUBSET Facts, until : 0 .. MaxTime + 1]]
    /\ \A v \in Version : version[v].status # "NONE" =>
          kind[v[1]] # "NONE" /\ (v[2] > 1 =>
             version[<<v[1], v[2] - 1>>].status # "NONE")
    /\ \A key \in DOMAIN ledger : ledger[key] \in Version
    /\ DOMAIN ledger \subseteq Facts \X (1 .. Cardinality(Version))
    /\ listed = NoListing \/ listed.facts \in Facts
    /\ today \in 0 .. MaxTime

Init ==
    /\ feedback = {}
    /\ kind = [m \in Memory |-> "NONE"]
    /\ version = [v \in Version |-> Unwritten]
    /\ ledger = <<>>
    /\ listed = NoListing
    /\ today = 0

Is(v, status) == version[v].status = status
Latest(m) == Max({0} \cup {n \in 1 .. MaxVersion : ~Is(<<m, n>>, "NONE")})
To(v, status) == version' = [version EXCEPT ![v].status = status]
versionsOnly == <<feedback, kind, ledger, listed, today>>

----------------------------------------------------------------------------
(* Writing.                                                                *)

\* create_feedback: a simulated source is refused, a repeated key answered.
CreateFeedback(f) ==
    /\ feedback' = feedback \cup {f}
    /\ UNCHANGED <<kind, version, ledger, listed, today>>

Draft(u, applies, until) ==
    [Unwritten EXCEPT !.status = "DRAFT", !.author = u, !.drafter = u,
                      !.applies = applies, !.until = until]

\* Evidence must exist, and a trend needs a sample of it.
EvidenceFor(k) ==
    /\ feedback # {}
    /\ k = "TREND" => Cardinality(feedback) >= SampleSize

CreateCandidate(u, m, k, applies, until) ==
    /\ kind[m] = "NONE"
    /\ EvidenceFor(k)
    /\ kind' = [kind EXCEPT ![m] = k]
    /\ version' = [version EXCEPT ![<<m, 1>>] = Draft(u, applies, until)]
    /\ UNCHANGED <<feedback, ledger, listed, today>>

\* suggest_candidates: the pattern's signature is the idempotency key.
SuggestCandidate(m, applies) ==
    /\ m \in Suggestible
    /\ Cardinality(Shows[m] \cap feedback) >= MinimumOccurrences
    /\ kind[m] = "NONE"
    /\ kind' = [kind EXCEPT ![m] = "CASE_NOTE"]
    /\ version' = [version EXCEPT ![<<m, 1>>] =
                      Draft(Machine, applies, MaxTime + 1)]
    /\ UNCHANGED <<feedback, ledger, listed, today>>

\* Mutant: a correction keeps the author of the first version.
CreateVersion_FirstAuthor(u, m, applies, until) ==
    LET previous == <<m, Latest(m)>> IN
    /\ Latest(m) \in 1 .. MaxVersion - 1
    /\ version[previous].status \notin {"IN_REVIEW", "APPROVED"}
    /\ EvidenceFor(kind[m])
    /\ version' = [version EXCEPT
          ![<<m, Latest(m) + 1>>] =
              [Draft(u, applies, until) EXCEPT !.author = version[<<m, 1>>].author],
          ![previous].status = IF @ = "ACTIVE" THEN "SUPERSEDED" ELSE @]
    /\ UNCHANGED versionsOnly

\* A live version is superseded at once; a draft is left as it is.
CreateVersion(u, m, applies, until) ==
    LET previous == <<m, Latest(m)>> IN
    /\ Latest(m) \in 1 .. MaxVersion - 1
    /\ version[previous].status \notin {"IN_REVIEW", "APPROVED"}
    /\ EvidenceFor(kind[m])
    /\ version' = [version EXCEPT
          ![<<m, Latest(m) + 1>>] = Draft(u, applies, until),
          ![previous].status = IF @ = "ACTIVE" THEN "SUPERSEDED" ELSE @]
    /\ UNCHANGED versionsOnly

----------------------------------------------------------------------------
(* Judging.                                                                *)

RequestReview(v) ==
    /\ Is(v, "DRAFT")
    /\ To(v, "IN_REVIEW")
    /\ UNCHANGED versionsOnly

ReviewTarget == [APPROVE |-> "APPROVED", REJECT |-> "REJECTED",
                 REQUEST_CHANGES |-> "DRAFT"]

\* One review per reviewer and version: who asked for changes has answered.
Review(u, v, decision) ==
    /\ Is(v, "IN_REVIEW")
    /\ version[v].author # u
    /\ version[v].review[u] = "NONE"
    /\ version' = [version EXCEPT ![v].review[u] = decision,
                                  ![v].status = ReviewTarget[decision]]
    /\ UNCHANGED versionsOnly

Activate(u, v) ==
    /\ Is(v, "APPROVED")
    /\ version[v].author # u
    /\ version[v].until > today
    /\ \E reviewer \in User : version[v].review[reviewer] = "APPROVE"
    /\ version' = [version EXCEPT ![v].status = "ACTIVE", ![v].activator = u]
    /\ UNCHANGED versionsOnly

Disable(v) ==
    /\ version[v].status \in {"APPROVED", "ACTIVE"}
    /\ To(v, "DISABLED")
    /\ UNCHANGED versionsOnly

\* Mutants: the status is not looked at again; the last day is still valid.
ExpireDue_AsListed(v) ==
    /\ version[v].until <= today
    /\ ~Is(v, "NONE")
    /\ To(v, "EXPIRED")
    /\ UNCHANGED versionsOnly

ExpireDue_DayAfter(v) ==
    /\ version[v].until < today
    /\ Is(v, "ACTIVE")
    /\ To(v, "EXPIRED")
    /\ UNCHANGED versionsOnly

\* The scheduler lists the versions that are due, then takes each row's lock
\* and looks again: only what it finds then counts.
ExpireDue(v) ==
    /\ version[v].until <= today
    /\ Is(v, "ACTIVE")
    /\ To(v, "EXPIRED")
    /\ UNCHANGED versionsOnly

----------------------------------------------------------------------------
(* Showing.                                                                *)

\* The versions list_active selects, and the order of valid_until.
Active == {v \in Version : Is(v, "ACTIVE") /\ version[v].until > today}
InOrder(S) == {s \in [1 .. Cardinality(S) -> S] :
                 \A i, j \in DOMAIN s : i < j =>
                    s[i] # s[j] /\ version[s[i]].until <= version[s[j]].until}

\* _candidate_response: the candidate's last version stands for each.
Response(v) == <<v[1], Latest(v[1])>>

ListActive(facts) ==
    /\ listed = NoListing
    /\ \E s \in InOrder({v \in Active : facts \in version[Response(v)].applies}) :
          listed' = [facts |-> facts, shown |-> [i \in DOMAIN s |-> Response(s[i])]]
    /\ UNCHANGED <<feedback, kind, version, ledger, today>>

\* evaluate_context shows every match and records those whose key, the facts
\* and the position in the listing, is not in the ledger yet.
RecordInfluence ==
    LET Key(i) == <<listed.facts, i>>
        Fresh == {i \in DOMAIN listed.shown : Key(i) \notin DOMAIN ledger} IN
    /\ listed # NoListing
    /\ ledger' = [key \in DOMAIN ledger \cup {Key(i) : i \in Fresh} |->
                     IF key \in DOMAIN ledger THEN ledger[key]
                     ELSE listed.shown[key[2]]]
    /\ listed' = NoListing
    /\ UNCHANGED <<feedback, kind, version, today>>

TimePasses ==
    /\ today < MaxTime
    /\ today' = today + 1
    /\ UNCHANGED <<feedback, kind, version, ledger, listed>>

Next ==
    \/ TimePasses \/ RecordInfluence
    \/ \E f \in Feedback : CreateFeedback(f)
    \/ \E facts \in Facts : ListActive(facts)
    \/ \E u \in User, m \in Memory, applies \in Conditions, t \in Validity :
          \/ \E k \in {"CASE_NOTE", "TREND"} :
                CreateCandidate(u, m, k, applies, t)
          \/ CreateVersion(u, m, applies, t)
    \/ \E m \in Memory, applies \in Conditions : SuggestCandidate(m, applies)
    \/ \E v \in Version : RequestReview(v) \/ Disable(v) \/ ExpireDue(v)
    \/ \E v \in Version, u \in User :
          Activate(u, v) \/ \E d \in Decision : Review(u, v, d)

\* The scheduler's loop comes back to every version that is due.
Fairness == WF_memoryVars(\E v \in Version : ExpireDue(v))

Spec == Init /\ [][Next]_memoryVars
FairSpec == Spec /\ Fairness

----------------------------------------------------------------------------
(* What is live was approved by somebody and activated by somebody, and    *)
(* neither wrote that version: "the person who writes it is not always the *)
(* person who proposed the first one" (migration 0030).                    *)
ActiveWasJudged == \A v \in Version : Is(v, "ACTIVE") =>
    /\ version[v].activator \in User \ {version[v].drafter}
    /\ \E u \in User \ {version[v].drafter} : version[v].review[u] = "APPROVE"

(* A version that was rejected, withdrawn, replaced or has run out never   *)
(* comes back, and its author, text and window stay what was judged.       *)
JudgementsStand == [][\A v \in Version :
    /\ version[v].status \in Ended => version'[v] = version[v]
    /\ ~Is(v, "NONE") =>
          /\ version'[v].drafter = version[v].drafter
          /\ version'[v].applies = version[v].applies
          /\ version'[v].until = version[v].until
          /\ \A u \in User : version[v].review[u] # "NONE" =>
                version'[v].review[u] = version[v].review[u]]_memoryVars

(* Does not hold of the code, see README: the ledger of influences names   *)
(* only versions that a person activated ("a candidate has no influence    *)
(* before a human approval in force", PHASE_22_GOVERNED_FEEDBACK_MEMORY).  *)
InfluenceWasActivated == \A key \in DOMAIN ledger :
    version[ledger[key]].activator # Machine

(* A version that is past its validity does not stay active.               *)
DueVersionsExpire == \A v \in Version :
    (Is(v, "ACTIVE") /\ version[v].until <= today) ~> ~Is(v, "ACTIVE")
=============================================================================
