--------------------------- MODULE GovernanceProofs ---------------------------
(***************************************************************************)
(* What the services of Governance keep, proved for any people, requests,  *)
(* claims and versions, and for the services side by side.  Each service   *)
(* has a section with the invariant its properties rest on; the last one   *)
(* shows that a step of the whole is a step of each service, or leaves it  *)
(* as it is.                                                               *)
(***************************************************************************)
EXTENDS Governance, ContainmentProofs, SequenceTheorems, FiniteSetTheorems,
        WellFoundedInduction, TLAPS

----------------------------------------------------------------------------
(* The incident's case.                                                    *)

\* What a request to resolve found on file is on file when it commits: what
\* is filed is never taken away.
ToResolve(r) ==
    editing[r].op = "transition" /\ editing[r].target = "resolved"

DeskInv ==
    /\ Desk!TypeOK
    /\ \A r \in Request : ToResolve(r) => Desk!Reviewable(file)
    /\ Desk!ResolvedIsReviewable

LEMMA ReviewableGrows ==
    ASSUME NEW before, NEW after, before \subseteq after, Desk!Reviewable(before)
    PROVE  Desk!Reviewable(after)
BY DEF Desk!Reviewable

\* A request that opens reads; only one to resolve must find a reviewable file.
LEMMA DeskOpens ==
    ASSUME GovernanceAssumption, DeskInv, NEW r \in Request, NEW read,
           Desk!Open(r, read),
           \/ read \in [op : {"transition"}, by : Analyst, target : Desk!Status,
                        resolver : Analyst \cup {NoOne}]
           \/ read \in [op : {"assign"}, to : Analyst \cup {NoOne}]
           \/ read \in [op : {"note", "alert"}],
           read.op = "transition" /\ read.target = "resolved" => Desk!Reviewable(file)
    PROVE  DeskInv'
<1>1. /\ Desk!TypeOK
      /\ editing' = [editing EXCEPT ![r] = read] /\ edits' = edits + 1
      /\ edits < MaxEdits
      /\ UNCHANGED <<status, owner, resolver, helpers, file>>
  BY DEF DeskInv, Desk!Open
<1>2. Desk!TypeOK'
  BY <1>1, GovernanceAssumption DEF Desk!TypeOK, Desk!CaseAssumption
<1>3. \A s \in Request : ToResolve(s)' => Desk!Reviewable(file)'
  BY <1>1 DEF DeskInv, ToResolve, Desk!TypeOK
<1>4. Desk!ResolvedIsReviewable'
  BY <1>1 DEF DeskInv, Desk!ResolvedIsReviewable, Desk!Reviewable
<1> QED
  BY <1>2, <1>3, <1>4 DEF DeskInv

\* A request that commits leaves; what it writes was weighed when it opened.
LEMMA DeskCloses ==
    ASSUME GovernanceAssumption, DeskInv, NEW r \in Request, Desk!Close(r),
           status' \in Desk!Status, {owner', resolver'} \subseteq Analyst \cup {NoOne},
           file \subseteq file', file' \subseteq Slot \cup {"note", "alert"},
           status' = "resolved" \/ resolver' # NoOne =>
              ToResolve(r) \/ status = "resolved" \/ resolver # NoOne
    PROVE  DeskInv'
<1>1. /\ Desk!TypeOK /\ editing' = [editing EXCEPT ![r] = Desk!Idle]
      /\ UNCHANGED <<helpers, edits>>
  BY DEF DeskInv, Desk!Close
<1>2. Desk!TypeOK'
  BY <1>1 DEF Desk!TypeOK
<1>3. Desk!Reviewable(file) => Desk!Reviewable(file)'
  BY DEF Desk!Reviewable
<1>4. \A s \in Request : ToResolve(s)' => Desk!Reviewable(file)'
  BY <1>1, <1>3 DEF DeskInv, ToResolve, Desk!TypeOK, Desk!Idle
<1>5. Desk!ResolvedIsReviewable'
  BY <1>3 DEF DeskInv, Desk!ResolvedIsReviewable
<1> QED
  BY <1>2, <1>4, <1>5 DEF DeskInv

LEMMA DeskInit == ASSUME GovernanceAssumption, Desk!Init PROVE DeskInv
BY DEF Desk!Init, DeskInv, Desk!TypeOK, Desk!CaseAssumption, ToResolve, Desk!Idle,
       Desk!ResolvedIsReviewable, Desk!Status, Desk!Transitions, GovernanceAssumption

LEMMA DeskStep ==
    ASSUME GovernanceAssumption, DeskInv, Desk!Next
    PROVE  DeskInv'
<1>0. /\ Desk!TypeOK /\ Holds \in [Analyst -> SUBSET Desk!Permission]
      /\ Invited \subseteq Analyst
      /\ {"diagnosis", "root_cause", "resolution"} \subseteq Slot
      /\ "note" \notin Slot /\ "alert" \notin Slot
  BY GovernanceAssumption DEF DeskInv, Desk!CaseAssumption
<1>1. ASSUME NEW r \in Request, NEW u \in Analyst, NEW target \in Desk!Status,
             Desk!Transition(r, u, target)
      PROVE  DeskInv'
  <2> DEFINE read == [op |-> "transition", by |-> u, target |-> target,
                      resolver |-> resolver]
  <2>1. read \in [op : {"transition"}, by : Analyst, target : Desk!Status,
                  resolver : Analyst \cup {NoOne}]
    BY <1>0 DEF Desk!TypeOK
  <2>2. Desk!Open(r, read) /\ (target = "resolved" => Desk!Reviewable(file))
    BY <1>1 DEF Desk!Transition
  <2> QED
    BY <2>1, <2>2, DeskOpens
<1>2. ASSUME NEW r \in Request, NEW u \in Analyst, NEW a \in Analyst \cup {NoOne},
             Desk!Assign(r, u, a)
      PROVE  DeskInv'
  BY <1>2, DeskOpens DEF Desk!Assign
<1>3. ASSUME NEW r \in Request, NEW u \in Analyst, NEW op \in {"note", "alert"},
             Desk!Attach(r, u, op)
      PROVE  DeskInv'
  BY <1>3, DeskOpens DEF Desk!Attach
<1>4. ASSUME NEW r \in Request, Desk!TransitionCommit(r) PROVE DeskInv'
  <2> DEFINE q == editing[r]
  <2>1. /\ q \in [op : {"transition"}, by : Analyst, target : Desk!Status,
                  resolver : Analyst \cup {NoOne}]
        /\ status' = q.target
        /\ resolver' = IF q.target = "resolved" /\ q.by # q.resolver
                       THEN q.by ELSE resolver
        /\ Desk!Close(r) /\ UNCHANGED <<owner, file>>
    BY <1>0, <1>4 DEF Desk!TransitionCommit, Desk!TypeOK, Desk!Idle
  <2>2. status' = "resolved" \/ resolver' # NoOne =>
           ToResolve(r) \/ status = "resolved" \/ resolver # NoOne
    BY <2>1 DEF ToResolve
  <2> QED
    BY <1>0, <2>1, <2>2, DeskCloses DEF Desk!TypeOK
<1>5. ASSUME NEW r \in Request, Desk!AssignCommit(r) PROVE DeskInv'
  <2>1. owner' \in Analyst \cup {NoOne}
    BY <1>0, <1>5 DEF Desk!AssignCommit, Desk!TypeOK, Desk!Idle
  <2> QED
    BY <1>0, <1>5, <2>1, DeskCloses DEF Desk!AssignCommit, Desk!TypeOK
<1>6. ASSUME NEW r \in Request, Desk!AttachCommit(r) PROVE DeskInv'
  BY <1>0, <1>6, DeskCloses DEF Desk!AttachCommit, Desk!TypeOK
<1>7. ASSUME UNCHANGED <<status, owner, resolver, editing, edits>>,
             helpers' \subseteq Invited,
             file \subseteq file', file' \subseteq Slot \cup {"note", "alert"}
      PROVE  DeskInv'
  <2>1. Desk!Reviewable(file) => Desk!Reviewable(file)'
    BY <1>7 DEF Desk!Reviewable
  <2> QED
    BY <1>7, <2>1 DEF DeskInv, Desk!TypeOK, ToResolve, Desk!ResolvedIsReviewable
<1>8. ASSUME NEW u \in Invited,
             Desk!AddCollaborator(u) \/ Desk!RemoveCollaborator(u)
      PROVE  DeskInv'
  BY <1>0, <1>7, <1>8 DEF Desk!AddCollaborator, Desk!RemoveCollaborator,
                          Desk!elsewhere, Desk!TypeOK
<1>9. ASSUME (\E s \in Slot : Desk!FileSlot(s)) \/ Desk!Correlate
      PROVE  DeskInv'
  BY <1>0, <1>7, <1>9 DEF Desk!FileSlot, Desk!Correlate, Desk!elsewhere, Desk!TypeOK
<1> QED
  BY <1>1, <1>2, <1>3, <1>4, <1>5, <1>6, <1>8, <1>9 DEF Desk!Next

LEMMA DeskRest ==
    ASSUME DeskInv, UNCHANGED deskVars
    PROVE  DeskInv'
BY DEF DeskInv, deskVars, Desk!TypeOK, ToResolve, Desk!Reviewable, Desk!ResolvedIsReviewable

----------------------------------------------------------------------------
(* The ledger of claims.                                                   *)

\* The assessments of a claim are its author's retractions and the words of
\* others.
Rows(s) == {s[k] : k \in 1 .. Len(s)}
Spoken(row, author) == row.outcome # "RETRACTED" => row.by # author

LedgerInv ==
    /\ Ledger!TypeOK
    /\ \A c \in Claim : \A row \in Rows(assessed[c]) : Spoken(row, claim[c].author)

\* The row e stands at place i of t, between the others of s.
PutIn(S, s, i, e, t) ==
    /\ t \in Seq(S) /\ Len(t) = Len(s) + 1
    /\ \A k \in 1 .. Len(s) + 1 :
          t[k] = IF k < i THEN s[k] ELSE IF k = i THEN e ELSE s[k - 1]

\* InsertAt puts a row among the others and keeps their order.
LEMMA Inserted ==
    ASSUME NEW S, NEW s \in Seq(S), NEW i \in 1 .. Len(s) + 1, NEW e \in S
    PROVE  PutIn(S, s, i, e, Ledger!InsertAt(s, i, e))
<1> DEFINE before == SubSeq(s, 1, i - 1)
           after == SubSeq(s, i, Len(s))
           upto == before \o <<e>>
<1>1. /\ before \in Seq(S) /\ Len(before) = i - 1
      /\ \A k \in 1 .. i - 1 : before[k] = s[k]
  BY SubSeqProperties
<1>2. /\ after \in Seq(S) /\ Len(after) = Len(s) - i + 1
      /\ \A k \in 1 .. Len(s) - i + 1 : after[k] = s[i + k - 1]
  BY SubSeqProperties
<1>3. <<e>> \in Seq(S) /\ Len(<<e>>) = 1 /\ <<e>>[1] = e
  OBVIOUS
<1> HIDE DEF before, after
<1>4. /\ upto \in Seq(S) /\ Len(upto) = i
      /\ \A k \in 1 .. i : upto[k] = IF k < i THEN s[k] ELSE e
  BY <1>1, <1>3
<1> HIDE DEF upto
<1>5. /\ upto \o after \in Seq(S) /\ Len(upto \o after) = Len(s) + 1
      /\ \A k \in 1 .. Len(s) + 1 :
            (upto \o after)[k] = IF k <= i THEN upto[k] ELSE after[k - i]
  <2>1. Len(upto) + Len(after) = Len(s) + 1
    BY <1>2, <1>4
  <2> QED
    BY <1>2, <1>4, <2>1, ConcatProperties
<1> DEFINE all == upto \o after
<1>6. Ledger!InsertAt(s, i, e) = all
  BY DEF Ledger!InsertAt, upto, before, after
<1>7. \A k \in 1 .. Len(s) + 1 : all[k] = IF k <= i THEN upto[k] ELSE after[k - i]
  BY <1>5
<1> HIDE DEF all
<1>8. Len(s) \in Nat /\ i \in Nat
  OBVIOUS
<1>9. ASSUME NEW k \in 1 .. Len(s) + 1
      PROVE  all[k] = IF k < i THEN s[k] ELSE IF k = i THEN e ELSE s[k - 1]
  <2>1. CASE k <= i
    <3>1. k \in 1 .. i
      BY <1>8, <2>1
    <3>2. all[k] = upto[k] /\ upto[k] = IF k < i THEN s[k] ELSE e
      BY <1>4, <1>7, <2>1, <3>1
    <3> QED
      BY <1>8, <2>1, <3>2
  <2>2. CASE ~(k <= i)
    <3>1. k - i \in 1 .. Len(s) - i + 1 /\ i + (k - i) - 1 = k - 1
      BY <1>8, <2>2
    <3>2. all[k] = after[k - i] /\ after[k - i] = s[i + (k - i) - 1]
      BY <1>2, <1>7, <2>2, <3>1
    <3> QED
      BY <1>8, <2>2, <3>1, <3>2
  <2> QED
    BY <2>1, <2>2
<1>10. all \in Seq(S) /\ Len(all) = Len(s) + 1
  BY <1>5 DEF all
<1> QED
  BY <1>6, <1>9, <1>10 DEF PutIn

LEMMA InsertedLen ==
    ASSUME NEW S, NEW s \in Seq(S), NEW i \in 1 .. Len(s) + 1, NEW e \in S
    PROVE  /\ Ledger!InsertAt(s, i, e) \in Seq(S)
           /\ Len(Ledger!InsertAt(s, i, e)) = Len(s) + 1
<1>a. PutIn(S, s, i, e, Ledger!InsertAt(s, i, e))
  BY Inserted
<1> QED
  BY <1>a DEF PutIn

\* Its rows are those that were there and the one put in.
LEMMA InsertedRows ==
    ASSUME NEW S, NEW s \in Seq(S), NEW i \in 1 .. Len(s) + 1, NEW e \in S
    PROVE  Rows(Ledger!InsertAt(s, i, e)) = Rows(s) \cup {e}
<1>a. PutIn(S, s, i, e, Ledger!InsertAt(s, i, e))
  BY Inserted
<1>1. /\ Ledger!InsertAt(s, i, e) \in Seq(S)
      /\ Len(Ledger!InsertAt(s, i, e)) = Len(s) + 1
      /\ \A k \in 1 .. Len(s) + 1 : Ledger!InsertAt(s, i, e)[k] =
            IF k < i THEN s[k] ELSE IF k = i THEN e ELSE s[k - 1]
  BY <1>a DEF PutIn
<1>2. PICK t : t = Ledger!InsertAt(s, i, e)
  OBVIOUS
<1>3. /\ Len(s) \in Nat /\ Len(t) = Len(s) + 1
      /\ \A k \in 1 .. Len(s) + 1 :
            t[k] = IF k < i THEN s[k] ELSE IF k = i THEN e ELSE s[k - 1]
  BY <1>1, <1>2
<1>4. ASSUME NEW k \in 1 .. Len(t) PROVE t[k] \in Rows(s) \cup {e}
  <2>1. CASE k < i
    BY <1>3, <2>1 DEF Rows
  <2>2. CASE k = i
    BY <1>3, <2>2
  <2>3. CASE k > i
    <3>1. k - 1 \in 1 .. Len(s) /\ t[k] = s[k - 1]
      BY <1>3, <2>3
    <3> QED
      BY <3>1 DEF Rows
  <2> QED
    BY <1>3, <2>1, <2>2, <2>3
<1>5. ASSUME NEW j \in 1 .. Len(s) PROVE s[j] \in Rows(t)
  <2>1. CASE j < i
    BY <1>3, <2>1 DEF Rows
  <2>2. CASE j >= i
    <3>1. j + 1 \in 1 .. Len(t) /\ t[j + 1] = s[j]
      BY <1>3, <2>2
    <3> QED
      BY <3>1 DEF Rows
  <2> QED
    BY <1>3, <2>1, <2>2
<1>6. e \in Rows(t)
  BY <1>3 DEF Rows
<1>7. Rows(t) = Rows(s) \cup {e}
  BY <1>4, <1>5, <1>6 DEF Rows
<1> QED
  BY <1>2, <1>7

\* An assessment leaves every row of the claim and adds one.
LEMMA Assessing ==
    ASSUME GovernanceAssumption, LedgerInv, NEW c \in Claim, NEW u \in Analyst,
           NEW o \in Ledger!Outcome, Ledger!Assess(u, c, o)
    PROVE  /\ assessed' \in [Claim -> UNION {[1 .. n -> Ledger!Assessment] :
                                                n \in 0 .. MaxAssessments}]
           /\ \A d \in Claim \ {c} : assessed'[d] = assessed[d]
           /\ Rows(assessed'[c]) = Rows(assessed[c]) \cup {[outcome |-> o, by |-> u]}
<1> DEFINE s == assessed[c]
           row == [outcome |-> o, by |-> u]
           A == Ledger!Assessment
           All == UNION {[1 .. n -> A] : n \in 0 .. MaxAssessments}
<1>1. /\ assessed \in [Claim -> All]
      /\ row \in A /\ Len(s) < MaxAssessments
      /\ \E i \in 1 .. Len(s) + 1 :
            assessed' = [assessed EXCEPT ![c] = Ledger!InsertAt(@, i, row)]
  BY DEF Ledger!Assess, Ledger!Assessment, LedgerInv, Ledger!TypeOK
<1> HIDE DEF A, row
<1>2. PICK n \in 0 .. MaxAssessments : s \in [1 .. n -> A]
  <2>1. s \in All
    BY <1>1
  <2> HIDE DEF s
  <2> QED
    BY <2>1
<1>3. MaxAssessments \in Nat
  BY GovernanceAssumption DEF Ledger!LedgerAssumption
<1>4. s \in Seq(A) /\ Len(s) = n
  BY <1>2, <1>3
<1>5. PICK i \in 1 .. Len(s) + 1 :
          assessed' = [assessed EXCEPT ![c] = Ledger!InsertAt(s, i, row)]
  BY <1>1
<1>6. PICK t : t = Ledger!InsertAt(s, i, row)
  OBVIOUS
<1>7. assessed'[c] = t /\ assessed' = [assessed EXCEPT ![c] = t]
  BY <1>1, <1>5, <1>6
<1>8. \A d \in Claim \ {c} : assessed'[d] = assessed[d]
  BY <1>1, <1>7
<1>9. t \in Seq(A) /\ Len(t) = Len(s) + 1
  <2>0. row \in A
    BY <1>1
  <2> HIDE DEF s
  <2> QED
    BY <1>4, <1>6, <2>0, InsertedLen
<1>10. Rows(t) = Rows(s) \cup {row}
  BY <1>1, <1>4, <1>6, InsertedRows
<1>11. assessed' \in [Claim -> All]
  <2>1. t \in [1 .. n + 1 -> A] /\ n + 1 \in 0 .. MaxAssessments
    BY <1>1, <1>3, <1>4, <1>9
  <2>2. t \in All
    BY <2>1
  <2> QED
    BY <1>1, <1>7, <2>2
<1> QED
  BY <1>7, <1>8, <1>10, <1>11 DEF A, row

\* A claim is stated once, and a statement leaves the others as they are.
LEMMA Stating ==
    ASSUME GovernanceAssumption, LedgerInv, NEW c \in Claim,
           NEW author \in Analyst \cup {Machine}, NEW of \in Finding \cup {NoOne},
           NEW n \in 0 .. MaxTexts, Ledger!State(c, author, of, n),
           of # NoOne => \A d \in Ledger!Stated : claim[d].of # of
    PROVE  LedgerInv'
<1> DEFINE row == [author |-> author, of |-> of]
<1>1. /\ Ledger!TypeOK /\ c \notin Ledger!Stated
      /\ claim' = [claim EXCEPT ![c] = row]
      /\ texts' = [texts EXCEPT ![c] = n]
      /\ UNCHANGED <<assessed, related, relating>>
      /\ NoOne \notin Analyst \cup {Machine}
  BY GovernanceAssumption DEF LedgerInv, Ledger!State, Ledger!LedgerAssumption
<1>2. /\ claim'[c] = row /\ row # Ledger!Unstated
      /\ \A d \in Claim \ {c} : claim'[d] = claim[d]
      /\ \A d \in Claim \ {c} : texts'[d] = texts[d]
  BY <1>1 DEF Ledger!TypeOK, Ledger!Unstated
<1>3. Ledger!Stated' = Ledger!Stated \cup {c}
  BY <1>2 DEF Ledger!Stated, Ledger!Unstated
<1>4. assessed[c] = <<>>
  BY <1>1 DEF Ledger!TypeOK
<1>5. /\ claim' \in [Claim -> [author : Analyst \cup {Machine, NoOne},
                               of : Finding \cup {NoOne}]]
      /\ texts' \in [Claim -> 0 .. MaxTexts]
  BY <1>1 DEF Ledger!TypeOK
<1>6. \A d, e \in Ledger!Stated' : claim'[d].of # NoOne /\ claim'[d].of = claim'[e].of
                                   => d = e
  <2>1. Ledger!Stated \subseteq Claim \ {c}
    BY <1>1 DEF Ledger!Stated
  <2> QED
    BY <1>1, <1>2, <1>3, <2>1 DEF Ledger!TypeOK
<1>7. related' \subseteq Ledger!Stated' \X Ledger!Stated' \X Ledger!Kind
  BY <1>1, <1>3 DEF Ledger!TypeOK
<1>8. \A d \in Claim \ Ledger!Stated' : assessed'[d] = <<>> /\ texts'[d] = 0
  BY <1>1, <1>2, <1>3 DEF Ledger!TypeOK
<1>9. relating' \in [Relater -> {Ledger!NoRelation}
                        \cup (Ledger!Stated' \X Ledger!Stated' \X Ledger!Kind)]
  <2>1. relating \in [Relater -> {Ledger!NoRelation}
                        \cup (Ledger!Stated \X Ledger!Stated \X Ledger!Kind)]
    BY <1>1 DEF Ledger!TypeOK
  <2>2. Ledger!Stated \X Ledger!Stated \X Ledger!Kind
           \subseteq Ledger!Stated' \X Ledger!Stated' \X Ledger!Kind
    BY <1>3
  <2> QED
    BY <1>1, <2>1, <2>2
<1>10. Ledger!TypeOK'
  BY <1>1, <1>5, <1>6, <1>7, <1>8, <1>9 DEF Ledger!TypeOK
<1>11. \A d \in Claim : \A r \in Rows(assessed'[d]) : Spoken(r, claim'[d].author)
  <2>1. Rows(assessed[c]) = {}
    BY <1>4 DEF Rows
  <2> QED
    BY <1>1, <1>2, <2>1 DEF LedgerInv
<1> QED
  BY <1>10, <1>11 DEF LedgerInv

LEMMA LedgerInit == ASSUME GovernanceAssumption, Ledger!Init PROVE LedgerInv
<1>1. /\ Ledger!Stated = {} /\ claim = [c \in Claim |-> Ledger!Unstated]
      /\ assessed = [c \in Claim |-> <<>>] /\ MaxAssessments \in Nat /\ MaxTexts \in Nat
  BY GovernanceAssumption DEF Ledger!Init, Ledger!Stated, Ledger!LedgerAssumption
<1>2. assessed \in [Claim -> UNION {[1 .. n -> Ledger!Assessment] : n \in 0 .. MaxAssessments}]
  <2>1. <<>> \in [1 .. 0 -> Ledger!Assessment] /\ 0 \in 0 .. MaxAssessments
    BY <1>1
  <2> QED
    BY <1>1, <2>1
<1>3. \A c \in Claim : Rows(assessed[c]) = {}
  BY <1>1 DEF Rows
<1> QED
  BY <1>1, <1>2, <1>3 DEF LedgerInv, Ledger!Init, Ledger!TypeOK, Ledger!Unstated

LEMMA LedgerStep ==
    ASSUME GovernanceAssumption, LedgerInv, Ledger!Next
    PROVE  LedgerInv'
<1>0. /\ Ledger!TypeOK /\ MaxTexts \in Nat \ {0} /\ Machine \notin Analyst
      /\ NoOne \notin Finding
  BY GovernanceAssumption DEF LedgerInv, Ledger!LedgerAssumption
<1>1. ASSUME NEW u \in Analyst, NEW c \in Claim, Ledger!CreateHumanClaim(u, c)
      PROVE  LedgerInv'
  BY <1>0, <1>1, Stating DEF Ledger!CreateHumanClaim
<1>2. ASSUME NEW c \in Claim, NEW f \in Finding, Ledger!RecordFinding(c, f)
      PROVE  LedgerInv'
  BY <1>0, <1>2, Stating DEF Ledger!RecordFinding
<1>3. ASSUME NEW u \in Analyst, NEW c \in Claim, NEW o \in Ledger!Outcome,
             Ledger!Assess(u, c, o)
      PROVE  LedgerInv'
  <2> DEFINE row == [outcome |-> o, by |-> u]
  <2>1. /\ assessed' \in [Claim -> UNION {[1 .. n -> Ledger!Assessment] :
                                             n \in 0 .. MaxAssessments}]
        /\ \A d \in Claim \ {c} : assessed'[d] = assessed[d]
        /\ Rows(assessed'[c]) = Rows(assessed[c]) \cup {row}
    BY <1>3, Assessing
  <2>2. /\ c \in Ledger!Stated /\ (o = "RETRACTED") = (claim[c].author = u)
        /\ UNCHANGED <<claim, related, texts, relating>>
    BY <1>3 DEF Ledger!Assess
  <2>3. Ledger!TypeOK'
    BY <1>0, <2>1, <2>2 DEF Ledger!TypeOK, Ledger!Stated
  <2>4. Spoken(row, claim[c].author)
    BY <2>2 DEF Spoken
  <2>5. \A d \in Claim : \A r \in Rows(assessed'[d]) : Spoken(r, claim'[d].author)
    BY <2>1, <2>2, <2>4 DEF LedgerInv
  <2> QED
    BY <2>3, <2>5 DEF LedgerInv
<1>4. ASSUME NEW r \in Relater, NEW c \in Claim, NEW d \in Claim, NEW k \in Ledger!Kind,
             Ledger!Relate(r, c, d, k)
      PROVE  LedgerInv'
  <2>1. /\ {c, d} \subseteq Ledger!Stated /\ relating' = [relating EXCEPT ![r] = <<c, d, k>>]
        /\ UNCHANGED <<claim, assessed, related, texts>>
    BY <1>4 DEF Ledger!Relate
  <2>2. relating' \in [Relater -> {Ledger!NoRelation}
                          \cup (Ledger!Stated \X Ledger!Stated \X Ledger!Kind)]
    BY <1>0, <2>1 DEF Ledger!TypeOK
  <2>3. Ledger!TypeOK'
    BY <1>0, <2>1, <2>2 DEF Ledger!TypeOK, Ledger!Stated
  <2> QED
    BY <2>1, <2>3 DEF LedgerInv
<1>5. ASSUME NEW r \in Relater, Ledger!RelateCommit(r) PROVE LedgerInv'
  <2>1. /\ relating[r] # Ledger!NoRelation /\ related' = related \cup {relating[r]}
        /\ relating' = [relating EXCEPT ![r] = Ledger!NoRelation]
        /\ UNCHANGED <<claim, assessed, texts>>
    BY <1>5 DEF Ledger!RelateCommit
  <2>2. /\ relating' \in [Relater -> {Ledger!NoRelation}
                             \cup (Ledger!Stated \X Ledger!Stated \X Ledger!Kind)]
        /\ related' \subseteq Ledger!Stated \X Ledger!Stated \X Ledger!Kind
    BY <1>0, <2>1 DEF Ledger!TypeOK
  <2>3. Ledger!TypeOK'
    BY <1>0, <2>1, <2>2 DEF Ledger!TypeOK, Ledger!Stated
  <2> QED
    BY <2>1, <2>3 DEF LedgerInv
<1>6. ASSUME NEW c \in Claim, Ledger!AddPresentation(c) PROVE LedgerInv'
  <2>1. /\ c \in Ledger!Stated /\ texts[c] < MaxTexts
        /\ texts' = [texts EXCEPT ![c] = @ + 1]
        /\ UNCHANGED <<claim, assessed, related, relating>>
    BY <1>6 DEF Ledger!AddPresentation
  <2>2. Ledger!TypeOK'
    BY <1>0, <2>1 DEF Ledger!TypeOK, Ledger!Stated
  <2> QED
    BY <2>1, <2>2 DEF LedgerInv
<1> QED
  BY <1>1, <1>2, <1>3, <1>4, <1>5, <1>6 DEF Ledger!Next

LEMMA LedgerRest ==
    ASSUME LedgerInv, UNCHANGED ledgerVars
    PROVE  LedgerInv'
BY DEF LedgerInv, ledgerVars, Ledger!TypeOK, Ledger!Stated, Rows

\* What a claim that reads as validated rests on.
Unanimous(c) ==
    /\ ~Ledger!Superseded(c) /\ ~Ledger!Contradicted(c)
    /\ \A row \in Rows(assessed[c]) : row.outcome = "VALIDATED"

LEMMA OutcomesAreRows ==
    ASSUME NEW c \in Claim
    PROVE  Ledger!Outcomes(c) = {row.outcome : row \in Rows(assessed[c])}
BY DEF Ledger!Outcomes, Rows

LEMMA RowShape ==
    ASSUME LedgerInv, NEW c \in Claim
    PROVE  /\ assessed[c] \in Seq(Ledger!Assessment)
           /\ \A row \in Rows(assessed[c]) : row \in Ledger!Assessment
<1> DEFINE A == Ledger!Assessment
           s == assessed[c]
<1> HIDE DEF A
<1>1. s \in UNION {[1 .. n -> A] : n \in 0 .. MaxAssessments}
  BY DEF LedgerInv, Ledger!TypeOK, A
<1>2. PICK n \in 0 .. MaxAssessments : s \in [1 .. n -> A]
  <2> HIDE DEF s
  <2> QED
    BY <1>1
<1>3. s \in Seq(A)
  BY <1>2
<1>4. \A row \in Rows(s) : row \in A
  BY <1>3 DEF Rows
<1> QED
  BY <1>3, <1>4 DEF A

\* Outcomes conflict when two of them differ.
LEMMA Unlike ==
    ASSUME NEW O, O \subseteq Ledger!Outcome
    PROVE  Cardinality(O) > 1 <=> \E x, y \in O : x # y
<1>1. IsFiniteSet(O) /\ Cardinality(O) \in Nat
  <2>1. Ledger!Outcome = ((({} \cup {"VALIDATED"}) \cup {"REJECTED"})
                          \cup {"INSUFFICIENT_EVIDENCE"}) \cup {"RETRACTED"}
    BY DEF Ledger!Outcome
  <2>2. IsFiniteSet(Ledger!Outcome)
    <3>1. IsFiniteSet({} \cup {"VALIDATED"})
      BY FS_EmptySet, FS_AddElement
    <3>2. IsFiniteSet(({} \cup {"VALIDATED"}) \cup {"REJECTED"})
      BY <3>1, FS_AddElement
    <3>3. IsFiniteSet((({} \cup {"VALIDATED"}) \cup {"REJECTED"})
                      \cup {"INSUFFICIENT_EVIDENCE"})
      BY <3>2, FS_AddElement
    <3> QED
      BY <2>1, <3>3, FS_AddElement
  <2> QED
    BY <2>2, FS_Subset, FS_CardinalityType
<1>2. ASSUME NEW x \in O, NEW y \in O, x # y PROVE Cardinality(O) > 1
  <2>1. Cardinality(O) # 0 /\ Cardinality(O) # 1
    BY <1>1, <1>2, FS_EmptySet, FS_Singleton
  <2> QED
    BY <1>1, <2>1
<1>3. ASSUME NEW x \in O, \A y \in O : y = x PROVE Cardinality(O) = 1
  <2>1. O = {x}
    BY <1>3
  <2> QED
    BY <2>1, FS_Singleton
<1>4. O = {} => Cardinality(O) = 0
  BY FS_EmptySet
<1> QED
  BY <1>1, <1>2, <1>3, <1>4

\* The ledger counts as everyone does.
LEMMA LedgerCounts == ASSUME NEW O PROVE Ledger!Cardinality(O) = Cardinality(O)
BY DEF Cardinality, Ledger!Cardinality

LEMMA ValidatedIsUnanimous ==
    LedgerInv => \A c \in Claim : Ledger!ReadsAs(c) = "VALIDATED" => Unanimous(c)
<1> SUFFICES ASSUME LedgerInv, NEW c \in Claim, Ledger!ReadsAs(c) = "VALIDATED"
             PROVE  Unanimous(c)
  OBVIOUS
<1> DEFINE s == assessed[c]
<1>1. /\ ~Ledger!Superseded(c) /\ ~Ledger!Contradicted(c)
      /\ ~Ledger!Conflicting(c) /\ Ledger!Latest(c) = "VALIDATED"
  BY DEF Ledger!ReadsAs
<1>2. s \in Seq(Ledger!Assessment) /\ \A row \in Rows(s) : row \in Ledger!Assessment
  BY RowShape
<1>3. s # <<>> /\ s[Len(s)].outcome = "VALIDATED"
  BY <1>1 DEF Ledger!Latest, Ledger!Last
<1>4. "VALIDATED" \in Ledger!Outcomes(c)
  <2>1. Len(s) \in 1 .. Len(s)
    BY <1>2, <1>3
  <2> QED
    BY <1>3, <2>1 DEF Ledger!Outcomes
<1>5. Ledger!Outcomes(c) \subseteq Ledger!Outcome
  BY <1>2, OutcomesAreRows DEF Ledger!Assessment
<1>6. \A o \in Ledger!Outcomes(c) : o = "VALIDATED"
  <2>1. PICK O : O = Ledger!Outcomes(c)
    OBVIOUS
  <2>2. ~(Cardinality(O) > 1) /\ O \subseteq Ledger!Outcome
    BY <1>1, <1>5, <2>1, LedgerCounts DEF Ledger!Conflicting
  <2> QED
    BY <1>4, <2>1, <2>2, Unlike
<1> QED
  BY <1>1, <1>6, OutcomesAreRows DEF Unanimous

LEMMA UnanimousReads ==
    ASSUME LedgerInv, NEW c \in Claim, Unanimous(c)
    PROVE  Ledger!ReadsAs(c) \in {"PROPOSED", "VALIDATED"}
<1> DEFINE s == assessed[c]
<1>1. s \in Seq(Ledger!Assessment)
  BY RowShape
<1>2. Ledger!Latest(c) \in {"NONE", "VALIDATED"}
  <2>1. CASE s = <<>>
    BY <2>1 DEF Ledger!Latest
  <2>2. CASE s # <<>>
    <3>1. s[Len(s)] \in Rows(s)
      <4>1. Len(s) \in 1 .. Len(s)
        BY <1>1, <2>2
      <4> QED
        BY <4>1 DEF Rows
    <3> QED
      BY <2>2, <3>1 DEF Ledger!Latest, Ledger!Last, Unanimous
  <2> QED
    BY <2>1, <2>2
<1>3. ~Ledger!Conflicting(c)
  <2>1. Ledger!Outcomes(c) \subseteq {"VALIDATED"}
    BY OutcomesAreRows DEF Unanimous
  <2>2. Ledger!Outcomes(c) \subseteq Ledger!Outcome
    BY <2>1 DEF Ledger!Outcome
  <2> QED
    <3>1. PICK O : O = Ledger!Outcomes(c)
      OBVIOUS
    <3>2. ~(Cardinality(O) > 1)
      BY <2>1, <2>2, <3>1, Unlike
    <3> QED
      BY <3>1, <3>2, LedgerCounts DEF Ledger!Conflicting
<1> QED
  BY <1>2, <1>3 DEF Ledger!ReadsAs, Unanimous

LEMMA LedgerInvIsEnough == LedgerInv => Ledger!ValidatedByOthers
<1> SUFFICES ASSUME LedgerInv, NEW c \in Claim, Ledger!ReadsAs(c) = "VALIDATED",
                    NEW i \in 1 .. Len(assessed[c])
             PROVE  /\ assessed[c][i].outcome = "VALIDATED"
                    /\ assessed[c][i].by # claim[c].author
  BY DEF Ledger!ValidatedByOthers
<1>1. Unanimous(c) /\ assessed[c][i] \in Rows(assessed[c])
  BY ValidatedIsUnanimous DEF Rows
<1> QED
  BY <1>1 DEF Unanimous, LedgerInv, Spoken

\* Rows and relations are only ever added.
LEMMA LedgerGrows ==
    ASSUME GovernanceAssumption, LedgerInv, Ledger!Next
    PROVE  /\ related \subseteq related'
           /\ \A c \in Claim : Rows(assessed[c]) \subseteq Rows(assessed'[c])
<1>1. ASSUME NEW u \in Analyst, NEW c \in Claim, NEW o \in Ledger!Outcome,
             Ledger!Assess(u, c, o)
      PROVE  /\ related \subseteq related'
             /\ \A d \in Claim : Rows(assessed[d]) \subseteq Rows(assessed'[d])
  <2>1. /\ \A d \in Claim \ {c} : assessed'[d] = assessed[d]
        /\ Rows(assessed'[c]) = Rows(assessed[c]) \cup {[outcome |-> o, by |-> u]}
    BY <1>1, Assessing
  <2>2. related' = related
    BY <1>1 DEF Ledger!Assess
  <2>3. ASSUME NEW d \in Claim PROVE Rows(assessed[d]) \subseteq Rows(assessed'[d])
    <3>1. CASE d = c
      BY <2>1, <3>1
    <3>2. CASE d # c
      <4>1. assessed'[d] = assessed[d]
        BY <2>1, <3>2
      <4> QED
        BY <4>1
    <3> QED
      BY <3>1, <3>2
  <2> QED
    BY <2>2, <2>3
<1>2. ASSUME NEW r \in Relater, Ledger!RelateCommit(r)
      PROVE  related \subseteq related' /\ UNCHANGED assessed
  BY <1>2 DEF Ledger!RelateCommit
<1>3. ASSUME UNCHANGED <<related, assessed>>
      PROVE  /\ related \subseteq related'
             /\ \A c \in Claim : Rows(assessed[c]) \subseteq Rows(assessed'[c])
  BY <1>3
<1>4. ASSUME Ledger!Next
      PROVE  \/ \E u \in Analyst, c \in Claim, o \in Ledger!Outcome : Ledger!Assess(u, c, o)
             \/ \E r \in Relater : Ledger!RelateCommit(r)
             \/ UNCHANGED <<related, assessed>>
  BY <1>4 DEF Ledger!Next, Ledger!CreateHumanClaim, Ledger!RecordFinding, Ledger!State,
              Ledger!Relate, Ledger!AddPresentation
<1> QED
  BY <1>1, <1>2, <1>3, <1>4

LEMMA TrustStep ==
    ASSUME GovernanceAssumption, LedgerInv, Ledger!Next \/ UNCHANGED ledgerVars,
           \A c \in Claim : Ledger!ReadsAs(c)' = "VALIDATED" => Unanimous(c)',
           NEW c \in Claim, Ledger!ReadsAs(c)' = "VALIDATED"
    PROVE  Ledger!ReadsAs(c) \in {"PROPOSED", "VALIDATED"}
<1>1. related \subseteq related' /\ Rows(assessed[c]) \subseteq Rows(assessed'[c])
  <2>1. CASE Ledger!Next
    BY <2>1, LedgerGrows
  <2>2. CASE UNCHANGED ledgerVars
    BY <2>2 DEF ledgerVars
  <2> QED
    BY <2>1, <2>2
<1>2. Unanimous(c)
  BY <1>1 DEF Unanimous, Ledger!Superseded, Ledger!Contradicted
<1> QED
  BY <1>2, UnanimousReads
----------------------------------------------------------------------------
(* The release of playbooks.                                               *)

\* The catalogue ships what the version runs.
Offered(n) == Release!Implemented /\ version[n].procedure = catalogue

\* What a listing has read: versions that exist, in the order of created_at.
\* Only a version it saw retired, or one the catalogue does not offer, is
\* retired by now.
Listing(q) ==
    /\ q.order \in Seq(Release!Number)
    /\ \A n \in DOMAIN q.seen :
          /\ n \in Release!Existing
          /\ \E k \in 1 .. Len(q.order) : q.order[k] = n
          /\ q.seen[n] \in {"DRAFT", "APPROVED", "RETIRED"}
          /\ q.seen[n] = "RETIRED" => version[n].status = "RETIRED"
          /\ version[n].status = "RETIRED" => q.seen[n] = "RETIRED" \/ ~Offered(n)

BindingState == {"NONE", "PENDING", "SYNCHRONIZED", "ARMED"}

ReadOK(q) ==
    \/ q = Release!Idle
    \/ /\ q.op \in {"bind", "switch"} /\ q.of \in Release!Existing /\ q.at \in Instance
       /\ q.op = "switch" => q.was \in BindingState
    \/ q.op = "seed" /\ Listing(q)

ReleaseInv ==
    /\ Release!TypeOK
    /\ created \in Seq(Release!Number)
    /\ releasing = [r \in Request |-> releasing[r]]
    /\ \A r \in Request : ReadOK(releasing[r])

\* What no step takes back: a version that exists keeps its procedure, and
\* once it is retired stays so; while the catalogue offers it, it is not.
Onward ==
    /\ catalogue' = catalogue
    /\ Release!Existing \subseteq Release!Existing'
    /\ \A n \in Release!Existing :
          /\ version'[n].procedure = version[n].procedure
          /\ version[n].status = "RETIRED" => version'[n].status = "RETIRED"
          /\ version'[n].status = "RETIRED" => version[n].status = "RETIRED" \/ ~Offered(n)

\* Existing is counted as every set is, and an appended version joins it.
LEMMA ReleaseCounts == ASSUME NEW O PROVE Release!Cardinality(O) = Cardinality(O)
BY DEF Cardinality, Release!Cardinality

LEMMA Appended ==
    ASSUME NEW n \in Release!Number, created \in Seq(Release!Number),
           created' = Append(created, n)
    PROVE  /\ created' \in Seq(Release!Number) /\ Len(created') = Len(created) + 1
           /\ Release!Existing' = Release!Existing \cup {n}
<1>1. /\ created' \in Seq(Release!Number) /\ Len(created') = Len(created) + 1
      /\ \A k \in 1 .. Len(created) : created'[k] = created[k]
      /\ created'[Len(created) + 1] = n
  BY AppendProperties
<1>2. Release!Existing' \subseteq Release!Existing \cup {n}
  <2>1. ASSUME NEW k \in 1 .. Len(created') PROVE created'[k] \in Release!Existing \cup {n}
    <3>1. CASE k \in 1 .. Len(created)
      BY <1>1, <3>1 DEF Release!Existing
    <3>2. CASE k = Len(created) + 1
      BY <1>1, <3>2
    <3> QED
      BY <1>1, <3>1, <3>2
  <2> QED
    BY <2>1 DEF Release!Existing
<1>3. Release!Existing \cup {n} \subseteq Release!Existing'
  <2>1. ASSUME NEW k \in 1 .. Len(created) PROVE created[k] \in Release!Existing'
    BY <1>1 DEF Release!Existing
  <2>2. n \in Release!Existing'
    BY <1>1 DEF Release!Existing
  <2> QED
    BY <2>1, <2>2 DEF Release!Existing
<1> QED
  BY <1>1, <1>2, <1>3

LEMMA ReadKept ==
    ASSUME Onward, NEW q, ReadOK(q)
    PROVE  ReadOK(q)'
<1>1. CASE q.op = "seed" /\ Listing(q)
  <2>1. ASSUME NEW n \in DOMAIN q.seen
        PROVE  /\ n \in Release!Existing'
               /\ \E k \in 1 .. Len(q.order) : q.order[k] = n
               /\ q.seen[n] \in {"DRAFT", "APPROVED", "RETIRED"}
               /\ q.seen[n] = "RETIRED" => version'[n].status = "RETIRED"
               /\ version'[n].status = "RETIRED" => q.seen[n] = "RETIRED" \/ ~Offered(n)'
    <3>1. n \in Release!Existing /\ (Offered(n)' <=> Offered(n))
      BY <1>1 DEF Onward, Listing, Offered, Release!Implemented
    <3> QED
      BY <1>1, <3>1 DEF Onward, Listing
  <2>2. Listing(q)'
    BY <1>1, <2>1 DEF Listing, Release!Number
  <2> QED
    BY <1>1, <2>2 DEF ReadOK
<1>2. CASE q = Release!Idle
  BY <1>2 DEF ReadOK, Release!Idle
<1> QED
  BY <1>1, <1>2 DEF ReadOK, Onward

\* A step that moves onward and reads well keeps the invariant.
LEMMA ReleaseKept ==
    ASSUME ReleaseInv, Onward, Release!TypeOK', created' \in Seq(Release!Number),
           releasing' = [s \in Request |-> releasing'[s]],
           \A s \in Request : ReadOK(releasing'[s])
    PROVE  ReleaseInv'
<1>1. ASSUME NEW s \in Request PROVE ReadOK(releasing[s])'
  <2>1. PICK q : q = releasing'[s]
    OBVIOUS
  <2>2. ReadOK(q)
    BY <2>1
  <2>3. ReadOK(q)'
    BY <2>2, ReadKept
  <2> QED
    BY <2>1, <2>3
<1> QED
  BY <1>1 DEF ReleaseInv, Release!Number

LEMMA OneRead ==
    ASSUME ReleaseInv, NEW r \in Request, NEW to, ReadOK(to),
           releasing' = [releasing EXCEPT ![r] = to]
    PROVE  /\ releasing' = [s \in Request |-> releasing'[s]]
           /\ \A s \in Request : ReadOK(releasing'[s])
           /\ \A s \in Request : releasing'[s].op \in {"none", "seed", "bind", "switch"}
<1>1. ASSUME NEW q, ReadOK(q) PROVE q.op \in {"none", "seed", "bind", "switch"}
  BY <1>1 DEF ReadOK, Release!Idle
<1>2. releasing' = [s \in Request |-> IF s = r THEN to ELSE releasing[s]]
  BY DEF ReleaseInv
<1>3. \A s \in Request : ReadOK(releasing'[s])
  BY <1>2 DEF ReleaseInv
<1> QED
  BY <1>1, <1>2, <1>3

\* A step that leaves the versions as they are moves onward.
LEMMA VersionsRest ==
    ASSUME ReleaseInv, UNCHANGED <<catalogue, version, created>>
    PROVE  /\ Onward /\ created' \in Seq(Release!Number)
           /\ Release!Existing' = Release!Existing
           /\ Release!Cardinality(Release!Existing)' = Release!Cardinality(Release!Existing)
BY DEF ReleaseInv, Onward, Release!Existing, Release!Number

LEMMA BindingsMove ==
    ASSUME ReleaseInv, UNCHANGED <<catalogue, version, created, remaps>>,
           mode' \in 0 .. TopMode,
           binding' \in [Release!Number \X Instance -> BindingState],
           \A n \in Release!Number, i \in Instance :
              binding'[<<n, i>>] # "NONE" => n \in Release!Existing,
           grip' \in [Action -> {"NONE", "OFF", "VERIFIED"}],
           connector' \in [Action -> BOOLEAN],
           released' \in 0 .. MaxReleases,
           releasing' = [s \in Request |-> releasing'[s]],
           \A s \in Request : /\ ReadOK(releasing'[s])
                              /\ releasing'[s].op \in {"none", "seed", "bind", "switch"}
    PROVE  ReleaseInv'
<1>1. Release!TypeOK'
  BY VersionsRest DEF ReleaseInv, Release!TypeOK, BindingState, Release!Number
<1> QED
  BY <1>1, VersionsRest, ReleaseKept

\* Actions, connectors, a probe and the approval mode: no request moves.
LEMMA ConfigurationStep ==
    ASSUME GovernanceAssumption, ReleaseInv,
           \/ \E m \in 0 .. TopMode : Release!UpdateApprovalGovernance(m)
           \/ \E a \in Action : \/ Release!ConfigureAction(a) \/ Release!VerifyAction(a)
                                \/ Release!ConnectorChanges(a)
           \/ \E n \in Release!Number, i \in Instance : Release!ProbeBinding(n, i)
    PROVE  ReleaseInv'
<1> USE DEF BindingState
<1>0. /\ binding \in [Release!Number \X Instance -> BindingState]
      /\ \A n \in Release!Number, i \in Instance :
            binding[<<n, i>>] # "NONE" => n \in Release!Existing
      /\ mode \in 0 .. TopMode /\ released \in 0 .. MaxReleases
      /\ grip \in [Action -> {"NONE", "OFF", "VERIFIED"}]
      /\ connector \in [Action -> BOOLEAN]
      /\ releasing = [s \in Request |-> releasing[s]]
      /\ \A s \in Request : /\ ReadOK(releasing[s])
                            /\ releasing[s].op \in {"none", "seed", "bind", "switch"}
  BY DEF ReleaseInv, Release!TypeOK
<1>1. ASSUME NEW m \in 0 .. TopMode, Release!UpdateApprovalGovernance(m) PROVE ReleaseInv'
  BY <1>0, <1>1, BindingsMove DEF Release!UpdateApprovalGovernance,
     Release!actionVars, Release!requestVars, Release!shipped
<1>2. ASSUME NEW a \in Action,
             \/ Release!ConfigureAction(a) \/ Release!VerifyAction(a)
             \/ Release!ConnectorChanges(a)
      PROVE  ReleaseInv'
  <2>1. /\ UNCHANGED <<catalogue, mode, version, created, remaps, binding, released, releasing>>
        /\ grip' \in [Action -> {"NONE", "OFF", "VERIFIED"}]
        /\ connector' \in [Action -> BOOLEAN]
    BY <1>0, <1>2 DEF Release!ConfigureAction, Release!VerifyAction,
       Release!ConnectorChanges, Release!versionVars, Release!requestVars, Release!shipped
  <2> QED
    BY <1>0, <2>1, BindingsMove
<1>3. ASSUME NEW n \in Release!Number, NEW i \in Instance, Release!ProbeBinding(n, i)
      PROVE  ReleaseInv'
  <2>1. /\ UNCHANGED <<catalogue, mode, version, created, remaps, released, releasing,
                       grip, connector>>
        /\ binding' = [binding EXCEPT ![<<n, i>>] = "ARMED"]
        /\ n \in Release!Existing
    BY <1>0, <1>3 DEF Release!ProbeBinding, Release!actionVars, Release!versionVars,
       Release!requestVars, Release!shipped
  <2>2. /\ binding' \in [Release!Number \X Instance -> BindingState]
        /\ \A m \in Release!Number, j \in Instance :
              binding'[<<m, j>>] # "NONE" => m \in Release!Existing
    BY <1>0, <2>1
  <2> QED
    BY <1>0, <2>1, <2>2, BindingsMove
<1> QED
  BY <1>1, <1>2, <1>3

\* Requests that open, leave or write bindings: the versions rest.
LEMMA RequestStep ==
    ASSUME GovernanceAssumption, ReleaseInv, NEW r \in Request,
           \/ Release!Abandon(r) \/ Release!CreateBindingCommit(r)
           \/ Release!ToggleCommit(r) \/ Release!Seed(r)
           \/ \E n \in Release!Number, i \in Instance : Release!CreateBinding(r, n, i)
           \/ \E on \in BOOLEAN : Release!Toggle(r, on)
    PROVE  ReleaseInv'
<1> USE DEF Release!actionVars, Release!versionVars, Release!shipped
<1>0. /\ binding \in [Release!Number \X Instance -> BindingState]
      /\ \A n \in Release!Number, i \in Instance :
            binding[<<n, i>>] # "NONE" => n \in Release!Existing
      /\ mode \in 0 .. TopMode /\ released \in 0 .. MaxReleases
      /\ grip \in [Action -> {"NONE", "OFF", "VERIFIED"}]
      /\ connector \in [Action -> BOOLEAN]
      /\ ReadOK(releasing[r])
      /\ {Runner, Local} \subseteq Instance /\ MaxReleases \in Nat
      /\ Release!Existing \subseteq Release!Number
  BY GovernanceAssumption DEF ReleaseInv, Release!TypeOK, BindingState,
     Release!ReleaseAssumption
<1>1. ASSUME NEW to, ReadOK(to), releasing' = [releasing EXCEPT ![r] = to],
             UNCHANGED <<catalogue, mode, version, created, remaps, grip, connector>>,
             released' \in 0 .. MaxReleases,
             binding' \in [Release!Number \X Instance -> BindingState],
             \A n \in Release!Number, i \in Instance :
                binding'[<<n, i>>] # "NONE" => n \in Release!Existing
      PROVE  ReleaseInv'
  BY <1>0, <1>1, OneRead, BindingsMove
<1>2. ReadOK(Release!Idle)
  BY DEF ReadOK
<1>3. ASSUME NEW read, ReadOK(read), Release!Open(r, read), UNCHANGED binding,
             UNCHANGED <<catalogue, mode, version, created, remaps, grip, connector>>
      PROVE  ReleaseInv'
  <2>1. released' \in 0 .. MaxReleases /\ releasing' = [releasing EXCEPT ![r] = read]
    BY <1>0, <1>3 DEF Release!Open
  <2> QED
    BY <1>0, <1>1, <1>3, <2>1
<1>4. CASE Release!Abandon(r)
  BY <1>0, <1>1, <1>2, <1>4 DEF Release!Abandon, Release!Close
<1>5. CASE Release!CreateBindingCommit(r)
  <2> DEFINE q == releasing[r]
             to == IF q.ready THEN "ARMED" ELSE "PENDING"
  <2>1. /\ q.op = "bind" /\ binding' = [binding EXCEPT ![<<q.of, q.at>>] = to]
        /\ to \in BindingState
        /\ releasing' = [releasing EXCEPT ![r] = Release!Idle]
        /\ UNCHANGED <<catalogue, mode, version, created, remaps, grip, connector, released>>
    BY <1>5 DEF Release!CreateBindingCommit, Release!Close, BindingState
  <2>2. q.of \in Release!Existing /\ q.at \in Instance
    BY <1>0, <2>1 DEF ReadOK, Release!Idle
  <2> HIDE DEF q, to
  <2>3. /\ binding' \in [Release!Number \X Instance -> BindingState]
        /\ \A n \in Release!Number, i \in Instance :
              binding'[<<n, i>>] # "NONE" => n \in Release!Existing
    BY <1>0, <2>1, <2>2
  <2> QED
    BY <1>0, <1>1, <1>2, <2>1, <2>3
<1>6. CASE Release!ToggleCommit(r)
  <2> DEFINE q == releasing[r]
             here == <<q.of, q.at>>
             to(b) == IF b = here THEN Release!Switched(q, binding[b])
                      ELSE IF q.on /\ b[1] = q.of /\ binding[b] = "ARMED"
                           THEN "SYNCHRONIZED" ELSE binding[b]
  <2>1. /\ q.op = "switch" /\ Release!Switched(q, binding[here]) # Release!Refused
        /\ binding' = [b \in Release!Number \X Instance |-> to(b)]
        /\ releasing' = [releasing EXCEPT ![r] = Release!Idle]
        /\ UNCHANGED <<catalogue, mode, version, created, remaps, grip, connector, released>>
    BY <1>6 DEF Release!ToggleCommit, Release!Close
  <2>2. q.of \in Release!Existing /\ q.at \in Instance /\ q.was \in BindingState
    BY <1>0, <2>1 DEF ReadOK, Release!Idle
  <2>3. binding[here] \in BindingState
    BY <1>0, <2>2
  <2>4. Release!Switched(q, binding[here]) \in BindingState
    <3>1. ASSUME NEW now \in BindingState, Release!Switched(q, now) # Release!Refused
          PROVE  Release!Switched(q, now) \in BindingState
      <4> HIDE DEF q
      <4>1. CASE q.was = "NONE"
        BY <3>1, <4>1 DEF Release!Switched, Release!Refused, BindingState
      <4>2. CASE q.was = "ARMED"
        BY <3>1, <4>2 DEF Release!Switched, Release!Refused, BindingState
      <4>3. CASE q.was = "PENDING"
        BY <3>1, <4>3 DEF Release!Switched, Release!Refused, BindingState
      <4>4. CASE q.was = "SYNCHRONIZED"
        BY <3>1, <4>4 DEF Release!Switched, Release!Refused, BindingState
      <4> QED
        BY <2>2, <4>1, <4>2, <4>3, <4>4 DEF BindingState
    <3> QED
      BY <2>1, <2>3, <3>1
  <2>5. ASSUME NEW n \in Release!Number, NEW i \in Instance
        PROVE  /\ binding'[<<n, i>>] \in BindingState
               /\ binding'[<<n, i>>] # "NONE" => n \in Release!Existing
    <3>1. binding'[<<n, i>>] = to(<<n, i>>)
      BY <2>1
    <3>2. CASE <<n, i>> = here
      <4>1. n = q.of
        BY <3>2
      <4>2. to(<<n, i>>) = Release!Switched(q, binding[here])
        BY <3>2
      <4> QED
        BY <2>2, <2>4, <3>1, <4>1, <4>2
    <3>3. CASE <<n, i>> # here
      <4>1. \/ to(<<n, i>>) = binding[<<n, i>>]
            \/ to(<<n, i>>) = "SYNCHRONIZED" /\ n = q.of
        BY <3>3
      <4> HIDE DEF to, q
      <4> QED
        BY <1>0, <2>2, <3>1, <4>1 DEF BindingState
    <3> QED
      BY <3>2, <3>3
  <2>6. binding' \in [Release!Number \X Instance -> BindingState]
    <3>1. ASSUME NEW b \in Release!Number \X Instance PROVE to(b) \in BindingState
      <4>1. binding'[b] = to(b)
        BY <2>1
      <4>2. PICK n \in Release!Number, i \in Instance : b = <<n, i>>
        OBVIOUS
      <4> HIDE DEF to
      <4> QED
        BY <2>5, <4>1, <4>2
    <3> HIDE DEF to
    <3> QED
      BY <2>1, <3>1
  <2> HIDE DEF to, q, here
  <2> QED
    BY <1>0, <1>1, <1>2, <2>1, <2>5, <2>6
<1>7. CASE Release!Seed(r)
  <2> DEFINE read == [op |-> "seed", order |-> created,
                      seen |-> [n \in Release!Existing |-> version[n].status]]
  <2>1. ASSUME NEW n \in Release!Existing
        PROVE  /\ \E k \in 1 .. Len(created) : created[k] = n
               /\ version[n].status \in {"DRAFT", "APPROVED", "RETIRED"}
    <3>1. n \in Release!Number /\ version[n].status # "NONE"
      BY <2>1 DEF ReleaseInv, Release!TypeOK
    <3>2. version[n].status \in {"NONE", "DRAFT", "APPROVED", "RETIRED"}
      BY <3>1 DEF ReleaseInv, Release!TypeOK
    <3>3. \E k \in 1 .. Len(created) : created[k] = n
      BY <2>1 DEF Release!Existing
    <3> QED
      BY <3>1, <3>2, <3>3
  <2>2. Listing(read)
    BY <2>1 DEF Listing, ReleaseInv
  <2>3. ReadOK(read)
    BY <2>2 DEF ReadOK
  <2>4. Release!Open(r, read)
        /\ UNCHANGED <<binding, catalogue, mode, version, created, remaps, grip, connector>>
    BY <1>7 DEF Release!Seed
  <2> HIDE DEF read
  <2> QED
    BY <1>3, <2>3, <2>4
<1>8. ASSUME NEW n \in Release!Number, NEW i \in Instance, Release!CreateBinding(r, n, i)
      PROVE  ReleaseInv'
  <2> DEFINE read == [op |-> "bind", of |-> n, at |-> i,
                      ready |-> Release!Ready(version[n].procedure)]
  <2>1. n \in Release!Existing
    BY <1>8 DEF Release!CreateBinding, ReleaseInv, Release!TypeOK
  <2>2. ReadOK(read)
    BY <2>1 DEF ReadOK
  <2>3. Release!Open(r, read)
        /\ UNCHANGED <<binding, catalogue, mode, version, created, remaps, grip, connector>>
    BY <1>8 DEF Release!CreateBinding
  <2> HIDE DEF read
  <2> QED
    BY <1>3, <2>2, <2>3
<1>9. ASSUME NEW on \in BOOLEAN, Release!Toggle(r, on) PROVE ReleaseInv'
  <2>1. PICK k \in 1 .. Len(created) :
           \E i \in IF {j \in Instance : binding[<<created[k], j>>] # "NONE"} = {}
                    THEN {Local}
                    ELSE {j \in Instance : binding[<<created[k], j>>] # "NONE"} :
              Release!Open(r, [op |-> "switch", of |-> created[k], at |-> i, on |-> on,
                               was |-> binding[<<created[k], i>>],
                               ready |-> Release!Ready(version[created[k]].procedure)])
    BY <1>9 DEF Release!Toggle
  <2>2. PICK i \in Instance :
              Release!Open(r, [op |-> "switch", of |-> created[k], at |-> i, on |-> on,
                               was |-> binding[<<created[k], i>>],
                               ready |-> Release!Ready(version[created[k]].procedure)])
    BY <1>0, <2>1
  <2> DEFINE read == [op |-> "switch", of |-> created[k], at |-> i, on |-> on,
                      was |-> binding[<<created[k], i>>],
                      ready |-> Release!Ready(version[created[k]].procedure)]
  <2>3. created[k] \in Release!Existing
    BY DEF Release!Existing
  <2>4. binding[<<created[k], i>>] \in BindingState
    BY <1>0, <2>3
  <2>5. ReadOK(read)
    BY <2>3, <2>4 DEF ReadOK
  <2>6. UNCHANGED <<binding, catalogue, mode, version, created, remaps, grip, connector>>
    BY <1>9 DEF Release!Toggle
  <2>7. Release!Open(r, read)
    BY <2>2
  <2> HIDE DEF read
  <2> QED
    BY <1>3, <2>5, <2>6, <2>7
<1> QED
  BY <1>4, <1>5, <1>6, <1>7, <1>8, <1>9

LEMMA ExistingIsFinite ==
    ASSUME GovernanceAssumption, ReleaseInv
    PROVE  IsFiniteSet(Release!Existing) /\ Cardinality(Release!Existing) = Len(created)
<1>1. Cardinality(Release!Existing) = Len(created)
  BY ReleaseCounts DEF ReleaseInv, Release!TypeOK
<1>2. Release!Existing \in SUBSET Release!Number
  BY DEF ReleaseInv, Release!TypeOK
<1>3. MaxVersion \in Int
  BY GovernanceAssumption DEF Release!ReleaseAssumption
<1>4. IsFiniteSet(Release!Number)
  BY <1>3, FS_Interval DEF Release!Number
<1> QED
  BY <1>1, <1>2, <1>4, FS_Subset

\* An operator writes one version, in one step: a draft of a number nobody
\* used, a validation, or the publication of a draft.
LEMMA VersionStep ==
    ASSUME GovernanceAssumption, ReleaseInv, NEW u \in Publisher, NEW n \in Release!Number,
           \/ \E p \in Procedure : Release!CreateVersion(u, n, p)
           \/ Release!ValidateVersion(u, n) \/ Release!PublishVersion(u, n)
    PROVE  ReleaseInv' /\ Onward
<1> DEFINE Row == [status : {"NONE", "DRAFT", "APPROVED", "RETIRED"},
                   procedure : Procedure \cup {NoProcedure},
                   registrar : Publisher \cup {NoUser},
                   validator : Publisher \cup {NoUser}]
<1>0. /\ Release!TypeOK /\ version \in [Release!Number -> Row]
      /\ Release!Existing = {m \in Release!Number : version[m].status # "NONE"}
      /\ releasing = [s \in Request |-> releasing[s]]
      /\ \A s \in Request : ReadOK(releasing[s])
      /\ created \in Seq(Release!Number)
  BY DEF ReleaseInv, Release!TypeOK
<1> HIDE DEF Row
<1>1. ASSUME NEW row \in Row, version' = [version EXCEPT ![n] = row],
             row.status # "NONE",
             version[n].status # "NONE" =>
                /\ row.procedure = version[n].procedure
                /\ (row.status = "RETIRED") = (version[n].status = "RETIRED"),
             UNCHANGED <<catalogue, mode, binding, grip, connector, releasing,
                         released, remaps>>,
             created' \in Seq(Release!Number),
             Release!Existing' = Release!Existing \cup {n},
             Cardinality(Release!Existing') = Len(created')
      PROVE  ReleaseInv' /\ Onward
  <2>1. /\ version' \in [Release!Number -> Row] /\ version'[n] = row
        /\ \A m \in Release!Number \ {n} : version'[m] = version[m]
    BY <1>0, <1>1
  <2>2. Onward
    BY <1>0, <1>1, <2>1 DEF Onward
  <2>3. Release!TypeOK'
    <3>1. Release!Cardinality(Release!Existing') = Len(created')
      BY <1>1, ReleaseCounts
    <3>2. Release!Existing' = {m \in Release!Number : version'[m].status # "NONE"}
      BY <1>0, <1>1, <2>1
    <3> QED
      BY <1>0, <1>1, <2>1, <3>1, <3>2 DEF Release!TypeOK, Row, Release!Number
  <2> QED
    BY <1>0, <1>1, <2>2, <2>3, ReleaseKept
<1>2. IsFiniteSet(Release!Existing) /\ Cardinality(Release!Existing) = Len(created)
  BY ExistingIsFinite
<1>3. ASSUME NEW p \in Procedure, Release!CreateVersion(u, n, p)
      PROVE  ReleaseInv' /\ Onward
  <2> DEFINE row == [status |-> "DRAFT", procedure |-> p,
                     registrar |-> u, validator |-> NoUser]
  <2>1. /\ version[n].status = "NONE" /\ row \in Row /\ row.status # "NONE"
        /\ version' = [version EXCEPT ![n] = row]
        /\ created' = Append(created, n)
        /\ UNCHANGED <<catalogue, mode, binding, grip, connector, releasing,
                       released, remaps>>
    <3>1. row \in Row
      BY DEF Row
    <3> QED
      BY <1>3, <3>1 DEF Release!CreateVersion, Release!actionVars,
         Release!requestVars, Release!shipped
  <2>2. n \notin Release!Existing
    BY <1>0, <2>1
  <2>3. /\ created' \in Seq(Release!Number)
        /\ Release!Existing' = Release!Existing \cup {n}
        /\ Len(created') = Len(created) + 1
    BY <1>0, <2>1, Appended
  <2>4. Cardinality(Release!Existing \cup {n}) = Len(created')
    BY <1>2, <2>2, <2>3, FS_AddElement
  <2> HIDE DEF row
  <2> QED
    BY <1>1, <2>1, <2>3, <2>4
<1>4. ASSUME UNCHANGED created, n \in Release!Existing
      PROVE  /\ created' \in Seq(Release!Number)
             /\ Release!Existing' = Release!Existing \cup {n}
             /\ Cardinality(Release!Existing') = Len(created')
             /\ version[n].status # "NONE" /\ version[n] \in Row
  <2>1. Release!Existing' = Release!Existing
    BY <1>4 DEF Release!Existing
  <2> QED
    BY <1>0, <1>2, <1>4, <2>1
<1>5. CASE Release!ValidateVersion(u, n)
  <2> DEFINE row == [version[n] EXCEPT !.validator = u]
  <2>1. /\ n \in Release!Existing /\ version' = [version EXCEPT ![n] = row]
        /\ UNCHANGED <<catalogue, mode, created, binding, grip, connector, releasing,
                       released, remaps>>
    BY <1>0, <1>5 DEF Release!ValidateVersion, Release!actionVars,
       Release!requestVars, Release!shipped
  <2>2. /\ row \in Row /\ row.status = version[n].status
        /\ row.procedure = version[n].procedure
    BY <1>4, <2>1 DEF Row
  <2> HIDE DEF row
  <2> QED
    BY <1>1, <1>4, <2>1, <2>2
<1>6. CASE Release!PublishVersion(u, n)
  <2> DEFINE row == [version[n] EXCEPT !.status = "APPROVED"]
  <2>1. /\ version[n].status = "DRAFT" /\ version' = [version EXCEPT ![n] = row]
        /\ n \in Release!Existing
        /\ UNCHANGED <<catalogue, mode, created, binding, grip, connector, releasing,
                       released, remaps>>
    BY <1>0, <1>6 DEF Release!PublishVersion, Release!actionVars,
       Release!requestVars, Release!shipped
  <2>2. /\ row \in Row /\ row.status = "APPROVED"
        /\ row.procedure = version[n].procedure
    BY <1>4, <2>1 DEF Row
  <2> HIDE DEF row
  <2> QED
    BY <1>1, <1>4, <2>1, <2>2
<1> QED
  BY <1>3, <1>5, <1>6

\* A release of the product changes the catalogue when no request is open.
LEMMA RemapStep ==
    ASSUME GovernanceAssumption, ReleaseInv,
           NEW p \in Procedure \cup {NoProcedure}, Release!Remap(p)
    PROVE  ReleaseInv' /\ UNCHANGED version
<1>1. /\ catalogue' = p /\ remaps' = remaps + 1 /\ remaps < MaxRemaps
      /\ \A r \in Request : releasing[r] = Release!Idle
      /\ UNCHANGED <<mode, version, created, binding, grip, connector, releasing, released>>
  BY DEF Release!Remap, Release!versionVars, Release!actionVars, Release!requestVars
<1>2. /\ Release!Existing' = Release!Existing
      /\ Release!Cardinality(Release!Existing)' = Release!Cardinality(Release!Existing)
  BY <1>1 DEF Release!Existing
<1>3. Release!TypeOK'
  BY <1>1, <1>2, GovernanceAssumption DEF ReleaseInv, Release!TypeOK, Release!Number,
     Release!ReleaseAssumption
<1>4. \A r \in Request : ReadOK(releasing[r])'
  BY <1>1 DEF ReadOK, Release!Idle
<1> QED
  BY <1>1, <1>3, <1>4 DEF ReleaseInv, Release!Number

LEMMA HasLargest ==
    ASSUME NEW bound \in Nat, NEW S, S \subseteq 0 .. bound, S # {}
    PROVE  \E m \in S : \A n \in S : m >= n
<1> DEFINE Less == {p \in Nat \X Nat : p[1] < p[2]}
           Mirror == {k \in Nat : \E n \in S : k = bound - n}
<1>1. IsWellFoundedOn(Less, Nat)
  BY NatLessThanWellFounded DEF OpToRel
<1>2. \A n \in S : n \in Int /\ bound - n \in Mirror
  OBVIOUS
<1>3. PICK x \in Mirror : \A y \in Mirror : ~(<<y, x>> \in Less)
  <2>1. Mirror \subseteq Nat /\ Mirror # {}
    BY <1>2
  <2> HIDE DEF Less, Mirror
  <2> QED
    BY <1>1, <2>1, WFMin
<1>4. PICK m \in S : x = bound - m
  OBVIOUS
<1>5. ASSUME NEW n \in S PROVE m >= n
  <2>1. ~(bound - n < bound - m)
    BY <1>2, <1>3, <1>4
  <2> QED
    BY <1>2, <2>1
<1> QED
  BY <1>5

\* When the catalogue offers a version it saw, the listing takes one of them
\* for current: the one created last.
LEMMA CurrentMatches ==
    ASSUME NEW q, Listing(q), Release!Matching(q) # {}
    PROVE  Release!Current(q) \in Release!Matching(q)
<1> DEFINE M == Release!Matching(q)
           At(n) == CHOOSE k \in 1 .. Len(q.order) : q.order[k] = n
           S == {At(n) : n \in M}
<1>1. ASSUME NEW n \in M PROVE At(n) \in 0 .. Len(q.order)
  <2>1. \E k \in 1 .. Len(q.order) : q.order[k] = n
    BY DEF Release!Matching, Listing
  <2> QED
    BY <2>1 DEF Listing
<1>2. Len(q.order) \in Nat /\ S \subseteq 0 .. Len(q.order) /\ S # {}
  BY <1>1 DEF Listing
<1>3. PICK k \in S : \A l \in S : k >= l
  <2> HIDE DEF S
  <2> QED
    BY <1>2, HasLargest
<1>4. \E n \in M : \A m \in M : At(n) >= At(m)
  <2>1. PICK n \in M : k = At(n)
    OBVIOUS
  <2>2. \A m \in M : At(m) \in S
    OBVIOUS
  <2>3. \A m \in M : k >= At(m)
    <3> HIDE DEF S
    <3> QED
      BY <1>3, <2>2
  <2> HIDE DEF S, At, M
  <2> QED
    BY <2>1, <2>3
<1>5. Release!Current(q) = CHOOSE n \in M : \A m \in M : At(n) >= At(m)
  BY DEF Release!Current
<1> HIDE DEF M, At
<1> QED
  BY <1>4, <1>5 DEF M

\* What a listing does to each version, and which bindings it leaves armed.
SeedsVersion(q, u, n) ==
    \/ /\ version'[n] = version[n]
       /\ ~(Release!Implemented /\ Release!Matching(q) = {} /\ n = Release!Current(q))
    \/ /\ n \in DOMAIN q.seen
       /\ ~Offered(n) \/ version[n].status = "RETIRED"
       /\ version'[n] = [version[n] EXCEPT !.status = "RETIRED"]
    \/ /\ Release!Implemented /\ Release!Matching(q) = {}
       /\ n = Release!Current(q)
       /\ version'[n] = [status |-> "APPROVED", procedure |-> catalogue,
                         registrar |-> NoUser, validator |-> u]
    \/ /\ n \in DOMAIN q.seen /\ version[n].status # "RETIRED"
       /\ version'[n] = [version[n] EXCEPT !.status = "APPROVED", !.validator = u]

SeedsBinding(q, n, i) ==
    \/ binding'[<<n, i>>] = "PENDING" /\ n \in DOMAIN q.seen
    \/ /\ binding'[<<n, i>>] = binding[<<n, i>>]
       /\ binding[<<n, i>>] = "ARMED" /\ n \in DOMAIN q.seen => Offered(n)
    \/ /\ Release!Implemented /\ n = Release!Current(q)
       /\ binding'[<<n, i>>] \in {"ARMED", "PENDING"}
       /\ Release!Matching(q) # {} => Offered(n) /\ n \in DOMAIN q.seen

LEMMA SeedWrites ==
    ASSUME ReleaseInv, NEW r \in Request, NEW u \in Publisher, Release!SeedCommit(r, u)
    PROVE  /\ Listing(releasing[r])
           /\ version' = [n \in Release!Number |-> version'[n]]
           /\ binding' = [b \in Release!Number \X Instance |-> binding'[b]]
           /\ \A n \in Release!Number : SeedsVersion(releasing[r], u, n)
           /\ \A n \in Release!Number, i \in Instance : SeedsBinding(releasing[r], n, i)
<1> DEFINE q == releasing[r]
           M == Release!Matching(q)
           C == Release!Current(q)
<1>1. /\ q.op = "seed" /\ Listing(q)
      /\ version' = Release!SeededVersion(q, u)
  BY DEF Release!SeedCommit, ReleaseInv, ReadOK, Release!Idle
<1>2. \/ /\ Release!Implemented
         /\ \E j \in Instance, to \in {"ARMED", "PENDING"} :
               binding' = [b \in Release!Number \X Instance |->
                  IF b = <<C, j>> THEN to
                  ELSE IF Release!Disarmed(q, b) THEN "PENDING" ELSE binding[b]]
      \/ /\ ~Release!Implemented
         /\ binding' = [b \in Release!Number \X Instance |->
                           IF Release!Disarmed(q, b) THEN "PENDING" ELSE binding[b]]
  <2> DEFINE New == Release!Implemented /\ M = {}
             Bound == {i \in Instance : binding[<<C, i>>] # "NONE"}
             Arming == IF Release!ReadyWith(Release!SeededGrip, catalogue)
                       THEN "ARMED" ELSE "PENDING"
  <2>1. \/ /\ Release!Implemented
           /\ \E j \in IF New \/ Bound = {} THEN {Runner} ELSE Bound :
                 binding' = [b \in Release!Number \X Instance |->
                    IF b = <<C, j>> THEN Arming
                    ELSE IF Release!Disarmed(q, b) THEN "PENDING" ELSE binding[b]]
        \/ /\ ~Release!Implemented
           /\ binding' = [b \in Release!Number \X Instance |->
                             IF Release!Disarmed(q, b) THEN "PENDING" ELSE binding[b]]
    BY DEF Release!SeedCommit
  <2>2. CASE ~Release!Implemented
    BY <2>1, <2>2
  <2>3. ASSUME Release!Implemented
        PROVE  \E j \in Instance : binding' = [b \in Release!Number \X Instance |->
                    IF b = <<C, j>> THEN Arming
                    ELSE IF Release!Disarmed(q, b) THEN "PENDING" ELSE binding[b]]
    <3>1. (IF New \/ Bound = {} THEN {Runner} ELSE Bound) \subseteq Instance
      BY GovernanceAssumption DEF Release!ReleaseAssumption
    <3> HIDE DEF New, Bound, Arming, C, q
    <3> QED
      BY <2>1, <2>3, <3>1
  <2>4. Arming \in {"ARMED", "PENDING"}
    OBVIOUS
  <2> HIDE DEF New, Bound, Arming, C, q
  <2> QED
    BY <2>2, <2>3, <2>4
<1>3. /\ M \subseteq DOMAIN q.seen /\ (~Release!Implemented => M = {})
      /\ \A n \in M : Offered(n) /\ q.seen[n] \in {"DRAFT", "APPROVED"}
      /\ \A n \in DOMAIN q.seen \ M : ~Offered(n) \/ version[n].status = "RETIRED"
  BY <1>1 DEF Release!Matching, Release!Matches, Offered, Listing
<1>4. M # {} => C \in M
  BY <1>1, CurrentMatches
<1>5. ASSUME NEW n \in Release!Number PROVE SeedsVersion(q, u, n)
  <2>1. version'[n] = IF n \in Release!Superseded(q) THEN [version[n] EXCEPT !.status = "RETIRED"]
                      ELSE IF ~Release!Implemented \/ n # C THEN version[n]
                      ELSE IF n \notin M
                           THEN [status |-> "APPROVED", procedure |-> catalogue,
                                 registrar |-> NoUser, validator |-> u]
                      ELSE IF q.seen[n] = "DRAFT"
                           THEN [version[n] EXCEPT !.status = "APPROVED", !.validator = u]
                      ELSE version[n]
    BY <1>1 DEF Release!SeededVersion
  <2> HIDE DEF q, M, C
  <2>2. CASE n \in Release!Superseded(q)
    BY <1>3, <2>1, <2>2 DEF SeedsVersion, Release!Superseded, M
  <2>3. CASE n \notin Release!Superseded(q) /\ Release!Implemented /\ n = C /\ n \notin M
    BY <1>4, <2>1, <2>3 DEF SeedsVersion, M, C
  <2>4. CASE n \notin Release!Superseded(q) /\ Release!Implemented /\ n = C /\ n \in M
    <3>1. version[n].status # "RETIRED" /\ n \in DOMAIN q.seen
      BY <1>1, <1>3, <2>4 DEF Listing
    <3> QED
      BY <2>1, <2>4, <3>1 DEF SeedsVersion, M, C
  <2>5. CASE n \notin Release!Superseded(q) /\ (~Release!Implemented \/ n # C)
    BY <2>1, <2>5 DEF SeedsVersion, C
  <2> QED
    BY <2>2, <2>3, <2>4, <2>5
<1>6. ASSUME NEW n \in Release!Number, NEW i \in Instance PROVE SeedsBinding(q, n, i)
  <2> DEFINE b == <<n, i>>
             rest == IF Release!Disarmed(q, b) THEN "PENDING" ELSE binding[b]
  <2>1. Release!Disarmed(q, b) <=> n \in DOMAIN q.seen \ M /\ binding[b] = "ARMED"
    BY DEF Release!Disarmed, Release!Superseded
  <2>2. CASE binding'[b] = rest
    BY <1>3, <2>1, <2>2 DEF SeedsBinding
  <2>3. CASE Release!Implemented /\ n = C /\ binding'[b] \in {"ARMED", "PENDING"}
    BY <1>3, <1>4, <2>3 DEF SeedsBinding
  <2>4. \/ binding'[b] = rest
        \/ Release!Implemented /\ n = C /\ binding'[b] \in {"ARMED", "PENDING"}
    BY <1>2
  <2> QED
    BY <2>2, <2>3, <2>4
<1>7. version' = [n \in Release!Number |-> version'[n]]
  BY <1>1 DEF Release!SeededVersion
<1>8. binding' = [b \in Release!Number \X Instance |-> binding'[b]]
  BY <1>2
<1> QED
  BY <1>1, <1>5, <1>6, <1>7, <1>8

LEMMA SeedStep ==
    ASSUME GovernanceAssumption, ReleaseInv, NEW r \in Request, NEW u \in Publisher,
           Release!SeedCommit(r, u)
    PROVE  /\ ReleaseInv' /\ Onward
           /\ \A n \in DOMAIN releasing[r].seen, i \in Instance :
                 binding'[<<n, i>>] = "ARMED" => Offered(n)
<1> DEFINE q == releasing[r]
           M == Release!Matching(q)
           C == Release!Current(q)
           New == Release!Implemented /\ M = {}
           Row == [status : {"NONE", "DRAFT", "APPROVED", "RETIRED"},
                   procedure : Procedure \cup {NoProcedure},
                   registrar : Publisher \cup {NoUser},
                   validator : Publisher \cup {NoUser}]
<1>0. /\ Release!TypeOK /\ version \in [Release!Number -> Row]
      /\ Release!Existing = {n \in Release!Number : version[n].status # "NONE"}
      /\ binding \in [Release!Number \X Instance -> BindingState]
      /\ \A n \in Release!Number, i \in Instance :
            binding[<<n, i>>] # "NONE" => n \in Release!Existing
      /\ created \in Seq(Release!Number)
      /\ catalogue \in Procedure \cup {NoProcedure}
  BY DEF ReleaseInv, Release!TypeOK, BindingState
<1>1. /\ New => C \in Release!Number \ Release!Existing
      /\ created' = IF New THEN Append(created, C) ELSE created
      /\ releasing' = [releasing EXCEPT ![r] = Release!Idle]
      /\ UNCHANGED <<catalogue, connector, remaps, released>>
      /\ mode' = IF Release!Implemented /\ mode < Minimum[catalogue]
                 THEN Minimum[catalogue] ELSE mode
      /\ grip' = Release!SeededGrip
  BY DEF Release!SeedCommit, Release!Close, Release!shipped
<1>2. /\ \A n \in DOMAIN q.seen : n \in Release!Existing
      /\ version' = [n \in Release!Number |-> version'[n]]
      /\ binding' = [b \in Release!Number \X Instance |-> binding'[b]]
      /\ \A n \in Release!Number : SeedsVersion(q, u, n)
      /\ \A n \in Release!Number, i \in Instance : SeedsBinding(q, n, i)
  BY SeedWrites DEF Listing
<1>3. mode' \in 0 .. TopMode
  <2>1. /\ Minimum \in [Procedure -> 0 .. TopMode] /\ mode \in 0 .. TopMode
        /\ Release!Implemented => catalogue \in Procedure
    BY <1>0, GovernanceAssumption
       DEF Release!ReleaseAssumption, Release!TypeOK, Release!Implemented
  <2> QED
    BY <1>1, <2>1
<1>4. grip' \in [Action -> {"NONE", "OFF", "VERIFIED"}]
  BY <1>0, <1>1 DEF Release!SeededGrip, Release!TypeOK
<1> HIDE DEF Row
<1>5. /\ created' \in Seq(Release!Number)
      /\ Release!Existing' = IF New THEN Release!Existing \cup {C} ELSE Release!Existing
      /\ Cardinality(Release!Existing') = Len(created')
  <2>1. IsFiniteSet(Release!Existing) /\ Cardinality(Release!Existing) = Len(created)
    BY ExistingIsFinite
  <2>2. CASE New
    <3>1. PICK n : n = C
      OBVIOUS
    <3>2. n \in Release!Number \ Release!Existing /\ created' = Append(created, n)
      BY <1>1, <2>2, <3>1
    <3>3. /\ created' \in Seq(Release!Number)
          /\ Release!Existing' = Release!Existing \cup {n}
          /\ Len(created') = Len(created) + 1
      BY <1>0, <3>2, Appended
    <3>4. Cardinality(Release!Existing \cup {n}) = Len(created')
      BY <2>1, <3>2, <3>3, FS_AddElement
    <3> HIDE DEF New, C
    <3> QED
      BY <2>2, <3>1, <3>3, <3>4
  <2>3. CASE ~New
    <3>1. created' = created
      BY <1>1, <2>3
    <3>2. Release!Existing' = Release!Existing
      BY <3>1 DEF Release!Existing
    <3> HIDE DEF New
    <3> QED
      BY <1>0, <2>1, <2>3, <3>1, <3>2
  <2> QED
    BY <2>2, <2>3
<1>6. ASSUME NEW n \in Release!Number
      PROVE  /\ version'[n] \in Row
             /\ version'[n].status # "NONE" <=> n \in Release!Existing'
             /\ n \in Release!Existing =>
                   /\ version'[n].procedure = version[n].procedure
                   /\ version[n].status = "RETIRED" => version'[n].status = "RETIRED"
                   /\ version'[n].status = "RETIRED" =>
                         version[n].status = "RETIRED" \/ ~Offered(n)
  <2>1. /\ SeedsVersion(q, u, n) /\ version[n] \in Row
        /\ version[n].status # "NONE" <=> n \in Release!Existing
        /\ New => C \notin Release!Existing
        /\ n \in DOMAIN q.seen => n \in Release!Existing
    BY <1>0, <1>1, <1>2
  <2> HIDE DEF q
  <2>2. CASE version'[n] = version[n] /\ ~(New /\ n = C)
    <3> HIDE DEF New, C
    <3> QED
      BY <1>5, <2>1, <2>2
  <2>3. CASE /\ n \in DOMAIN q.seen
             /\ ~Offered(n) \/ version[n].status = "RETIRED"
             /\ version'[n] = [version[n] EXCEPT !.status = "RETIRED"]
    <3> HIDE DEF New, C
    <3> QED
      BY <1>5, <2>1, <2>3 DEF Row
  <2>4. CASE /\ New /\ n = C
             /\ version'[n] = [status |-> "APPROVED", procedure |-> catalogue,
                               registrar |-> NoUser, validator |-> u]
    <3> HIDE DEF New, C
    <3> QED
      BY <1>0, <1>5, <2>1, <2>4 DEF Row
  <2>5. CASE /\ n \in DOMAIN q.seen /\ version[n].status # "RETIRED"
             /\ version'[n] = [version[n] EXCEPT !.status = "APPROVED", !.validator = u]
    <3> HIDE DEF New, C
    <3> QED
      BY <1>5, <2>1, <2>5 DEF Row
  <2> QED
    BY <2>1, <2>2, <2>3, <2>4, <2>5 DEF SeedsVersion
<1>7. ASSUME NEW n \in Release!Number, NEW i \in Instance
      PROVE  /\ binding'[<<n, i>>] \in BindingState
             /\ binding'[<<n, i>>] # "NONE" => n \in Release!Existing'
             /\ n \in DOMAIN q.seen /\ binding'[<<n, i>>] = "ARMED" => Offered(n)
  <2>1. /\ SeedsBinding(q, n, i) /\ binding[<<n, i>>] \in BindingState
        /\ binding[<<n, i>>] # "NONE" => n \in Release!Existing
        /\ n \in DOMAIN q.seen => n \in Release!Existing
        /\ New => C \notin Release!Existing
    BY <1>0, <1>1, <1>2
  <2>2. Release!Existing \subseteq Release!Existing' /\ (New => C \in Release!Existing')
    <3> HIDE DEF New, C
    <3> QED
      BY <1>5
  <2> HIDE DEF q
  <2> QED
    BY <2>1, <2>2 DEF SeedsBinding, BindingState
<1>8. /\ version' \in [Release!Number -> Row]
      /\ binding' \in [Release!Number \X Instance -> BindingState]
  <2>1. ASSUME NEW b \in Release!Number \X Instance PROVE binding'[b] \in BindingState
    <3>1. PICK n \in Release!Number, i \in Instance : b = <<n, i>>
      OBVIOUS
    <3> QED
      BY <1>7, <3>1
  <2> QED
    BY <1>2, <1>6, <2>1
<1>9. Onward
  <2>1. Release!Existing \subseteq Release!Existing' /\ Release!Existing \subseteq Release!Number
    <3> HIDE DEF New, C
    <3> QED
      BY <1>0, <1>5
  <2> QED
    BY <1>1, <1>6, <2>1 DEF Onward
<1>10. /\ releasing' = [s \in Request |-> releasing'[s]]
       /\ \A s \in Request : ReadOK(releasing'[s])
       /\ \A s \in Request : releasing'[s].op \in {"none", "seed", "bind", "switch"}
  <2>1. ReadOK(Release!Idle)
    BY DEF ReadOK
  <2> QED
    BY <1>1, <2>1, OneRead
<1>11. Release!TypeOK'
  <2>1. Release!Cardinality(Release!Existing') = Len(created')
    BY <1>5, ReleaseCounts
  <2>2. Release!Existing' = {n \in Release!Number : version'[n].status # "NONE"}
    <3>1. Release!Existing' \subseteq Release!Number
      <4> HIDE DEF New, C
      <4> QED
        BY <1>0, <1>1, <1>5
    <3> QED
      BY <1>6, <3>1
  <2> QED
    BY <1>0, <1>1, <1>3, <1>4, <1>7, <1>8, <1>10, <2>1, <2>2
       DEF Release!TypeOK, Row, BindingState, Release!Number
<1>12. ReleaseInv'
  BY <1>5, <1>9, <1>10, <1>11, ReleaseKept
<1>13. \A n \in DOMAIN q.seen, i \in Instance : binding'[<<n, i>>] = "ARMED" => Offered(n)
  BY <1>0, <1>2, <1>7
<1> QED
  BY <1>9, <1>12, <1>13

LEMMA ReleaseInit ==
    ASSUME GovernanceAssumption, Release!Init
    PROVE  ReleaseInv
<1>1. /\ Release!Existing = {} /\ Len(created) = 0 /\ created \in Seq(Release!Number)
      /\ Release!Cardinality(Release!Existing) = 0
  <2>1. created = <<>> /\ Release!Existing = {}
    BY DEF Release!Init, Release!Existing
  <2> QED
    BY <2>1, ReleaseCounts, FS_EmptySet
<1>2. Release!TypeOK
  BY <1>1, GovernanceAssumption DEF Release!Init, Release!TypeOK, Release!Nobody,
     Release!Idle, Release!ReleaseAssumption
<1>3. \A r \in Request : ReadOK(releasing[r])
  BY DEF Release!Init, ReadOK
<1> QED
  BY <1>1, <1>2, <1>3 DEF ReleaseInv, Release!Init

\* What the steps of a release keep, and what they never do.
Retired == \A n \in Release!Number :
    version[n].status = "RETIRED" => version'[n].status = "RETIRED"
Disarms == \A r \in Request, u \in Publisher : Release!SeedCommit(r, u) =>
    \A n \in DOMAIN releasing[r].seen, i \in Instance :
        binding'[<<n, i>>] = "ARMED" => version[n].procedure = catalogue

LEMMA ReleaseStep ==
    ASSUME GovernanceAssumption, ReleaseInv, Release!Next
    PROVE  ReleaseInv' /\ Retired
<1>1. ASSUME ReleaseInv', UNCHANGED version PROVE ReleaseInv' /\ Retired
  BY <1>1 DEF Retired
<1>2. ASSUME ReleaseInv', Onward PROVE ReleaseInv' /\ Retired
  BY <1>2 DEF Onward, Retired, ReleaseInv, Release!TypeOK
<1>3. ASSUME NEW u \in Publisher, NEW n \in Release!Number,
             \/ \E p \in Procedure : Release!CreateVersion(u, n, p)
             \/ Release!ValidateVersion(u, n) \/ Release!PublishVersion(u, n)
      PROVE  ReleaseInv' /\ Retired
  BY <1>2, <1>3, VersionStep
<1>4. ASSUME \/ \E m \in 0 .. TopMode : Release!UpdateApprovalGovernance(m)
             \/ \E a \in Action : \/ Release!ConfigureAction(a) \/ Release!VerifyAction(a)
                                  \/ Release!ConnectorChanges(a)
             \/ \E n \in Release!Number, i \in Instance : Release!ProbeBinding(n, i)
      PROVE  ReleaseInv' /\ Retired
  <2>1. UNCHANGED version
    BY <1>4 DEF Release!UpdateApprovalGovernance, Release!ConfigureAction,
       Release!VerifyAction, Release!ConnectorChanges, Release!ProbeBinding,
       Release!versionVars
  <2> QED
    BY <1>1, <1>4, <2>1, ConfigurationStep
<1>5. ASSUME NEW r \in Request,
             \/ Release!Abandon(r) \/ Release!CreateBindingCommit(r)
             \/ Release!ToggleCommit(r) \/ Release!Seed(r)
             \/ \E n \in Release!Number, i \in Instance : Release!CreateBinding(r, n, i)
             \/ \E on \in BOOLEAN : Release!Toggle(r, on)
      PROVE  ReleaseInv' /\ Retired
  <2>1. UNCHANGED version
    BY <1>5 DEF Release!Abandon, Release!CreateBindingCommit, Release!ToggleCommit,
       Release!Seed, Release!CreateBinding, Release!Toggle, Release!versionVars
  <2> QED
    BY <1>1, <1>5, <2>1, RequestStep
<1>6. ASSUME NEW r \in Request, NEW u \in Publisher, Release!SeedCommit(r, u)
      PROVE  ReleaseInv' /\ Retired
  BY <1>2, <1>6, SeedStep
<1>7. ASSUME NEW p \in Procedure \cup {NoProcedure}, Release!Remap(p)
      PROVE  ReleaseInv' /\ Retired
  BY <1>1, <1>7, RemapStep
<1> QED
  BY <1>3, <1>4, <1>5, <1>6, <1>7 DEF Release!Next

LEMMA ReleaseRest ==
    ASSUME ReleaseInv, UNCHANGED releaseVars
    PROVE  ReleaseInv' /\ Retired
<1>1. /\ UNCHANGED <<catalogue, mode, version, created, binding, grip, connector,
                     releasing, released, remaps>>
      /\ UNCHANGED Release!Existing
      /\ UNCHANGED Release!Cardinality(Release!Existing)
  BY DEF releaseVars, Release!Existing
<1>2. Release!TypeOK'
  BY <1>1 DEF ReleaseInv, Release!TypeOK, Release!Number
<1>3. Onward
  BY <1>1 DEF Onward
<1>4. ReleaseInv'
  BY <1>1, <1>2, <1>3, ReleaseKept DEF ReleaseInv, Release!Number
<1> QED
  BY <1>1, <1>4 DEF Retired

----------------------------------------------------------------------------
(* The services side by side.                                              *)

Logins == INSTANCE IdentityProofs WITH
    User <- Member, Nobody <- NoOne, request <- asking

\* What is proved of Identity is proved of the sessions of Governance: they
\* are two instances of it with the same constants and variables.
LEMMA SameSessions ==
    /\ Sessions!identityVars = Logins!identityVars
    /\ Sessions!IdentityAssumption <=> Logins!IdentityAssumption
    /\ Sessions!Init <=> Logins!Init
    /\ Sessions!TypeOK <=> Logins!TypeOK
    /\ Sessions!OneSessionPerLogin <=> Logins!OneSessionPerLogin
    /\ Sessions!Next => Logins!Next
<1> USE DEF Sessions!identityVars, Logins!identityVars, Sessions!userVars,
         Logins!userVars, Sessions!redisVars, Logins!redisVars,
         Sessions!history, Logins!history, Sessions!Token, Logins!Token,
         Sessions!Gone, Logins!Gone, Sessions!Session, Logins!Session,
         Sessions!Live, Logins!Live, Sessions!Issued, Logins!Issued,
         Sessions!Idle, Logins!Idle, Sessions!Step, Logins!Step,
         Sessions!Fresh, Logins!Fresh, Sessions!MayIssue,
         Logins!MayIssue, Sessions!MayRotate, Logins!MayRotate
<1>1. /\ Sessions!identityVars = Logins!identityVars
      /\ Sessions!IdentityAssumption <=> Logins!IdentityAssumption
  BY DEF Sessions!IdentityAssumption, Logins!IdentityAssumption
<1>2. Sessions!Init <=> Logins!Init
  BY DEF Sessions!Init, Logins!Init
<1>3. Sessions!TypeOK <=> Logins!TypeOK
  BY DEF Sessions!TypeOK, Logins!TypeOK
<1>4. Sessions!OneSessionPerLogin <=> Logins!OneSessionPerLogin
  BY DEF Sessions!OneSessionPerLogin, Logins!OneSessionPerLogin
<1>5. ASSUME NEW S PROVE Sessions!Cardinality(S) = Logins!Cardinality(S)
  BY DEF Sessions!Cardinality, Logins!Cardinality
<1>6. ASSUME NEW u \in Member PROVE Sessions!LastAdmin(u) <=> Logins!LastAdmin(u)
  <2>1. PICK O : O = {v \in Member : admin[v] /\ active[v]}
    OBVIOUS
  <2> QED
    BY <1>5, <2>1 DEF Sessions!LastAdmin, Logins!LastAdmin
<1>7. ASSUME NEW r \in Request, Sessions!Fail(r) PROVE Logins!Fail(r)
  BY <1>7 DEF Sessions!Fail, Logins!Fail
<1>8. ASSUME NEW r \in Request, Sessions!Issue(r) PROVE Logins!Issue(r)
  BY <1>8 DEF Sessions!Issue, Logins!Issue
<1>9. ASSUME NEW r \in Request, Sessions!CheckUser(r) PROVE Logins!CheckUser(r)
  BY <1>9 DEF Sessions!CheckUser, Logins!CheckUser
<1>10. ASSUME NEW r \in Request, Sessions!DropFromIndex(r) PROVE Logins!DropFromIndex(r)
  BY <1>10 DEF Sessions!DropFromIndex, Logins!DropFromIndex
<1>11. ASSUME NEW r \in Request, Sessions!Bump(r) PROVE Logins!Bump(r)
  BY <1>11 DEF Sessions!Bump, Logins!Bump
<1>12. ASSUME NEW r \in Request, Sessions!List(r) PROVE Logins!List(r)
  BY <1>12 DEF Sessions!List, Logins!List
<1>13. ASSUME NEW r \in Request, Sessions!Delete(r) PROVE Logins!Delete(r)
  BY <1>13 DEF Sessions!Delete, Logins!Delete
<1>14. ASSUME NEW r \in Request, Sessions!Commit(r) PROVE Logins!Commit(r)
  BY <1>14 DEF Sessions!Commit, Logins!Commit
<1>15. ASSUME NEW r \in Request, Sessions!ReplaceRolesCommit(r) PROVE Logins!ReplaceRolesCommit(r)
  BY <1>15 DEF Sessions!ReplaceRolesCommit, Logins!ReplaceRolesCommit
<1>16. ASSUME NEW r \in Request, NEW u \in Member, Sessions!Login(r, u)
      PROVE  Logins!Login(r, u)
  BY <1>16 DEF Sessions!Login, Logins!Login
<1>17. ASSUME NEW r \in Request, NEW u \in Member, Sessions!Deactivate(r, u)
      PROVE  Logins!Deactivate(r, u)
  BY <1>17, <1>6 DEF Sessions!Deactivate, Logins!Deactivate
<1>18. ASSUME NEW r \in Request, NEW u \in Member, Sessions!UpdatePassword(r, u)
      PROVE  Logins!UpdatePassword(r, u)
  BY <1>18 DEF Sessions!UpdatePassword, Logins!UpdatePassword
<1>19. ASSUME NEW r \in Request, NEW t \in Sessions!Token, Sessions!ReadGeneration(r, t)
      PROVE  Logins!ReadGeneration(r, t)
  BY <1>19 DEF Sessions!ReadGeneration, Logins!ReadGeneration
<1>20. ASSUME NEW r \in Request, NEW t \in Sessions!Token, Sessions!Refresh(r, t)
      PROVE  Logins!Refresh(r, t)
  BY <1>20 DEF Sessions!Refresh, Logins!Refresh
<1>21. ASSUME NEW r \in Request, NEW t \in Sessions!Token, Sessions!Rotate(r, t)
      PROVE  Logins!Rotate(r, t)
  BY <1>21 DEF Sessions!Rotate, Logins!Rotate
<1>22. ASSUME NEW r \in Request, NEW t \in Sessions!Token, Sessions!Logout(r, t)
      PROVE  Logins!Logout(r, t)
  BY <1>22 DEF Sessions!Logout, Logins!Logout
<1>23. ASSUME NEW r \in Request, NEW u \in Member, NEW to \in BOOLEAN,
              Sessions!ReplaceRoles(r, u, to)
      PROVE  Logins!ReplaceRoles(r, u, to)
  BY <1>6, <1>23 DEF Sessions!ReplaceRoles, Logins!ReplaceRoles
<1>24. ASSUME NEW u \in Member, Sessions!Activate(u) PROVE Logins!Activate(u)
  BY <1>24 DEF Sessions!Activate, Logins!Activate
<1>25. Sessions!Next => Logins!Next
  BY <1>7, <1>8, <1>9, <1>10, <1>11, <1>12, <1>13, <1>14, <1>15, <1>16, <1>17, <1>18, <1>19, <1>20, <1>21, <1>22, <1>23, <1>24 DEF Sessions!Next, Logins!Next
<1> QED
  BY <1>1, <1>2, <1>3, <1>4, <1>25

\* A step of the whole is a step of a service, or leaves it as it is.
LEMMA EachMoves ==
    ASSUME [ServicesNext]_vars
    PROVE  /\ [Next]_containmentVars /\ [Ledger!Next]_ledgerVars
           /\ [Desk!Next]_deskVars /\ [Sessions!Next]_sessionVars
           /\ [Release!Next]_releaseVars
BY DEF ServicesNext, ReleaseMoves, RollbacksMove, LedgerMoves, DeskMoves, SessionsMove, vars

\* The whole implements the two services whose theorems are stated of their
\* own specifications: the rollbacks and the sessions.
LEMMA ServicesImplement == ServicesSpec => Spec /\ Logins!Spec
<1>1. ServicesInit => Init /\ Logins!Init
  BY SameSessions DEF ServicesInit
<1>2. [ServicesNext]_vars => [Next]_containmentVars
  BY EachMoves
<1>3. [ServicesNext]_vars => [Logins!Next]_(Logins!identityVars)
  <2>1. UNCHANGED sessionVars => UNCHANGED Logins!identityVars
    BY DEF sessionVars, Logins!identityVars
  <2> QED
    BY <2>1, EachMoves, SameSessions
<1> QED
  BY <1>1, <1>2, <1>3, PTL DEF ServicesSpec, Spec, Logins!Spec

\* The releases, the ledger and the cases, beside the other services, keep
\* their invariants.
LEMMA ServicesInv == ServicesSpec => [](ReleaseInv /\ LedgerInv /\ DeskInv)
<1>1. ServicesInit => ReleaseInv /\ LedgerInv /\ DeskInv
  BY GovernanceAssumption, ReleaseInit, LedgerInit, DeskInit DEF ServicesInit
<1>2. ReleaseInv /\ LedgerInv /\ DeskInv /\ [ServicesNext]_vars
      => (ReleaseInv /\ LedgerInv /\ DeskInv)'
  <2> SUFFICES ASSUME ReleaseInv, LedgerInv, DeskInv, [ServicesNext]_vars
               PROVE  (ReleaseInv /\ LedgerInv /\ DeskInv)'
    OBVIOUS
  <2>1. ReleaseInv'
    BY GovernanceAssumption, EachMoves, ReleaseStep, ReleaseRest
  <2>2. LedgerInv'
    BY GovernanceAssumption, EachMoves, LedgerStep, LedgerRest
  <2>3. DeskInv'
    BY GovernanceAssumption, EachMoves, DeskStep, DeskRest
  <2> QED
    BY <2>1, <2>2, <2>3
<1> QED
  BY <1>1, <1>2, PTL DEF ServicesSpec

\* Retiring is final: no publication, listing or race between them brings a
\* version back (_retire_superseded_versions, publish_version).
THEOREM RetirementIsFinalHolds == ServicesSpec => RetirementIsFinal
<1>1. ReleaseInv /\ [ServicesNext]_vars => [Retired]_(Release!releaseVars)
  BY GovernanceAssumption, EachMoves, ReleaseStep, ReleaseRest
<1>2. Release!RetirementIsFinal <=> [][Retired]_(Release!releaseVars)
  BY PTL DEF Release!RetirementIsFinal, Retired
<1> QED
  BY <1>1, <1>2, ServicesInv, PTL DEF ServicesSpec, RetirementIsFinal

\* A listing leaves no version it saw armed unless the catalogue offers that
\* version, whoever armed it since the listing read it.
THEOREM ListingDisarmsPredecessorsHolds == ServicesSpec => ListingDisarmsPredecessors
<1>1. ReleaseInv /\ [ServicesNext]_vars => [Disarms]_(Release!releaseVars)
  BY GovernanceAssumption, SeedStep DEF Disarms, Offered
<1>2. Release!ListingDisarmsPredecessors <=> [][Disarms]_(Release!releaseVars)
  BY PTL DEF Release!ListingDisarmsPredecessors, Disarms
<1> QED
  BY <1>1, <1>2, ServicesInv, PTL DEF ServicesSpec, ListingDisarmsPredecessors

\* Every service keeps its types beside the others.
THEOREM TypesHold == ServicesSpec => []TypesOK
<1>1. ContainmentAssumption /\ Logins!IdentityAssumption
  BY GovernanceAssumption, SameSessions
<1>2. ReleaseInv /\ LedgerInv /\ DeskInv => Release!TypeOK /\ Ledger!TypeOK /\ Desk!TypeOK
  BY DEF ReleaseInv, LedgerInv, DeskInv
<1>3. Spec => []TypeOK
  BY <1>1, TypeCorrect
<1>4. Logins!Spec => []Logins!TypeOK
  BY <1>1, Logins!TypeCorrect
<1>5. Logins!TypeOK <=> Sessions!TypeOK
  BY SameSessions
<1> QED
  BY <1>2, <1>3, <1>4, <1>5, ServicesInv, ServicesImplement, PTL DEF TypesOK

\* An incident that is resolved, or that somebody resolved, has a diagnosis,
\* a cause and a resolution on file (_require_resolution_ready), though the
\* file was read before the request that resolves it commits.
THEOREM ResolvedIsReviewableHolds == ServicesSpec => []ResolvedIsReviewable
<1>1. DeskInv => ResolvedIsReviewable
  BY DEF DeskInv, ResolvedIsReviewable
<1> QED
  BY <1>1, ServicesInv, PTL

\* Nobody's own word validates a claim: one that reads as validated has only
\* assessments of others, all in its favour (_view and assess).
THEOREM ValidatedByOthersHolds == ServicesSpec => []ValidatedByOthers
<1>1. LedgerInv => ValidatedByOthers
  BY LedgerInvIsEnough DEF ValidatedByOthers
<1> QED
  BY <1>1, ServicesInv, PTL

\* A claim that lost its standing does not read as validated again, in
\* whatever order assessments and relations are dated and seen
\* (derive_presentation_state).
THEOREM TrustIsNotRegainedHolds == ServicesSpec => TrustIsNotRegained
<1> DEFINE Unanimity == \A c \in Claim : Ledger!ReadsAs(c) = "VALIDATED" => Unanimous(c)
           Kept == \A c \in Claim : Ledger!ReadsAs(c)' = "VALIDATED"
                                    => Ledger!ReadsAs(c) \in {"PROPOSED", "VALIDATED"}
<1>1. LedgerInv => Unanimity
  BY ValidatedIsUnanimous
<1>2. LedgerInv /\ Unanimity' /\ [ServicesNext]_vars => [Kept]_(Ledger!ledgerVars)
  <2> SUFFICES ASSUME LedgerInv, Unanimity', [ServicesNext]_vars,
                      NEW c \in Claim, Ledger!ReadsAs(c)' = "VALIDATED"
               PROVE  Ledger!ReadsAs(c) \in {"PROPOSED", "VALIDATED"}
    OBVIOUS
  <2> QED
    BY GovernanceAssumption, EachMoves, TrustStep
<1>3. Kept <=> \A c \in Claim : Ledger!ReadsAs(c)' = "VALIDATED"
                                => Ledger!ReadsAs(c) \in {"PROPOSED", "VALIDATED"}
  OBVIOUS
<1> QED
  BY <1>1, <1>2, <1>3, ServicesInv, PTL
     DEF ServicesSpec, TrustIsNotRegained, Ledger!TrustIsNotRegained

\* A login has one live token at a time, however many requests present it at
\* once (the two scripts of auth_service.py).
THEOREM OneSessionPerLoginHolds == ServicesSpec => []OneSessionPerLogin
<1>1. Logins!IdentityAssumption
  BY GovernanceAssumption, SameSessions
<1>2. Logins!Spec => []Logins!OneSessionPerLogin
  BY <1>1, Logins!OneSessionPerLoginHolds
<1>3. Logins!OneSessionPerLogin => OneSessionPerLogin
  BY SameSessions DEF OneSessionPerLogin
<1> QED
  BY <1>2, <1>3, ServicesImplement, PTL

\* A login that a revocation ended never gets another token.
THEOREM RevocationEndsLoginsHolds == ServicesSpec => RevocationEndsLogins
<1>1. Logins!IdentityAssumption
  BY GovernanceAssumption, SameSessions
<1>2. Logins!Spec => Logins!RevocationEndsLogins
  BY <1>1, Logins!RevocationEndsLoginsHolds
<1> DEFINE Stays == \A t \in Logins!Token :
              store[t] = Logins!Gone /\ store'[t] # Logins!Gone => login'[t] \notin ended
           Ended == \A t \in Sessions!Token :
              store[t] = Sessions!Gone /\ store'[t] # Sessions!Gone
              => login'[t] \notin ended
<1>3. [Stays]_(Logins!identityVars) => [Ended]_(Sessions!identityVars)
  BY DEF Logins!identityVars, Sessions!identityVars, Logins!Token, Sessions!Token,
         Logins!Gone, Sessions!Gone
<1>4. Logins!RevocationEndsLogins <=> [][Stays]_(Logins!identityVars)
  BY PTL DEF Logins!RevocationEndsLogins
<1>5. Sessions!RevocationEndsLogins <=> [][Ended]_(Sessions!identityVars)
  BY PTL DEF Sessions!RevocationEndsLogins
<1> QED
  BY <1>2, <1>3, <1>4, <1>5, ServicesImplement, PTL DEF RevocationEndsLogins
=============================================================================
