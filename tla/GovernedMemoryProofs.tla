------------------------ MODULE GovernedMemoryProofs ------------------------
(***************************************************************************)
(* Four eyes on every version, and judgements that stand, for every set of *)
(* people, memories, feedback and facts.                                   *)
(***************************************************************************)
EXTENDS GovernedMemory, FiniteSetTheorems, WellFoundedInduction, TLAPS

Row == [status : Status, author : Author, drafter : Author, activator : Author,
        review : [User -> Decision \cup {"NONE"}],
        applies : SUBSET Facts, until : 0 .. MaxTime + 1]

(* A row names who wrote it as its author, nobody reviewed what he wrote,  *)
(* and it is active only if others approved and activated it.              *)
FourEyes(row) ==
    /\ row.author = row.drafter
    /\ \A u \in User : row.review[u] # "NONE" => u # row.drafter
    /\ row.status = "ACTIVE" =>
          /\ row.activator \in User \ {row.drafter}
          /\ \E u \in User : row.review[u] = "APPROVE"

(* What may become of a row.                                               *)
Stands(old, new) ==
    /\ old.status \in Ended => new = old
    /\ old.status # "NONE" =>
          /\ new.drafter = old.drafter
          /\ new.applies = old.applies
          /\ new.until = old.until
          /\ \A u \in User : old.review[u] # "NONE" => new.review[u] = old.review[u]

Becomes(old, new) == new \in Row /\ FourEyes(new) /\ Stands(old, new)

Rows ==
    /\ kind \in [Memory -> {"NONE", "CASE_NOTE", "TREND"}]
    /\ version \in [Version -> Row]
    /\ \A v \in Version : version[v].status # "NONE" => kind[v[1]] # "NONE"

IInv == Rows /\ \A v \in Version : FourEyes(version[v])

(* A nonempty set of naturals up to a bound has a largest element, and Max *)
(* is one.                                                                 *)
LEMMA MaxIsLargest ==
    ASSUME NEW bound \in Nat, NEW S, S \subseteq 0 .. bound, S # {}
    PROVE  Max(S) \in S /\ \A n \in S : n <= Max(S)
    <1> DEFINE Less == {p \in Nat \X Nat : p[1] < p[2]}
               Mirror == {k \in Nat : \E n \in S : k = bound - n}
    <1>1. IsWellFoundedOn(Less, Nat)
        BY NatLessThanWellFounded DEF OpToRel
    <1>2. \A n \in S : n \in Int /\ bound - n \in Mirror
        OBVIOUS
    <1>3. PICK x \in Mirror : \A y \in Mirror : ~(<<y, x>> \in Less)
        <2>1. Mirror \subseteq Nat /\ Mirror # {}
            BY <1>2
        <2> HIDE DEF Less, Mirror
        <2> QED
            BY <1>1, <2>1, WFMin
    <1>4. PICK m \in S : x = bound - m
        OBVIOUS
    <1>5. \A n \in S : m >= n
        <2> SUFFICES ASSUME NEW n \in S PROVE m >= n
            OBVIOUS
        <2>1. bound - n \in Mirror /\ bound - m \in Mirror
            BY <1>2
        <2>2. ~(<<bound - n, bound - m>> \in Less)
            BY <1>3, <1>4, <2>1
        <2>3. ~(bound - n < bound - m)
            BY <2>1, <2>2
        <2> QED
            BY <1>2, <2>3
    <1> QED
        BY <1>5 DEF Max

(* The version after the last is not written yet.                          *)
LEMMA LatestIsLast ==
    ASSUME MemoryAssumption, NEW m \in Memory
    PROVE  /\ Latest(m) \in 0 .. MaxVersion
           /\ Latest(m) # 0 => ~Is(<<m, Latest(m)>>, "NONE")
           /\ \A n \in 1 .. MaxVersion : n > Latest(m) => Is(<<m, n>>, "NONE")
    <1> DEFINE S == {0} \cup {n \in 1 .. MaxVersion : ~Is(<<m, n>>, "NONE")}
    <1>1. S \subseteq 0 .. MaxVersion /\ S # {} /\ MaxVersion \in Nat
        <2>1. MaxVersion \in Nat
            BY DEF MemoryAssumption
        <2> QED
            BY <2>1
    <1>2. Max(S) \in S /\ \A n \in S : n <= Max(S)
        <2> HIDE DEF S
        <2> QED
            BY <1>1, MaxIsLargest
    <1>3. Latest(m) = Max(S)
        BY DEF Latest
    <1>4. \A n \in 1 .. MaxVersion : n > Latest(m) => n \notin S
        BY <1>1, <1>2, <1>3
    <1> QED
        BY <1>1, <1>2, <1>3, <1>4

LEMMA DraftIsRow ==
    ASSUME MemoryAssumption, NEW u \in Author, NEW applies \in Conditions,
           NEW until \in 0 .. MaxTime + 1
    PROVE  /\ Draft(u, applies, until) \in Row
           /\ FourEyes(Draft(u, applies, until))
           /\ Draft(u, applies, until).status = "DRAFT"
    <1> DEFINE blank == [x \in User |-> "NONE"]
    <1>1. applies \in SUBSET Facts
        BY DEF MemoryAssumption
    <1>2. /\ blank \in [User -> Decision \cup {"NONE"}]
          /\ \A x \in User : blank[x] = "NONE"
        OBVIOUS
    <1>3. Draft(u, applies, until) =
             [status |-> "DRAFT", author |-> u, drafter |-> u,
              activator |-> Machine, review |-> blank,
              applies |-> applies, until |-> until]
        <2>1. Unwritten = [status |-> "NONE", author |-> Machine, drafter |-> Machine,
                           activator |-> Machine, review |-> blank,
                           applies |-> {}, until |-> 0]
            BY Zenon DEF Unwritten
        <2>2. Draft(u, applies, until) =
                 [[status |-> "NONE", author |-> Machine, drafter |-> Machine,
                   activator |-> Machine, review |-> blank,
                   applies |-> {}, until |-> 0]
                      EXCEPT !.status = "DRAFT", !.author = u, !.drafter = u,
                             !.applies = applies, !.until = until]
            BY <2>1, Zenon DEF Draft
        <2> HIDE DEF blank
        <2> QED
            BY <2>2
    <1> HIDE DEF blank
    <1>4. Machine \in Author /\ "DRAFT" \in Status
        BY DEF Author, Status
    <1>5. Draft(u, applies, until) \in Row
        BY <1>1, <1>2, <1>3, <1>4 DEF Row
    <1>6. FourEyes(Draft(u, applies, until))
        BY <1>2, <1>3 DEF FourEyes
    <1> QED
        BY <1>3, <1>5, <1>6

(* A row that is not touched stands.                                       *)
LEMMA Untouched == ASSUME NEW row \in Row, FourEyes(row)
                   PROVE  Becomes(row, row)
    BY DEF Becomes, Stands

----------------------------------------------------------------------------
(* Each way to change rows.                                                *)

Changed == \A v \in Version : Becomes(version[v], version'[v])

LEMMA KeptRows ==
    ASSUME IInv, Changed, UNCHANGED kind,
           version' \in [Version -> Row],
           \A v \in Version : version'[v].status # "NONE" => kind[v[1]] # "NONE"
    PROVE  IInv' /\ Changed
    BY DEF IInv, Rows, Changed, Becomes

(* One written row goes on to another status.                              *)
LEMMA OneRow ==
    ASSUME IInv, UNCHANGED kind, NEW v \in Version, NEW row,
           version' = [version EXCEPT ![v] = row],
           version[v].status # "NONE", Becomes(version[v], row)
    PROVE  IInv' /\ Changed
    <1>1. row \in Row /\ version \in [Version -> Row]
        BY DEF Becomes, IInv, Rows
    <1>2. \A w \in Version : version'[w] = IF w = v THEN row ELSE version[w]
        BY <1>1
    <1>3. Changed
        BY <1>1, <1>2, Untouched DEF Changed, IInv
    <1>4. version' \in [Version -> Row]
        BY <1>1
    <1>5. \A w \in Version : version'[w].status # "NONE" => kind[w[1]] # "NONE"
        BY <1>2 DEF IInv, Rows
    <1> QED
        BY <1>3, <1>4, <1>5, KeptRows

(* A memory's first version is written with the memory.                    *)
Founds(m, u, applies, until, k) ==
    /\ kind[m] = "NONE" /\ kind' = [kind EXCEPT ![m] = k]
    /\ version' = [version EXCEPT ![<<m, 1>>] = Draft(u, applies, until)]

LEMMA FirstDraft ==
    ASSUME MemoryAssumption, IInv, NEW m \in Memory, NEW u \in Author,
           NEW applies \in Conditions, NEW until \in 0 .. MaxTime + 1,
           NEW k \in {"CASE_NOTE", "TREND"},
           Founds(m, u, applies, until, k)
    PROVE  IInv' /\ Changed
    <1> USE DEF Founds
    <1> DEFINE new == Draft(u, applies, until)
    <1>1. <<m, 1>> \in Version
        BY DEF Version, MemoryAssumption
    <1>2. new \in Row /\ FourEyes(new) /\ version \in [Version -> Row]
        BY DraftIsRow DEF IInv, Rows
    <1> HIDE DEF new
    <1>3. version' = [version EXCEPT ![<<m, 1>>] = new]
        BY DEF new
    <1>4. \A v \in Version : version'[v] = IF v = <<m, 1>> THEN new ELSE version[v]
        BY <1>1, <1>2, <1>3
    <1>5. version[<<m, 1>>].status = "NONE"
        BY <1>1 DEF IInv, Rows
    <1>6. Becomes(version[<<m, 1>>], new)
        BY <1>2, <1>5 DEF Becomes, Stands, Ended
    <1>7. Changed
        BY <1>2, <1>4, <1>6, Untouched DEF Changed, IInv
    <1>8. version' \in [Version -> Row]
        BY <1>1, <1>2, <1>3
    <1>9. kind' \in [Memory -> {"NONE", "CASE_NOTE", "TREND"}]
          /\ \A x \in Memory : kind'[x] = IF x = m THEN k ELSE kind[x]
        BY DEF IInv, Rows
    <1>10. \A v \in Version : v[1] \in Memory
        BY DEF Version
    <1>11. \A v \in Version : version'[v].status # "NONE" => kind'[v[1]] # "NONE"
        BY <1>1, <1>4, <1>9, <1>10 DEF IInv, Rows
    <1> QED
        BY <1>7, <1>8, <1>9, <1>11 DEF IInv, Rows, Changed, Becomes

(* A correction is written behind the last version, which it may replace.  *)
LEMMA NextDraft ==
    ASSUME MemoryAssumption, IInv, NEW m \in Memory, NEW u \in User,
           NEW applies \in Conditions, NEW until \in Validity,
           CreateVersion(u, m, applies, until)
    PROVE  IInv' /\ Changed
    <1> DEFINE last == <<m, Latest(m)>>
               next == <<m, Latest(m) + 1>>
               new  == Draft(u, applies, until)
               old  == [version[last] EXCEPT !.status =
                            IF @ = "ACTIVE" THEN "SUPERSEDED" ELSE @]
    <1>1. Latest(m) \in 1 .. MaxVersion - 1 /\ UNCHANGED kind
        BY DEF CreateVersion, versionsOnly
    <1>2. last \in Version /\ next \in Version /\ last # next
          /\ Latest(m) + 1 \in 1 .. MaxVersion /\ Latest(m) + 1 > Latest(m)
        BY <1>1 DEF Version, MemoryAssumption
    <1>3. version[last].status # "NONE" /\ version[next].status = "NONE"
        BY <1>1, <1>2, LatestIsLast DEF Is
    <1>4. new \in Row /\ FourEyes(new)
        <2>1. u \in Author /\ until \in 0 .. MaxTime + 1
            BY DEF Author, MemoryAssumption
        <2> QED
            BY <2>1, DraftIsRow
    <1>5. version[last] \in Row /\ FourEyes(version[last]) /\ version \in [Version -> Row]
        BY <1>2 DEF IInv, Rows
    <1>6. Becomes(version[last], old)
        BY <1>5 DEF Becomes, Row, FourEyes, Stands, Status, Ended
    <1>7. Becomes(version[next], new)
        BY <1>3, <1>4 DEF Becomes, Stands, Ended
    <1>8. version' = [[version EXCEPT ![next] = new] EXCEPT ![last] = old]
        <2>1. version' = [version EXCEPT
                 ![next] = new,
                 ![last].status = IF @ = "ACTIVE" THEN "SUPERSEDED" ELSE @]
            BY DEF CreateVersion
        <2> HIDE DEF last, next, new
        <2> QED
            BY <1>2, <1>5, <2>1
    <1> HIDE DEF last, next, new, old
    <1>9. \A v \in Version : version'[v] =
             IF v = last THEN old ELSE IF v = next THEN new ELSE version[v]
        BY <1>2, <1>5, <1>8
    <1>10. Changed
        BY <1>5, <1>6, <1>7, <1>9, Untouched DEF Changed, IInv, Rows
    <1>11. version' \in [Version -> Row]
        BY <1>5, <1>6, <1>7, <1>8 DEF Becomes
    <1>12. last[1] = m /\ next[1] = m /\ kind[m] # "NONE"
        BY <1>2, <1>3 DEF last, next, IInv, Rows
    <1>13. \A v \in Version : version'[v].status # "NONE" => kind[v[1]] # "NONE"
        BY <1>9, <1>12 DEF IInv, Rows
    <1> QED
        BY <1>1, <1>10, <1>11, <1>13, KeptRows

(* The transitions take a row's lock and look at it.                       *)
LEMMA Judging ==
    ASSUME IInv, NEW v \in Version,
           \/ RequestReview(v) \/ Disable(v) \/ ExpireDue(v)
           \/ \E u \in User : Activate(u, v) \/ \E d \in Decision : Review(u, v, d)
    PROVE  IInv' /\ Changed
    <1>0. version[v] \in Row /\ FourEyes(version[v])
        BY DEF IInv, Rows
    <1>1. CASE RequestReview(v) \/ Disable(v) \/ ExpireDue(v)
        <2>1. PICK to \in {"IN_REVIEW", "DISABLED", "EXPIRED"} : To(v, to)
            BY <1>1 DEF RequestReview, Disable, ExpireDue
        <2>2. version[v].status \in {"DRAFT", "APPROVED", "ACTIVE"} /\ UNCHANGED kind
            BY <1>1 DEF RequestReview, Disable, ExpireDue, Is, versionsOnly
        <2> DEFINE row == [version[v] EXCEPT !.status = to]
        <2>3. version' = [version EXCEPT ![v] = row]
            BY <2>1 DEF To
        <2>4. Becomes(version[v], row)
            BY <1>0, <2>2 DEF Becomes, Row, FourEyes, Stands, Status, Ended
        <2> QED
            BY <2>2, <2>3, <2>4, OneRow
    <1>2. ASSUME NEW u \in User, Activate(u, v) PROVE IInv' /\ Changed
        <2> DEFINE row == [version[v] EXCEPT !.status = "ACTIVE", !.activator = u]
        <2>1. version' = [version EXCEPT ![v] = row] /\ UNCHANGED kind
            BY <1>2 DEF Activate, versionsOnly
        <2>2. /\ version[v].status = "APPROVED" /\ version[v].author # u
              /\ \E x \in User : version[v].review[x] = "APPROVE"
            BY <1>2 DEF Activate, Is
        <2>3. u \in Author
            BY DEF Author
        <2>4. row \in Row
            BY <1>0, <2>3 DEF Row, Status
        <2>5. FourEyes(row)
            BY <1>0, <2>2 DEF FourEyes, Row
        <2>6. Stands(version[v], row)
            BY <1>0, <2>2 DEF Stands, Ended, Row
        <2> QED
            BY <2>1, <2>2, <2>4, <2>5, <2>6, OneRow DEF Becomes
    <1>3. ASSUME NEW u \in User, NEW d \in Decision, Review(u, v, d)
          PROVE  IInv' /\ Changed
        <2> DEFINE row == [version[v] EXCEPT !.review[u] = d,
                                             !.status = ReviewTarget[d]]
        <2>1. version' = [version EXCEPT ![v] = row] /\ UNCHANGED kind
            BY <1>0, <1>3 DEF Review, versionsOnly, IInv, Rows
        <2>2. /\ version[v].status = "IN_REVIEW" /\ version[v].author # u
              /\ version[v].review[u] = "NONE"
            BY <1>3 DEF Review, Is
        <2>3. ReviewTarget[d] \in {"APPROVED", "REJECTED", "DRAFT"}
            BY DEF ReviewTarget, Decision
        <2>4. /\ row \in Row
              /\ row.status = ReviewTarget[d] /\ row.author = version[v].author
              /\ row.drafter = version[v].drafter /\ row.applies = version[v].applies
              /\ row.until = version[v].until
              /\ \A x \in User : row.review[x] = IF x = u THEN d ELSE version[v].review[x]
            BY <1>0, <2>3 DEF Row, Status
        <2> HIDE DEF row
        <2>5. FourEyes(row)
            BY <1>0, <2>2, <2>3, <2>4 DEF FourEyes
        <2>6. Stands(version[v], row)
            BY <2>2, <2>4 DEF Stands, Ended
        <2> QED
            BY <2>1, <2>2, <2>4, <2>5, <2>6, OneRow DEF Becomes
    <1> QED
        BY <1>1, <1>2, <1>3

LEMMA NextInv ==
    ASSUME MemoryAssumption, IInv, [Next]_memoryVars
    PROVE  IInv' /\ Changed
    <1>1. CASE \E u \in User, m \in Memory, applies \in Conditions, t \in Validity,
                  k \in {"CASE_NOTE", "TREND"} : CreateCandidate(u, m, k, applies, t)
        <2>1. PICK u \in User, m \in Memory, applies \in Conditions, t \in Validity,
                   k \in {"CASE_NOTE", "TREND"} : CreateCandidate(u, m, k, applies, t)
            BY <1>1
        <2>2. u \in Author /\ t \in 0 .. MaxTime + 1
            BY DEF Author, MemoryAssumption
        <2>3. Founds(m, u, applies, t, k)
            BY <2>1 DEF CreateCandidate, Founds
        <2> QED
            BY <2>2, <2>3, FirstDraft
    <1>2. CASE \E m \in Memory, applies \in Conditions : SuggestCandidate(m, applies)
        <2>1. Machine \in Author /\ MaxTime + 1 \in 0 .. MaxTime + 1
            BY DEF Author, MemoryAssumption
        <2>2. PICK m \in Memory, applies \in Conditions : SuggestCandidate(m, applies)
            BY <1>2
        <2>3. Founds(m, Machine, applies, MaxTime + 1, "CASE_NOTE")
            BY <2>2 DEF SuggestCandidate, Founds
        <2> QED
            BY <2>1, <2>3, FirstDraft
    <1>3. CASE \E u \in User, m \in Memory, applies \in Conditions, t \in Validity :
                  CreateVersion(u, m, applies, t)
        BY <1>3, NextDraft
    <1>4. CASE \E v \in Version :
                  \/ RequestReview(v) \/ Disable(v) \/ ExpireDue(v)
                  \/ \E u \in User : Activate(u, v) \/ \E d \in Decision : Review(u, v, d)
        BY <1>4, Judging
    <1>5. CASE UNCHANGED <<kind, version>>
        <2>1. Changed
            BY <1>5, Untouched DEF Changed, IInv, Rows
        <2> QED
            BY <1>5, <2>1, KeptRows DEF IInv, Rows
    <1>6. CASE \/ TimePasses \/ RecordInfluence
               \/ \E f \in Feedback : CreateFeedback(f)
               \/ \E facts \in Facts : ListActive(facts)
        BY <1>5, <1>6 DEF TimePasses, RecordInfluence, CreateFeedback, ListActive
    <1>7. CASE UNCHANGED memoryVars
        BY <1>5, <1>7 DEF memoryVars
    <1> QED
        BY <1>1, <1>2, <1>3, <1>4, <1>6, <1>7 DEF Next

LEMMA InitInv == ASSUME MemoryAssumption, Init PROVE IInv
    <1>1. Unwritten \in Row /\ FourEyes(Unwritten) /\ Unwritten.status = "NONE"
        <2>1. MaxTime \in Nat /\ Machine \in Author /\ "NONE" \in Status
            BY DEF MemoryAssumption, Author, Status
        <2>2. [u \in User |-> "NONE"] \in [User -> Decision \cup {"NONE"}]
            OBVIOUS
        <2>3. Unwritten \in Row
            BY <2>1, <2>2 DEF Unwritten, Row
        <2> QED
            BY <2>3 DEF Unwritten, FourEyes
    <1> QED
        BY <1>1 DEF Init, IInv, Rows

LEMMA AlwaysInv == MemoryAssumption /\ Spec => []IInv
    <1> SUFFICES ASSUME MemoryAssumption PROVE Spec => []IInv
        OBVIOUS
    <1>1. Init => IInv
        BY InitInv
    <1>2. IInv /\ [Next]_memoryVars => IInv'
        BY NextInv
    <1> QED
        BY <1>1, <1>2, PTL DEF Spec

----------------------------------------------------------------------------
(* The types.                                                              *)

(* A memory's versions are numbered without a gap.                         *)
Written(v) == version[v].status # "NONE"
Before(v) == <<v[1], v[2] - 1>>
Gapless == \A v \in Version : Written(v) /\ v[2] > 1 => Written(Before(v))

(* A listing shows versions, and no more of them than there are.           *)
Listing(l) ==
    l = NoListing \/
    /\ l.facts \in Facts
    /\ \E n \in 0 .. Cardinality(Version) : l.shown \in [1 .. n -> Version]

LedgerOK ==
    /\ Listing(listed)
    /\ \A key \in DOMAIN ledger : ledger[key] \in Version
    /\ DOMAIN ledger \subseteq Facts \X (1 .. Cardinality(Version))

TypeInv == IInv /\ TypeOK /\ Gapless /\ Listing(listed)

LEMMA VersionIsFinite ==
    ASSUME MemoryAssumption
    PROVE  /\ IsFiniteSet(Version) /\ Cardinality(Version) \in Nat
           /\ \A S \in SUBSET Version : Cardinality(S) \in 0 .. Cardinality(Version)
    <1>1. IsFiniteSet(1 .. MaxVersion)
        <2>1. 1 \in Int /\ MaxVersion \in Int
            BY DEF MemoryAssumption
        <2> QED
            BY <2>1, FS_Interval
    <1>2. IsFiniteSet(Version)
        BY <1>1, FS_Product DEF MemoryAssumption, Version
    <1>3. ASSUME NEW S \in SUBSET Version
          PROVE  Cardinality(S) \in 0 .. Cardinality(Version)
        BY <1>2, FS_Subset, FS_CardinalityType
    <1> QED
        BY <1>2, <1>3, FS_CardinalityType

(* What is written stays written, and is written behind what was.          *)
LEMMA GaplessKept ==
    ASSUME MemoryAssumption, Gapless,
           \A v \in Version : Written(v) => Written(v)',
           \A v \in Version : Written(v)' /\ ~Written(v) /\ v[2] > 1 => Written(Before(v))
    PROVE  Gapless'
    <1> SUFFICES ASSUME NEW v \in Version, Written(v)', v[2] > 1
                 PROVE  Written(Before(v))'
        BY DEF Gapless
    <1>1. Before(v) \in Version
        <2>1. MaxVersion \in Nat
            BY DEF MemoryAssumption
        <2> QED
            BY <2>1 DEF Version, Before
    <1>2. Written(Before(v))
        BY DEF Gapless
    <1>3. PICK w : w = Before(v)
        OBVIOUS
    <1>4. Written(w)'
        BY <1>1, <1>2, <1>3
    <1> QED
        BY <1>3, <1>4 DEF Before

(* One row is written, or goes on.                                         *)
LEMMA WriteOne ==
    ASSUME MemoryAssumption, IInv, Gapless, NEW v \in Version, NEW row, row.status # "NONE",
           version' = [version EXCEPT ![v] = row],
           Written(v) \/ v[2] = 1
    PROVE  Gapless'
    <1>1. \A w \in Version : version'[w] = IF w = v THEN row ELSE version[w]
        BY DEF IInv, Rows
    <1> QED
        BY <1>1, GaplessKept DEF Written

LEMMA GaplessStep ==
    ASSUME MemoryAssumption, IInv, Gapless, [Next]_memoryVars
    PROVE  Gapless'
    <1>1. ASSUME NEW m \in Memory, NEW u \in Author, NEW applies, NEW t,
                 version' = [version EXCEPT ![<<m, 1>>] = Draft(u, applies, t)]
          PROVE  Gapless'
        <2>1. <<m, 1>> \in Version /\ Draft(u, applies, t).status = "DRAFT"
            BY DEF Version, MemoryAssumption, Draft, Unwritten
        <2> QED
            BY <1>1, <2>1, WriteOne
    <1>2. ASSUME NEW u \in User, NEW m \in Memory, NEW applies \in Conditions,
                 NEW t \in Validity, CreateVersion(u, m, applies, t)
          PROVE  Gapless'
        <2> DEFINE last == <<m, Latest(m)>>
                   next == <<m, Latest(m) + 1>>
                   new  == Draft(u, applies, t)
                   to   == IF version[last].status = "ACTIVE" THEN "SUPERSEDED"
                           ELSE version[last].status
        <2>1. Latest(m) \in 1 .. MaxVersion - 1
            BY <1>2 DEF CreateVersion
        <2>2. /\ last \in Version /\ next \in Version /\ last # next
              /\ Before(next) = last
            BY <2>1 DEF Version, MemoryAssumption, Before
        <2>3. version[last].status # "NONE" /\ new.status # "NONE"
            BY <2>1, <2>2, LatestIsLast DEF Is, Draft, Unwritten
        <2>4. version' = [version EXCEPT ![next] = new, ![last].status = to]
            BY <1>2 DEF CreateVersion
        <2> HIDE DEF last, next, new
        <2>5. \A w \in Version : Written(w)' <=> Written(w) \/ w = next
            BY <2>2, <2>3, <2>4 DEF Written, IInv, Rows, Row
        <2> QED
            BY <2>2, <2>3, <2>5, GaplessKept DEF Written
    <1>3. ASSUME NEW v \in Version, NEW to \in Status \ {"NONE"}, Written(v),
                 \A w \in Version \ {v} : version'[w] = version[w],
                 version'[v].status = to
          PROVE  Gapless'
        BY <1>3, GaplessKept DEF Written
    <1>4. ASSUME NEW v \in Version,
                 \/ RequestReview(v) \/ Disable(v) \/ ExpireDue(v)
                 \/ \E u \in User : Activate(u, v) \/ \E d \in Decision : Review(u, v, d)
          PROVE  Gapless'
        <2>0. version \in [Version -> Row]
            BY DEF IInv, Rows
        <2>1. CASE RequestReview(v) \/ Disable(v) \/ ExpireDue(v)
            BY <1>3, <2>0, <2>1 DEF RequestReview, Disable, ExpireDue, To, Is, Written, Status, Row
        <2>2. ASSUME NEW u \in User, Activate(u, v) PROVE Gapless'
            BY <1>3, <2>0, <2>2 DEF Activate, Is, Written, Status, Row
        <2>3. ASSUME NEW u \in User, NEW d \in Decision, Review(u, v, d) PROVE Gapless'
            <3>1. ReviewTarget[d] \in {"APPROVED", "REJECTED", "DRAFT"}
                BY DEF ReviewTarget, Decision
            <3>2. /\ version'[v].status = ReviewTarget[d] /\ Written(v)
                  /\ \A w \in Version \ {v} : version'[w] = version[w]
                BY <2>0, <2>3 DEF Review, Is, Written, Row
            <3> QED
                BY <1>3, <3>1, <3>2 DEF Status
        <2> QED
            BY <1>4, <2>1, <2>2, <2>3
    <1>5. CASE UNCHANGED version
        BY <1>5 DEF Gapless, Written, Before
    <1>6. CASE \/ TimePasses \/ RecordInfluence \/ UNCHANGED memoryVars
               \/ \E f \in Feedback : CreateFeedback(f)
               \/ \E facts \in Facts : ListActive(facts)
        BY <1>5, <1>6 DEF TimePasses, RecordInfluence, CreateFeedback, ListActive, memoryVars
    <1>7. ASSUME NEW u \in User, NEW m \in Memory, NEW applies, NEW t, NEW k,
                 CreateCandidate(u, m, k, applies, t)
          PROVE  Gapless'
        BY <1>1, <1>7 DEF CreateCandidate, Author
    <1>8. ASSUME NEW m \in Memory, NEW applies, SuggestCandidate(m, applies)
          PROVE  Gapless'
        BY <1>1, <1>8 DEF SuggestCandidate, Author
    <1> QED
        BY <1>2, <1>4, <1>6, <1>7, <1>8 DEF Next

(* A listing names versions that are written.                              *)
LEMMA ListingStep ==
    ASSUME MemoryAssumption, IInv, NEW facts \in Facts, ListActive(facts)
    PROVE  Listing(listed)'
    <1> DEFINE S == {v \in Active : facts \in version[Response(v)].applies}
    <1>1. PICK s \in InOrder(S) :
              listed' = [facts |-> facts, shown |-> [i \in DOMAIN s |-> Response(s[i])]]
        BY DEF ListActive
    <1>2. S \in SUBSET Version /\ \A v \in S : Is(v, "ACTIVE")
        BY DEF Active
    <1>3. s \in [1 .. Cardinality(S) -> S]
        BY DEF InOrder
    <1>4. Cardinality(S) \in 0 .. Cardinality(Version)
        BY <1>2, VersionIsFinite
    <1> HIDE DEF S
    <1>5. ASSUME NEW v \in S PROVE Response(v) \in Version
        <2>1. PICK m \in Memory, n \in 1 .. MaxVersion : v = <<m, n>>
            BY <1>2 DEF Version
        <2>2. Latest(m) \in 1 .. MaxVersion
            <3>1. ~Is(<<m, n>>, "NONE")
                BY <1>2, <2>1 DEF Is
            <3>2. Latest(m) \in 0 .. MaxVersion /\ ~(n > Latest(m)) /\ MaxVersion \in Nat
                BY <3>1, LatestIsLast DEF MemoryAssumption
            <3> QED
                BY <3>2
        <2> QED
            BY <2>1, <2>2 DEF Response, Version
    <1>6. [i \in DOMAIN s |-> Response(s[i])] \in [1 .. Cardinality(S) -> Version]
        BY <1>3, <1>5
    <1> QED
        BY <1>1, <1>4, <1>6 DEF Listing

LEMMA TypeInit == ASSUME MemoryAssumption, Init PROVE TypeInv
    <1>1. IInv
        BY InitInv
    <1>2. \A v \in Version : ~Written(v)
        BY DEF Init, Written, Unwritten
    <1>3. DOMAIN ledger = {}
        BY DEF Init
    <1>4. today \in 0 .. MaxTime
        <2>1. MaxTime \in Nat
            BY DEF MemoryAssumption
        <2> QED
            BY <2>1 DEF Init
    <1> QED
        BY <1>1, <1>2, <1>3, <1>4
           DEF Init, TypeInv, TypeOK, IInv, Rows, Row, Gapless, Written, Listing

(* A step writes versions, or leaves them and does one of four things.     *)
LEMMA StepKinds ==
    ASSUME [Next]_memoryVars
    PROVE  \/ UNCHANGED <<feedback, ledger, listed, today>>
           \/ TimePasses \/ RecordInfluence
           \/ \E f \in Feedback : CreateFeedback(f)
           \/ \E facts \in Facts : ListActive(facts)
    <1> DEFINE Rest == UNCHANGED <<feedback, ledger, listed, today>>
    <1>1. ASSUME NEW u \in User, NEW m \in Memory, NEW applies \in Conditions,
                 NEW t \in Validity, NEW k, CreateCandidate(u, m, k, applies, t)
          PROVE  Rest
        BY <1>1 DEF CreateCandidate
    <1>2. ASSUME NEW u \in User, NEW m \in Memory, NEW applies \in Conditions,
                 NEW t \in Validity, CreateVersion(u, m, applies, t)
          PROVE  Rest
        BY <1>2 DEF CreateVersion, versionsOnly
    <1>3. ASSUME NEW m \in Memory, NEW applies \in Conditions,
                 SuggestCandidate(m, applies)
          PROVE  Rest
        BY <1>3 DEF SuggestCandidate
    <1>4. ASSUME NEW v \in Version, RequestReview(v) \/ Disable(v) \/ ExpireDue(v)
          PROVE  Rest
        BY <1>4 DEF RequestReview, Disable, ExpireDue, versionsOnly
    <1>5. ASSUME NEW v \in Version, NEW u \in User,
                 Activate(u, v) \/ \E d \in Decision : Review(u, v, d)
          PROVE  Rest
        BY <1>5 DEF Activate, Review, versionsOnly
    <1>6. UNCHANGED memoryVars => Rest
        BY DEF memoryVars
    <1> HIDE DEF Rest
    <1>7. ASSUME \/ \E u \in User, m \in Memory, applies \in Conditions, t \in Validity :
                      \/ \E k \in {"CASE_NOTE", "TREND"} :
                            CreateCandidate(u, m, k, applies, t)
                      \/ CreateVersion(u, m, applies, t)
                 \/ \E m \in Memory, applies \in Conditions : SuggestCandidate(m, applies)
          PROVE  Rest
        BY <1>1, <1>2, <1>3, <1>7
    <1>8. ASSUME \/ \E v \in Version : RequestReview(v) \/ Disable(v) \/ ExpireDue(v)
                 \/ \E v \in Version, u \in User :
                       Activate(u, v) \/ \E d \in Decision : Review(u, v, d)
          PROVE  Rest
        BY <1>4, <1>5, <1>8
    <1>9. Next => Rest \/ TimePasses \/ RecordInfluence
                  \/ (\E f \in Feedback : CreateFeedback(f))
                  \/ (\E facts \in Facts : ListActive(facts))
        BY <1>7, <1>8 DEF Next
    <1> QED
        BY <1>6, <1>9 DEF Rest

LEMMA TypeStep ==
    ASSUME MemoryAssumption, TypeInv, [Next]_memoryVars
    PROVE  TypeInv'
    <1>1. IInv' /\ Gapless'
        BY NextInv, GaplessStep DEF TypeInv
    <1>2. feedback' \subseteq Feedback
        <2>1. feedback \subseteq Feedback
            BY DEF TypeInv, TypeOK
        <2> QED
            BY <2>1, StepKinds DEF TimePasses, RecordInfluence, CreateFeedback, ListActive
    <1>3. today' \in 0 .. MaxTime
        <2>1. today \in 0 .. MaxTime /\ MaxTime \in Nat
            BY DEF TypeInv, TypeOK, MemoryAssumption
        <2>2. UNCHANGED today \/ TimePasses
            BY StepKinds DEF RecordInfluence, CreateFeedback, ListActive
        <2> QED
            BY <2>1, <2>2 DEF TimePasses
    <1>4. LedgerOK'
        <2>0. LedgerOK
            BY DEF TypeInv, TypeOK, LedgerOK
        <2>1. CASE UNCHANGED <<ledger, listed>>
            BY <2>0, <2>1 DEF LedgerOK, Listing
        <2>2. ASSUME NEW facts \in Facts, ListActive(facts) PROVE  LedgerOK'
            BY <2>0, <2>2, ListingStep DEF TypeInv, LedgerOK, ListActive
        <2>3. CASE RecordInfluence
            <3> DEFINE Key(i) == <<listed.facts, i>>
                       Fresh == {i \in DOMAIN listed.shown : Key(i) \notin DOMAIN ledger}
                       Keys == DOMAIN ledger \cup {Key(i) : i \in Fresh}
            <3>1. /\ listed # NoListing /\ listed' = NoListing
                  /\ ledger' = [key \in Keys |-> IF key \in DOMAIN ledger THEN ledger[key]
                                                 ELSE listed.shown[key[2]]]
                BY <2>3 DEF RecordInfluence
            <3>2. PICK n \in 0 .. Cardinality(Version) :
                     listed.facts \in Facts /\ listed.shown \in [1 .. n -> Version]
                BY <2>0, <3>1 DEF LedgerOK, Listing
            <3>3. Cardinality(Version) \in Nat
                BY VersionIsFinite
            <3>4. \A i \in Fresh : /\ i \in 1 .. Cardinality(Version)
                                   /\ listed.shown[i] \in Version
                                   /\ Key(i)[2] = i
                BY <3>2, <3>3
            <3>5. \A key \in Keys : /\ key \in Facts \X (1 .. Cardinality(Version))
                                    /\ key \notin DOMAIN ledger =>
                                          listed.shown[key[2]] \in Version
                <4>1. ASSUME NEW key \in DOMAIN ledger
                      PROVE  key \in Facts \X (1 .. Cardinality(Version))
                    BY <2>0, <4>1 DEF LedgerOK
                <4>2. ASSUME NEW i \in Fresh
                      PROVE  /\ Key(i) \in Facts \X (1 .. Cardinality(Version))
                             /\ listed.shown[Key(i)[2]] \in Version
                    BY <3>2, <3>4
                <4> HIDE DEF Fresh, Key
                <4> QED
                    BY <4>1, <4>2
            <3> HIDE DEF Keys
            <3> QED
                BY <2>0, <3>1, <3>5 DEF LedgerOK, Listing
        <2>4. CASE TimePasses \/ \E f \in Feedback : CreateFeedback(f)
            BY <2>1, <2>4 DEF TimePasses, CreateFeedback
        <2> QED
            BY <2>1, <2>2, <2>3, <2>4, StepKinds
    <1>5. TypeOK'
        <2>1. /\ kind' \in [Memory -> {"NONE", "CASE_NOTE", "TREND"}]
              /\ version' \in [Version -> Row]
              /\ \A v \in Version : version'[v].status # "NONE" =>
                    kind'[v[1]] # "NONE" /\ (v[2] > 1 =>
                       version'[<<v[1], v[2] - 1>>].status # "NONE")
            BY <1>1 DEF IInv, Rows, Gapless, Written, Before
        <2>2. listed' = NoListing \/ listed'.facts \in Facts
            BY <1>4 DEF LedgerOK, Listing
        <2> QED
            BY <1>2, <1>3, <1>4, <2>1, <2>2 DEF TypeOK, LedgerOK, Row
    <1> QED
        BY <1>1, <1>4, <1>5 DEF TypeInv, LedgerOK

(* Everything has its type, and a memory's versions are numbered without a *)
(* gap, for every way to draft, judge, show and correct them.              *)
THEOREM TypeCorrect == MemoryAssumption /\ Spec => []TypeOK
    <1> SUFFICES ASSUME MemoryAssumption PROVE Spec => []TypeOK
        OBVIOUS
    <1>1. Init => TypeInv
        BY TypeInit
    <1>2. TypeInv /\ [Next]_memoryVars => TypeInv'
        BY TypeStep
    <1>3. TypeInv => TypeOK
        BY DEF TypeInv
    <1> QED
        BY <1>1, <1>2, <1>3, PTL DEF Spec

----------------------------------------------------------------------------
(* Nothing is live that its author approved or activated, however many     *)
(* versions a memory has had and whoever wrote them.                       *)
THEOREM ActiveWasJudgedHolds == MemoryAssumption /\ Spec => []ActiveWasJudged
    <1>1. IInv => ActiveWasJudged
        BY DEF IInv, FourEyes, ActiveWasJudged, Is
    <1> QED
        BY <1>1, AlwaysInv, PTL

(* No request, sweep or correction touches a judgement that was passed, or *)
(* what it was passed on.                                                  *)
THEOREM JudgementsStandHolds == MemoryAssumption /\ Spec => JudgementsStand
    <1> SUFFICES ASSUME MemoryAssumption PROVE Spec => JudgementsStand
        OBVIOUS
    <1> DEFINE Kept == \A v \in Version :
                  /\ version[v].status \in Ended => version'[v] = version[v]
                  /\ ~Is(v, "NONE") =>
                        /\ version'[v].drafter = version[v].drafter
                        /\ version'[v].applies = version[v].applies
                        /\ version'[v].until = version[v].until
                        /\ \A u \in User : version[v].review[u] # "NONE" =>
                              version'[v].review[u] = version[v].review[u]
    <1>1. IInv /\ [Next]_memoryVars => Kept
        <2>1. Changed => Kept
            BY DEF Changed, Becomes, Stands, Is
        <2> QED
            BY <2>1, NextInv
    <1>2. Spec => []IInv
        BY AlwaysInv
    <1> QED
        BY <1>1, <1>2, PTL DEF Spec, JudgementsStand
=============================================================================
