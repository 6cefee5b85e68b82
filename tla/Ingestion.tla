------------------------------ MODULE Ingestion ------------------------------
(***************************************************************************)
(* Findings on their way from the Wazuh indexer to the finding ledger.     *)
(* The scheduler reads a page of documents after its cursor, stores each   *)
(* in a transaction of its own and moves the cursor when the page is       *)
(* through; an operator may run the same over any stretch by hand, which   *)
(* leaves the cursor alone.  Documents become visible in any order and may *)
(* change; a page that fails, or a process that dies, leaves the cursor    *)
(* where it was.                                                           *)
(*                                                                         *)
(* Source: integrations/application, infrastructure/finding_repository.py  *)
(* and infrastructure/wazuh.  A stamp is a place in the indexer's order of *)
(* timestamp and id; what has no timestamp is placed last.  The event of a *)
(* revision is recorded in the revision's transaction and is the bus's.    *)
(***************************************************************************)
EXTENDS Naturals, Sequences, FiniteSets, SequencesExt

CONSTANTS Document, Payload,
          Stamp,       \* where each document stands in the indexer's order
          Malformed,   \* payloads the normalizer refuses
          Limit,       \* documents of a page
          Scheduler,   \* the process that owns the cursor
          Operator,    \* runs of sync_wazuh_findings
          Hidden,      \* what a document contains before it is indexed
          MaxFailures  \* bound on pages that fail halfway

IngestionAssumption ==
    /\ Stamp \in [Document -> Nat \ {0}]
    /\ \A d, e \in Document : Stamp[d] = Stamp[e] => d = e
    /\ Malformed \subseteq Payload
    /\ Limit \in Nat \ {0}
    /\ Scheduler \notin Operator
    /\ Hidden \notin Payload
    /\ MaxFailures \in Nat

VARIABLES index,    \* what the indexer shows of each document
          cursor,   \* integration_sync_state.cursor, 0 when there is none
          page,     \* what each process has yet to store, in order
          mark,     \* where the page each process holds ends
          revision, \* finding_revisions of each document, by number
          failures

ingestionVars == <<index, cursor, page, mark, revision, failures>>

Process == {Scheduler} \cup Operator
Finding == [document : Document, payload : Payload]

TypeOK ==
    /\ index \in [Document -> Payload \cup {Hidden}]
    /\ cursor \in {0} \cup {Stamp[d] : d \in Document}
    /\ \A w \in Process : page[w] \in Seq(Finding) /\ Len(page[w]) <= Limit
    /\ mark \in [Process -> {0} \cup {Stamp[d] : d \in Document}]
    /\ \A d \in Document :
          /\ ToSet(revision[d]) \subseteq Payload \ Malformed
          /\ IsInjective(revision[d])
    /\ failures \in 0 .. MaxFailures

Init ==
    /\ index = [d \in Document |-> Hidden]
    /\ cursor = 0
    /\ page = [w \in Process |-> <<>>]
    /\ mark = [w \in Process |-> 0]
    /\ revision = [d \in Document |-> <<>>]
    /\ failures = 0

Visible(d) == index[d] # Hidden
Stored(d, payload) == payload \in ToSet(revision[d])

\* The indexer shows a document, or what a reindexing made of it.
Index(d, payload) ==
    /\ index[d] # payload
    /\ index' = [index EXCEPT ![d] = payload]
    /\ UNCHANGED <<cursor, page, mark, revision, failures>>

\* The page after a stamp: the documents that come first in the indexer's
\* order, all there are or as many as a page holds.  There is at most one.
After(from) ==
    LET Later == {d \in Document : Visible(d) /\ Stamp[d] > from} IN
    {found \in UNION {[1 .. n -> Later] : n \in 1 .. Limit} :
        /\ \A i, j \in 1 .. Len(found) : i < j => Stamp[found[i]] < Stamp[found[j]]
        /\ \A d \in Later \ ToSet(found) :
              Len(found) = Limit /\ Stamp[found[Limit]] < Stamp[d]}

\* One document that cannot be normalized refuses the page as a whole.
Fetch(w, from) ==
    /\ mark[w] = 0
    /\ \E found \in After(from) :
          /\ \A i \in 1 .. Len(found) : index[found[i]] \notin Malformed
          /\ page' = [page EXCEPT ![w] = [i \in 1 .. Len(found) |->
                          [document |-> found[i], payload |-> index[found[i]]]]]
          /\ mark' = [mark EXCEPT ![w] = Stamp[found[Len(found)]]]
    /\ UNCHANGED <<index, cursor, revision, failures>>

\* Mutant: whether the revision is there already is not looked at.
Persisted_Always(finding) ==
    [revision EXCEPT ![finding.document] = Append(@, finding.payload)]

\* Under the lock of the finding's row: what is there already is not added.
Persisted(finding) ==
    [revision EXCEPT ![finding.document] =
        IF Stored(finding.document, finding.payload) THEN @
        ELSE Append(@, finding.payload)]

Ingest(w) ==
    /\ page[w] # <<>>
    /\ revision' = Persisted(Head(page[w]))
    /\ page' = [page EXCEPT ![w] = Tail(@)]
    /\ UNCHANGED <<index, cursor, mark, failures>>

\* Mutant: the cursor moves as soon as the page has come.
Through_OnceFetched(w) == TRUE

Through(w) == page[w] = <<>>

\* Only a page that is through moves the scheduler's cursor.
Finish(w) ==
    /\ mark[w] # 0
    /\ Through(w)
    /\ cursor' = IF w = Scheduler THEN mark[w] ELSE cursor
    /\ page' = [page EXCEPT ![w] = <<>>]
    /\ mark' = [mark EXCEPT ![w] = 0]
    /\ UNCHANGED <<index, revision, failures>>

\* A transaction fails or the process dies.
Fail(w) ==
    /\ mark[w] # 0
    /\ failures < MaxFailures
    /\ failures' = failures + 1
    /\ page' = [page EXCEPT ![w] = <<>>]
    /\ mark' = [mark EXCEPT ![w] = 0]
    /\ UNCHANGED <<index, cursor, revision>>

Cycle == Fetch(Scheduler, cursor) \/ Ingest(Scheduler) \/ Finish(Scheduler)

Next ==
    \/ Cycle
    \/ \E d \in Document, payload \in Payload : Index(d, payload)
    \/ \E w \in Operator :
          \/ Ingest(w) \/ Finish(w)
          \/ \E d \in Document : Fetch(w, Stamp[d] - 1)
    \/ \E w \in Process : Fail(w)

\* The scheduler's loop comes round, and a page that fails is read again.
Fairness == WF_ingestionVars(Cycle)

Spec == Init /\ [][Next]_ingestionVars
FairSpec == Spec /\ Fairness

----------------------------------------------------------------------------
(* Every finding that becomes visible beyond what was fetched so far is    *)
(* stored in the end, whatever fails on the way and whoever else           *)
(* synchronizes, unless a document that cannot be normalized stands in the *)
(* way ("cursor and watermark advance only after the whole batch is        *)
(* persisted", PHASE_25).                                                  *)
EveryFindingIsTaken == \A d \in Document :
    (Visible(d) /\ cursor < Stamp[d] /\ mark[Scheduler] < Stamp[d])
        ~> \/ revision[d] # <<>>
           \/ \E e \in Document :
                 index[e] \in Malformed /\ cursor < Stamp[e]
=============================================================================
