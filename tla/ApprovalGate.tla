---------------------------- MODULE ApprovalGate -----------------------------
(***************************************************************************)
(* What the decision service promises the rest of the platform: nothing    *)
(* acts on a proposal unless enough people other than its requester agreed *)
(* to it, the agreement is good for one use, and it does not stay open     *)
(* for ever.  No clocks, no locks, no sweeps.                              *)
(***************************************************************************)
EXTENDS Naturals, FiniteSets

CONSTANTS Proposal, User, NoUser

VARIABLES owner,      \* who proposed, NoUser while there is no proposal
          quorum,     \* approvals it takes
          approvers,  \* who approved
          grant,      \* what became of the agreement
          uses        \* how often somebody acted on it

vars == <<owner, quorum, approvers, grant, uses>>

Init ==
    /\ owner = [p \in Proposal |-> NoUser]
    /\ quorum = [p \in Proposal |-> 0]
    /\ approvers = [p \in Proposal |-> {}]
    /\ grant = [p \in Proposal |-> "none"]
    /\ uses = [p \in Proposal |-> 0]

Propose(p, u, q) ==
    /\ owner[p] = NoUser
    /\ owner' = [owner EXCEPT ![p] = u]
    /\ quorum' = [quorum EXCEPT ![p] = q]
    /\ UNCHANGED <<approvers, grant, uses>>

\* One more approval; the one that completes the quorum grants.
Approve(p, u) ==
    /\ owner[p] \notin {NoUser, u}
    /\ u \notin approvers[p]
    /\ grant[p] = "none"
    /\ approvers' = [approvers EXCEPT ![p] = @ \cup {u}]
    /\ grant' = IF quorum[p] \in 1..Cardinality(approvers[p] \cup {u})
                THEN [grant EXCEPT ![p] = "granted"]
                ELSE grant
    /\ UNCHANGED <<owner, quorum, uses>>

Use(p) ==
    /\ grant[p] = "granted"
    /\ grant' = [grant EXCEPT ![p] = "used"]
    /\ uses' = [uses EXCEPT ![p] = @ + 1]
    /\ UNCHANGED <<owner, quorum, approvers>>

Withdraw(p) ==
    /\ grant[p] = "granted"
    /\ grant' = [grant EXCEPT ![p] = "withdrawn"]
    /\ UNCHANGED <<owner, quorum, approvers, uses>>

Next ==
    \E p \in Proposal :
        \/ \E u \in User : Approve(p, u) \/ \E q \in 0..2 : Propose(p, u, q)
        \/ Use(p)
        \/ Withdraw(p)

SafetySpec == Init /\ [][Next]_vars

\* A granted capability is used or withdrawn; somebody need not propose
\* or approve.
Spec == SafetySpec /\ \A p \in Proposal : WF_vars(Use(p) \/ Withdraw(p))

=============================================================================
