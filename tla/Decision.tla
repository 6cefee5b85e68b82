------------------------------ MODULE Decision -------------------------------
(***************************************************************************)
(* Governed response: a proposal is evaluated against the tenant's policy, *)
(* approved by people other than its requester, turned into a short-lived  *)
(* authorization, and consumed once by a playbook execution.               *)
(*                                                                         *)
(* Sources: decision/application/service.py, decision/domain/models.py,    *)
(* the consumer create_from_authorization of playbooks/application/        *)
(* service.py, and the scheduler's sweep.  Row locks (FOR UPDATE) make     *)
(* what follows them in a transaction one step; what a transaction read    *)
(* before it had the lock, its clock above all, is a field of call, and    *)
(* may be old when it is used.                                             *)
(***************************************************************************)
EXTENDS Naturals, FiniteSets

CONSTANTS Proposal,          \* proposals, identified by their fingerprint
          User,              \* active users of the tenant
          Requester,         \* those with response.request
          Approver,          \* those with response.approve
          Session,           \* API requests served at the same time
          Key,               \* Idempotency-Key values of execution requests
          Governance,        \* released [impact, mode] pairs
          AutomaticEnabled,  \* decision_automatic_response_enabled
          RequestTtl,        \* 30 minutes
          AuthorizationTtl,  \* 5 minutes
          BatchSize,         \* decision_expiration_batch_size
          MaxTime,           \* bound on the clock
          MaxVersion,        \* bound on the incident's version
          NoUser, NoProposal, NoKey

Impact == {"OBSERVATIONAL", "LOW", "MODERATE", "HIGH", "CRITICAL"}
ResponseMode == {"RECOMMENDATION_ONLY", "HUMAN_APPROVAL", "DUAL_APPROVAL", "AUTOMATIC"}

ASSUME DecisionAssumption ==
    /\ IsFiniteSet(User)
    /\ IsFiniteSet(Key)
    /\ Governance # {}
    /\ Requester \subseteq User
    /\ Approver \subseteq User
    /\ Governance \subseteq [impact : Impact, mode : ResponseMode]
    /\ AutomaticEnabled \in BOOLEAN
    /\ RequestTtl \in Nat \ {0}
    /\ AuthorizationTtl \in 1..RequestTtl
    /\ BatchSize \in Nat \ {0}
    /\ MaxTime \in Nat
    /\ MaxVersion \in Nat
    /\ NoUser \notin User
    /\ NoProposal \notin Proposal
    /\ NoKey \notin Key

VARIABLES clock,             \* datetime.now(UTC)
          kill_switch,       \* response_policy_versions.kill_switch
          incident_version,  \* incidents.version
          proposal,          \* status of each row of action_proposals
          material,          \* what else the row says, fixed once written
          request,           \* status of the approval_requests row, if any
          request_expires_at,
          decision,          \* approval_decisions, by proposal and actor
          authorization,     \* status of the action_authorizations row, if any
          authorization_expires_at,
          execution,         \* playbook_executions, by idempotency key
          call,              \* the transaction a session is in
          due_requests,      \* the rows expire_due has listed and
          due_authorizations \* has yet to visit

proposals == <<proposal, material>>
requests == <<request, request_expires_at>>
authorizations == <<authorization, authorization_expires_at>>
rows == <<proposals, requests, decision, authorizations, execution>>
sweep == <<due_requests, due_authorizations>>
world == <<clock, kill_switch, incident_version>>
vars == <<world, rows, call, sweep>>

ProposalStatus == {"ABSENT", "DENIED", "AWAITING_APPROVAL", "AUTHORIZED",
                   "REJECTED", "EXPIRED", "REVOKED"}
RequestStatus == {"ABSENT", "PENDING", "APPROVED", "REJECTED", "EXPIRED"}
AuthorizationStatus == {"ABSENT", "ACTIVE", "CONSUMED", "REVOKED", "EXPIRED"}
Verdict == {"NONE", "APPROVE", "REJECT"}

Idle == [op |-> "idle", proposal |-> NoProposal, user |-> NoUser,
         verdict |-> "NONE", key |-> NoKey, now |-> 0]

Unset == CHOOSE g \in Governance : TRUE

Init ==
    /\ clock = 0
    /\ kill_switch = FALSE
    /\ incident_version = 0
    /\ proposal = [p \in Proposal |-> "ABSENT"]
    /\ material = [p \in Proposal |-> [requester |-> NoUser, required |-> 0,
                                       version |-> 0, governance |-> Unset]]
    /\ request = [p \in Proposal |-> "ABSENT"]
    /\ request_expires_at = [p \in Proposal |-> 0]
    /\ decision = [p \in Proposal |-> [u \in User |-> "NONE"]]
    /\ authorization = [p \in Proposal |-> "ABSENT"]
    /\ authorization_expires_at = [p \in Proposal |-> 0]
    /\ execution = [k \in Key |-> NoProposal]
    /\ call = [s \in Session |-> Idle]
    /\ due_requests = {}
    /\ due_authorizations = {}

-----------------------------------------------------------------------------
(* Policy.                                                                 *)

\* evaluate_policy: whether the policy refuses, and the approvals it asks.
Denied(g, kill) ==
    \/ kill
    \/ g.impact = "CRITICAL"
    \/ g.mode = "RECOMMENDATION_ONLY"
    \/ g.mode = "AUTOMATIC" /\ ~AutomaticEnabled

\* Mutant: the reasons for a second pair of eyes add up.
RequiredApprovals_Summed(g, kill) ==
    IF Denied(g, kill) THEN 0
    ELSE (IF g.impact = "HIGH" THEN 2 ELSE 0) + (IF g.mode = "DUAL_APPROVAL" THEN 2 ELSE 1)

RequiredApprovals(g, kill) ==
    IF Denied(g, kill) \/ g.mode = "AUTOMATIC" THEN 0
    ELSE IF g.impact = "HIGH" \/ g.mode = "DUAL_APPROVAL" THEN 2
    ELSE 1

Approvers(p) == {u \in User : decision[p][u] = "APPROVE"}

\* The authorization row is locked by a transaction that is consuming it.
Locked(p) == \E s \in Session : call[s].op = "consume" /\ call[s].proposal = p

-----------------------------------------------------------------------------
(* create_proposal.  A denied proposal is kept, without a request.  The    *)
(* bound leaves every deadline of the proposal within MaxTime.             *)

CreateProposal(p, u, g) ==
    /\ proposal[p] = "ABSENT"
    /\ clock + RequestTtl + AuthorizationTtl <= MaxTime
    /\ LET required == RequiredApprovals(g, kill_switch) IN
        /\ proposal' = [proposal EXCEPT ![p] =
              IF Denied(g, kill_switch) THEN "DENIED" ELSE "AWAITING_APPROVAL"]
        /\ material' = [material EXCEPT ![p] =
              [requester |-> u, required |-> required,
               version |-> incident_version, governance |-> g]]
        /\ IF required = 0
             THEN UNCHANGED requests
             ELSE /\ request' = [request EXCEPT ![p] = "PENDING"]
                  /\ request_expires_at' =
                        [request_expires_at EXCEPT ![p] = clock + RequestTtl]
    /\ UNCHANGED <<world, decision, authorizations, execution, call, sweep>>

-----------------------------------------------------------------------------
(* decide.  The clock is read first, then the transaction waits for the    *)
(* lock on the request.                                                    *)

BeginDecide(s, p, u, v) ==
    /\ call[s] = Idle
    /\ request[p] # "ABSENT"
    /\ call' = [call EXCEPT ![s] = [Idle EXCEPT !.op = "decide", !.proposal = p,
                                      !.user = u, !.verdict = v, !.now = clock]]
    /\ UNCHANGED <<world, rows, sweep>>

\* Mutant: nobody compares the actor with the requester.
DecisionAllowed_Requester(c) ==
    /\ request[c.proposal] = "PENDING"
    /\ request_expires_at[c.proposal] > c.now
    /\ decision[c.proposal][c.user] = "NONE"

DecisionAllowed(c) ==
    /\ request[c.proposal] = "PENDING"
    /\ request_expires_at[c.proposal] > c.now
    /\ c.user # material[c.proposal].requester
    /\ decision[c.proposal][c.user] = "NONE"

Reject(p) ==
    /\ request' = [request EXCEPT ![p] = "REJECTED"]
    /\ proposal' = [proposal EXCEPT ![p] = "REJECTED"]
    /\ UNCHANGED authorizations

\* The approval that completes the quorum issues the authorization, whose
\* deadline counts from the clock read before the lock.
Approve(p, u, now) ==
    IF Cardinality(Approvers(p) \cup {u}) >= material[p].required
      THEN /\ request' = [request EXCEPT ![p] = "APPROVED"]
           /\ proposal' = [proposal EXCEPT ![p] = "AUTHORIZED"]
           /\ authorization' = [authorization EXCEPT ![p] = "ACTIVE"]
           /\ authorization_expires_at' =
                 [authorization_expires_at EXCEPT ![p] = now + AuthorizationTtl]
      ELSE UNCHANGED <<request, proposal, authorizations>>

Decide(s) ==
    LET c == call[s] IN
    /\ c.op = "decide"
    /\ DecisionAllowed(c)
    /\ decision' = [decision EXCEPT ![c.proposal][c.user] = c.verdict]
    /\ \/ c.verdict = "REJECT" /\ Reject(c.proposal)
       \/ c.verdict = "APPROVE" /\ Approve(c.proposal, c.user, c.now)
    /\ call' = [call EXCEPT ![s] = Idle]
    /\ UNCHANGED <<world, material, request_expires_at, execution, sweep>>

\* A conflict, or the replay of a decision already taken.  An expired
\* request is set EXPIRED and the exception that follows undoes it.
DecideRefused(s) ==
    /\ call[s].op = "decide"
    /\ ~DecisionAllowed(call[s])
    /\ call' = [call EXCEPT ![s] = Idle]
    /\ UNCHANGED <<world, rows, sweep>>

-----------------------------------------------------------------------------
(* revoke: any ACTIVE authorization, expired or not.                       *)

Revoke(p) ==
    /\ ~Locked(p)
    /\ authorization[p] = "ACTIVE"
    /\ authorization' = [authorization EXCEPT ![p] = "REVOKED"]
    /\ proposal' = [proposal EXCEPT ![p] = "REVOKED"]
    /\ UNCHANGED <<world, material, requests, decision, authorization_expires_at,
                   execution, call, sweep>>

-----------------------------------------------------------------------------
(* create_from_authorization.  The clock and the idempotency key are read  *)
(* first; the state is validated under the lock on the authorization; the  *)
(* policy and the incident are not locked and may move before the commit.  *)

BeginExecute(s, p, k) ==
    /\ call[s] = Idle
    /\ authorization[p] # "ABSENT"
    /\ execution[k] = NoProposal
    /\ call' = [call EXCEPT ![s] = [Idle EXCEPT !.op = "execute", !.proposal = p,
                                                !.key = k, !.now = clock]]
    /\ UNCHANGED <<world, rows, sweep>>

\* Mutant: the authorization is trusted for its deadline, not its status.
Valid_AnyStatus(c) ==
    LET p == c.proposal IN
    /\ authorization_expires_at[p] > c.now
    /\ request[p] = "APPROVED"
    /\ request_expires_at[p] > c.now

\* _validate_authorized_state and _validate_definition_governance.
Valid(c) ==
    LET p == c.proposal
        g == material[p].governance IN
    /\ authorization[p] = "ACTIVE"
    /\ authorization_expires_at[p] > c.now
    /\ proposal[p] = "AUTHORIZED"
    /\ incident_version = material[p].version
    /\ request[p] = "APPROVED"
    /\ request_expires_at[p] > c.now
    /\ ~Denied(g, kill_switch)
    /\ material[p].required = RequiredApprovals(g, kill_switch)
    /\ Cardinality(Approvers(p)) >= material[p].required

LockForExecution(s) ==
    /\ call[s].op = "execute"
    /\ ~Locked(call[s].proposal)
    /\ Valid(call[s])
    /\ call' = [call EXCEPT ![s].op = "consume"]
    /\ UNCHANGED <<world, rows, sweep>>

\* The unique index on the idempotency key undoes the second of two
\* transactions that looked the key up before either committed.
Consume(s) ==
    LET c == call[s] IN
    /\ c.op = "consume"
    /\ IF execution[c.key] = NoProposal
         THEN /\ execution' = [execution EXCEPT ![c.key] = c.proposal]
              /\ authorization' = [authorization EXCEPT ![c.proposal] = "CONSUMED"]
         ELSE UNCHANGED <<execution, authorization>>
    /\ call' = [call EXCEPT ![s] = Idle]
    /\ UNCHANGED <<world, proposals, requests, decision, authorization_expires_at, sweep>>

\* The validation fails, the playbook or its binding is not available, or
\* the connection is lost: nothing of the transaction remains.
Abort(s) ==
    /\ call[s] # Idle
    /\ call' = [call EXCEPT ![s] = Idle]
    /\ UNCHANGED <<world, rows, sweep>>

-----------------------------------------------------------------------------
(* expire_due: two listings, then a transaction per row.                   *)

\* Mutant: the listing joins the decisions and misses a request with one.
DueRequests_Undecided ==
    {p \in Proposal : /\ request[p] = "PENDING"
                      /\ request_expires_at[p] <= clock
                      /\ Approvers(p) = {}}

DueRequests ==
    {p \in Proposal : request[p] = "PENDING" /\ request_expires_at[p] <= clock}

DueAuthorizations ==
    {p \in Proposal : /\ authorization[p] = "ACTIVE"
                      /\ authorization_expires_at[p] <= clock}

\* ORDER BY expires_at LIMIT batch_size.
Batches(due, deadline) ==
    {b \in SUBSET due :
        /\ Cardinality(b) <= BatchSize
        /\ b # due => Cardinality(b) = BatchSize
        /\ \A p \in b, q \in due \ b : deadline[p] <= deadline[q]}

Discover ==
    /\ due_requests = {} /\ due_authorizations = {}
    /\ DueRequests \cup DueAuthorizations # {}
    /\ due_requests' \in Batches(DueRequests, request_expires_at)
    /\ due_authorizations' \in Batches(DueAuthorizations, authorization_expires_at)
    /\ UNCHANGED <<world, rows, call>>

\* Mutant: the row is taken as it was listed.
RequestStillDue_AsListed(p) == TRUE

RequestStillDue(p) == request[p] = "PENDING" /\ request_expires_at[p] <= clock

ExpireRequest(p) ==
    /\ p \in due_requests
    /\ IF RequestStillDue(p)
         THEN /\ request' = [request EXCEPT ![p] = "EXPIRED"]
              /\ proposal' = [proposal EXCEPT ![p] = "EXPIRED"]
         ELSE UNCHANGED <<request, proposal>>
    /\ due_requests' = due_requests \ {p}
    /\ UNCHANGED <<due_authorizations, world, material, request_expires_at, decision, authorizations,
                   execution, call>>

AuthorizationStillDue(p) ==
    authorization[p] = "ACTIVE" /\ authorization_expires_at[p] <= clock

ExpireAuthorization(p) ==
    /\ due_requests = {} /\ p \in due_authorizations
    /\ ~Locked(p)
    /\ IF AuthorizationStillDue(p)
         THEN /\ authorization' = [authorization EXCEPT ![p] = "EXPIRED"]
              /\ proposal' = [proposal EXCEPT ![p] = "EXPIRED"]
         ELSE UNCHANGED <<authorization, proposal>>
    /\ due_authorizations' = due_authorizations \ {p}
    /\ UNCHANGED <<due_requests, world, material, requests, decision, authorization_expires_at,
                   execution, call>>

SchedulerCrash ==
    /\ due_requests \cup due_authorizations # {}
    /\ due_requests' = {}
    /\ due_authorizations' = {}
    /\ UNCHANGED <<world, rows, call>>

-----------------------------------------------------------------------------
(* The environment.                                                        *)

Tick ==
    /\ clock < MaxTime
    /\ clock' = clock + 1
    /\ UNCHANGED <<kill_switch, incident_version, rows, call, sweep>>

\* An operator writes the tenant's policy row.
SetKillSwitch ==
    /\ kill_switch' = ~kill_switch
    /\ UNCHANGED <<clock, incident_version, rows, call, sweep>>

\* Correlation, an analyst or the risk sweep changes the incident.
IncidentChanges ==
    /\ incident_version < MaxVersion
    /\ incident_version' = incident_version + 1
    /\ UNCHANGED <<clock, kill_switch, rows, call, sweep>>

SessionStep(s) ==
    \/ \E p \in Proposal, u \in Approver, v \in {"APPROVE", "REJECT"} : BeginDecide(s, p, u, v)
    \/ \E p \in Proposal, k \in Key : BeginExecute(s, p, k)
    \/ Decide(s)
    \/ DecideRefused(s)
    \/ LockForExecution(s)
    \/ Consume(s)
    \/ Abort(s)

SchedulerStep ==
    \/ Discover
    \/ \E p \in Proposal : ExpireRequest(p) \/ ExpireAuthorization(p)
    \/ SchedulerCrash

World == Tick \/ SetKillSwitch \/ IncidentChanges

Next ==
    \/ \E p \in Proposal, u \in Requester, g \in Governance : CreateProposal(p, u, g)
    \/ \E s \in Session : SessionStep(s)
    \/ \E p \in Proposal : Revoke(p)
    \/ SchedulerStep
    \/ World

SafetySpec == Init /\ [][Next]_vars

\* Time passes, a transaction that holds a lock ends, and the scheduler,
\* which may be restarted any number of times, does not die in every pass
\* before it reaches a row.
Fairness ==
    /\ WF_vars(Tick)
    /\ WF_vars(Discover)
    /\ \A s \in Session : WF_vars(call[s].op = "consume" /\ (Consume(s) \/ Abort(s)))
    /\ \A p \in Proposal : SF_vars(ExpireRequest(p)) /\ SF_vars(ExpireAuthorization(p))

Spec == SafetySpec /\ Fairness

-----------------------------------------------------------------------------
(* Properties.                                                             *)

Call == [op : {"idle", "decide", "execute", "consume"},
         proposal : Proposal \cup {NoProposal}, user : User \cup {NoUser},
         verdict : Verdict, key : Key \cup {NoKey}, now : Nat]

\* Every row and every call in flight has the shape its columns allow.
TypeOK ==
    /\ clock \in Nat
    /\ kill_switch \in BOOLEAN
    /\ incident_version \in Nat
    /\ proposal \in [Proposal -> ProposalStatus]
    /\ material \in [Proposal -> [requester : User \cup {NoUser}, required : 0..2,
                                  version : Nat, governance : Governance]]
    /\ request \in [Proposal -> RequestStatus]
    /\ request_expires_at \in [Proposal -> Nat]
    /\ decision \in [Proposal -> [User -> Verdict]]
    /\ authorization \in [Proposal -> AuthorizationStatus]
    /\ authorization_expires_at \in [Proposal -> Nat]
    /\ execution \in [Key -> Proposal \cup {NoProposal}]
    /\ call \in [Session -> Call]
    /\ due_requests \subseteq Proposal
    /\ due_authorizations \subseteq Proposal

\* Whatever the playbook engine is asked to run was approved by as many
\* people as the policy wants, none of them the requester, and rejected by
\* nobody: decide's checks under the lock, read with create_from_authorization.
QuorumBehindExecution ==
    \A k \in Key :
        LET p == execution[k] IN
        p # NoProposal =>
            /\ Cardinality(Approvers(p)) >= material[p].required
            /\ material[p].required > 0
            /\ decision[p][material[p].requester] = "NONE"
            /\ \A u \in User : decision[p][u] # "REJECT"

\* Three tables tell one story: decide, revoke, the consumer and the two
\* loops of expire_due write them in pairs, and no order of their
\* transactions leaves a pair apart.
Legal == {<<"ABSENT", "ABSENT", "ABSENT">>,
          <<"DENIED", "ABSENT", "ABSENT">>,
          <<"AWAITING_APPROVAL", "ABSENT", "ABSENT">>,
          <<"AWAITING_APPROVAL", "PENDING", "ABSENT">>,
          <<"REJECTED", "REJECTED", "ABSENT">>,
          <<"EXPIRED", "EXPIRED", "ABSENT">>,
          <<"AUTHORIZED", "APPROVED", "ACTIVE">>,
          <<"AUTHORIZED", "APPROVED", "CONSUMED">>,
          <<"REVOKED", "APPROVED", "REVOKED">>,
          <<"EXPIRED", "APPROVED", "EXPIRED">>}

StatusesAgree ==
    \A p \in Proposal :
        /\ <<proposal[p], request[p], authorization[p]>> \in Legal
        /\ authorization[p] = "CONSUMED" <=> \E k \in Key : execution[k] = p

\* No request for approval waits for ever: the deadline and the sweep see
\* to those nobody decides, whatever crashes in between.
RequestsSettle ==
    \A p \in Proposal : request[p] = "PENDING" ~> request[p] # "PENDING"

\* The service is an approval gate: quorum of others, one use, and a grant
\* that ends.
Grant == [p \in Proposal |->
    CASE authorization[p] = "ABSENT"   -> "none"
      [] authorization[p] = "ACTIVE"   -> "granted"
      [] authorization[p] = "CONSUMED" -> "used"
      [] OTHER -> "withdrawn"]

Gate == INSTANCE ApprovalGate WITH
    owner     <- [p \in Proposal |-> material[p].requester],
    quorum    <- [p \in Proposal |-> material[p].required],
    approvers <- [p \in Proposal |-> Approvers(p)],
    grant     <- Grant,
    uses      <- [p \in Proposal |-> Cardinality({k \in Key : execution[k] = p})]

GateImplemented == Gate!Spec

\* Specification PHASE_20, section 5 rule 9: the kill switch is evaluated
\* when an action is proposed, authorized and executed.  This states the
\* second: no authorization is issued while the switch is on.
KillSwitchStopsAuthorizing ==
    [][\A p \in Proposal :
          authorization[p] = "ABSENT" /\ authorization'[p] = "ACTIVE"
              => ~kill_switch]_vars

=============================================================================
