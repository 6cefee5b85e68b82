--------------------------- MODULE DecisionProofs ----------------------------
(***************************************************************************)
(* Proofs about Decision for any sets of proposals, users, sessions and    *)
(* idempotency keys, any deadlines and any released governance.            *)
(***************************************************************************)
EXTENDS Decision, FiniteSetTheorems, TLAPS

-----------------------------------------------------------------------------
(* Type correctness.                                                       *)

\* A call that is not idle names what its operation works on.
CallsOK ==
    \A s \in Session :
        /\ call[s].op # "idle" => call[s].proposal \in Proposal
        /\ call[s].op = "decide" =>
              call[s].user \in User /\ call[s].verdict \in {"APPROVE", "REJECT"}
        /\ call[s].op \in {"execute", "consume"} => call[s].key \in Key

\* The policy never asks for more than two approvals.
LEMMA RequiredType ==
    ASSUME NEW g \in Governance, NEW kill \in BOOLEAN
    PROVE  RequiredApprovals(g, kill) \in 0..2
BY DEF RequiredApprovals

LEMMA IdleType == Idle \in Call
BY DEF Idle, Call, Verdict

\* The approvers are a finite set of users, so counting them is meaningful.
LEMMA ApproversFinite ==
    ASSUME TypeOK, NEW p \in Proposal
    PROVE  /\ Approvers(p) \subseteq User
           /\ IsFiniteSet(Approvers(p))
           /\ Cardinality(Approvers(p)) \in Nat
<1>1. Approvers(p) \subseteq User
  BY DEF Approvers
<1>2. IsFiniteSet(Approvers(p))
  BY <1>1, FS_Subset, DecisionAssumption
<1> QED
  BY <1>1, <1>2, FS_CardinalityType

TypedCalls == TypeOK /\ CallsOK

LEMMA InitType == Init => TypedCalls
<1> SUFFICES ASSUME Init
             PROVE  TypedCalls
  OBVIOUS
<1>1. Unset \in Governance
  BY DecisionAssumption DEF Unset
<1>2. call \in [Session -> Call] /\ CallsOK
  BY IdleType DEF Init, CallsOK, Idle
<1>3. material \in [Proposal -> [requester : User \cup {NoUser}, required : 0..2,
                                version : Nat, governance : Governance]]
  BY <1>1 DEF Init
<1>4. decision \in [Proposal -> [User -> Verdict]]
  BY DEF Init, Verdict
<1>5. /\ proposal \in [Proposal -> ProposalStatus]
      /\ request \in [Proposal -> RequestStatus]
      /\ authorization \in [Proposal -> AuthorizationStatus]
      /\ request_expires_at \in [Proposal -> Nat]
      /\ authorization_expires_at \in [Proposal -> Nat]
  BY DEF Init, ProposalStatus, RequestStatus, AuthorizationStatus
<1>6. execution \in [Key -> Proposal \cup {NoProposal}]
  BY DEF Init
<1>7. /\ clock \in Nat
      /\ kill_switch \in BOOLEAN
      /\ incident_version \in Nat
      /\ due_requests \subseteq Proposal
      /\ due_authorizations \subseteq Proposal
  BY DEF Init
<1> QED
  BY <1>2, <1>3, <1>4, <1>5, <1>6, <1>7 DEF TypedCalls, TypeOK

\* What Next leaves alone of the tables, in every transaction of a session.
LEMMA CallStep ==
    ASSUME TypedCalls, NEW s \in Session, NEW c \in Call,
           call' = [call EXCEPT ![s] = c],
           c.op # "idle" => c.proposal \in Proposal,
           c.op = "decide" => c.user \in User /\ c.verdict \in {"APPROVE", "REJECT"},
           c.op \in {"execute", "consume"} => c.key \in Key
    PROVE  call' \in [Session -> Call] /\ CallsOK'
BY DEF TypedCalls, TypeOK, CallsOK

LEMMA IdleStep ==
    ASSUME TypedCalls, NEW s \in Session, call' = [call EXCEPT ![s] = Idle]
    PROVE  call' \in [Session -> Call] /\ CallsOK'
BY CallStep, IdleType DEF Idle

LEMMA TypeStep == TypedCalls /\ [Next]_vars => TypedCalls'
<1> SUFFICES ASSUME TypedCalls, [Next]_vars
             PROVE  TypedCalls'
  OBVIOUS
<1>t. TypeOK /\ CallsOK
  BY DEF TypedCalls
<1> USE DEF rows, world, sweep, proposals, requests, authorizations, ProposalStatus, RequestStatus, AuthorizationStatus
<1>1. ASSUME NEW p \in Proposal, NEW u \in Requester, NEW g \in Governance,
             CreateProposal(p, u, g)
      PROVE  TypedCalls'
  <2>1. RequiredApprovals(g, kill_switch) \in 0..2
    BY <1>t, RequiredType DEF TypeOK
  <2> QED
    BY <1>1, <1>t, <2>1, DecisionAssumption DEF CreateProposal, TypedCalls, TypeOK, CallsOK
<1>2. ASSUME NEW s \in Session, NEW p \in Proposal, NEW u \in Approver,
             NEW v \in {"APPROVE", "REJECT"}, BeginDecide(s, p, u, v)
      PROVE  TypedCalls'
  <2> DEFINE c == [Idle EXCEPT !.op = "decide", !.proposal = p, !.user = u,
                               !.verdict = v, !.now = clock]
  <2>1. /\ c \in Call /\ c.op = "decide" /\ c.proposal = p /\ c.user \in User
        /\ c.verdict \in {"APPROVE", "REJECT"}
    BY <1>t, DecisionAssumption DEF TypeOK, Call, Idle, Verdict
  <2>2. call' = [call EXCEPT ![s] = c]
    BY <1>2 DEF BeginDecide
  <2>3. call' \in [Session -> Call] /\ CallsOK'
    BY <2>1, <2>2, CallStep
  <2> QED
    BY <1>2, <1>t, <2>3 DEF BeginDecide, TypedCalls, TypeOK
<1>3. ASSUME NEW s \in Session, NEW p \in Proposal, NEW k \in Key, BeginExecute(s, p, k)
      PROVE  TypedCalls'
  <2> DEFINE c == [Idle EXCEPT !.op = "execute", !.proposal = p, !.key = k, !.now = clock]
  <2>1. c \in Call /\ c.op = "execute" /\ c.proposal = p /\ c.key = k
    BY <1>t DEF TypeOK, Call, Idle, Verdict
  <2>2. call' = [call EXCEPT ![s] = c]
    BY <1>3 DEF BeginExecute
  <2>3. call' \in [Session -> Call] /\ CallsOK'
    BY <2>1, <2>2, CallStep
  <2> QED
    BY <1>3, <1>t, <2>3 DEF BeginExecute, TypedCalls, TypeOK
<1>4. ASSUME NEW s \in Session, Decide(s)
      PROVE  TypedCalls'
  <2> DEFINE c == call[s]
  <2>1. /\ c \in Call /\ c.proposal \in Proposal /\ c.user \in User /\ c.now \in Nat
        /\ c.verdict \in Verdict
    BY <1>4, <1>t DEF Decide, TypeOK, CallsOK, Call
  <2>2. call' \in [Session -> Call] /\ CallsOK'
    BY <1>4, IdleStep DEF Decide
  <2>3. decision' \in [Proposal -> [User -> Verdict]]
    BY <1>4, <1>t, <2>1 DEF Decide, TypeOK
  <2>4. CASE c.verdict = "REJECT" /\ Reject(c.proposal)
    BY <1>4, <1>t, <2>1, <2>2, <2>3, <2>4 DEF Decide, Reject, TypedCalls, TypeOK
  <2>5. CASE c.verdict = "APPROVE" /\ Approve(c.proposal, c.user, c.now)
    <3>1. c.now + AuthorizationTtl \in Nat
      BY <2>1, DecisionAssumption
    <3>2. /\ request' \in [Proposal -> RequestStatus]
          /\ proposal' \in [Proposal -> ProposalStatus]
          /\ authorization' \in [Proposal -> AuthorizationStatus]
      BY <1>t, <2>1, <2>5 DEF Approve, TypeOK
    <3>3. authorization_expires_at' \in [Proposal -> Nat]
      BY <1>t, <2>1, <2>5, <3>1 DEF Approve, TypeOK
    <3> QED
      BY <1>4, <1>t, <2>2, <2>3, <3>2, <3>3 DEF Decide, TypedCalls, TypeOK
  <2> QED
    BY <1>4, <2>4, <2>5 DEF Decide
<1>5. ASSUME NEW s \in Session, DecideRefused(s) \/ Abort(s)
      PROVE  TypedCalls'
  BY <1>5, <1>t, IdleStep DEF DecideRefused, Abort, TypedCalls, TypeOK
<1>6. ASSUME NEW s \in Session, LockForExecution(s)
      PROVE  TypedCalls'
  <2> DEFINE c == [call[s] EXCEPT !.op = "consume"]
  <2>1. call[s] \in Call /\ call[s].proposal \in Proposal /\ call[s].key \in Key
    BY <1>6, <1>t DEF LockForExecution, TypeOK, CallsOK
  <2>2. c \in Call /\ c.op = "consume" /\ c.proposal \in Proposal /\ c.key \in Key
    BY <2>1 DEF Call
  <2>3. call' = [call EXCEPT ![s] = c]
    BY <1>6, <1>t DEF LockForExecution, TypeOK
  <2>4. call' \in [Session -> Call] /\ CallsOK'
    BY <2>2, <2>3, CallStep
  <2> QED
    BY <1>6, <1>t, <2>4 DEF LockForExecution, TypedCalls, TypeOK
<1>7. ASSUME NEW s \in Session, Consume(s)
      PROVE  TypedCalls'
  <2>1. call[s].proposal \in Proposal /\ call[s].key \in Key
    BY <1>7, <1>t DEF Consume, CallsOK
  <2>2. call' \in [Session -> Call] /\ CallsOK'
    BY <1>7, IdleStep DEF Consume
  <2> QED
    BY <1>7, <1>t, <2>1, <2>2 DEF Consume, TypedCalls, TypeOK
<1>8. ASSUME NEW p \in Proposal, Revoke(p)
      PROVE  TypedCalls'
  BY <1>8, <1>t DEF Revoke, TypedCalls, TypeOK, CallsOK
<1>9. CASE Discover \/ SchedulerCrash
  <2>1. due_requests' \subseteq Proposal /\ due_authorizations' \subseteq Proposal
    BY <1>9 DEF Discover, SchedulerCrash, Batches, DueRequests, DueAuthorizations
  <2>2. UNCHANGED <<world, rows, call>>
    BY <1>9 DEF Discover, SchedulerCrash
  <2> QED
    BY <1>t, <2>1, <2>2 DEF TypedCalls, TypeOK, CallsOK
<1>10. ASSUME NEW p \in Proposal, ExpireRequest(p) \/ ExpireAuthorization(p)
       PROVE  TypedCalls'
  <2>1. due_requests' \subseteq Proposal /\ due_authorizations' \subseteq Proposal
    BY <1>10, <1>t DEF ExpireRequest, ExpireAuthorization, TypeOK
  <2>2. /\ request' \in [Proposal -> RequestStatus]
        /\ proposal' \in [Proposal -> ProposalStatus]
        /\ authorization' \in [Proposal -> AuthorizationStatus]
    BY <1>10, <1>t DEF ExpireRequest, ExpireAuthorization, TypeOK
  <2>3. UNCHANGED <<world, material, request_expires_at, decision,
                    authorization_expires_at, execution, call>>
    BY <1>10 DEF ExpireRequest, ExpireAuthorization
  <2> QED
    BY <1>t, <2>1, <2>2, <2>3 DEF TypedCalls, TypeOK, CallsOK
<1>11. CASE World
  <2>1. clock' \in Nat /\ incident_version' \in Nat
    BY <1>11, <1>t DEF World, Tick, SetKillSwitch, IncidentChanges, TypeOK
  <2>2. kill_switch' \in BOOLEAN
    BY <1>11, <1>t DEF World, Tick, SetKillSwitch, IncidentChanges, TypeOK
  <2>3. UNCHANGED <<rows, call, sweep>>
    BY <1>11 DEF World, Tick, SetKillSwitch, IncidentChanges
  <2> QED
    BY <1>t, <2>1, <2>2, <2>3 DEF TypedCalls, TypeOK, CallsOK
<1>12. CASE UNCHANGED vars
  BY <1>12, <1>t DEF vars, TypedCalls, TypeOK, CallsOK
<1> QED
  BY <1>1, <1>2, <1>3, <1>4, <1>5, <1>6, <1>7, <1>8, <1>9, <1>10, <1>11, <1>12
     DEF Next, SessionStep, SchedulerStep

LEMMA TypedCallsHold == SafetySpec => []TypedCalls
BY InitType, TypeStep, PTL DEF SafetySpec

\* Rows and calls in flight keep the shape their columns allow, whatever
\* transactions interleave (TypeOK).
THEOREM TypeCorrect == SafetySpec => []TypeOK
<1>1. TypedCalls => TypeOK
  BY DEF TypedCalls
<1> QED
  BY <1>1, TypedCallsHold, PTL

-----------------------------------------------------------------------------
(* One story in three tables.                                              *)

\* The row lock of a consumer: one holder, and the authorization it
\* validated stays ACTIVE until it commits.
LockOK ==
    /\ \A s \in Session : call[s].op = "consume" =>
            authorization[call[s].proposal] = "ACTIVE"
    /\ \A s, t \in Session :
            call[s].op = "consume" /\ call[t].op = "consume"
                /\ call[s].proposal = call[t].proposal => s = t

Inv == TypedCalls /\ LockOK /\ StatusesAgree

LEMMA InitInv == Init => Inv
<1> SUFFICES ASSUME Init
             PROVE  Inv
  OBVIOUS
<1>1. LockOK
  BY DEF Init, LockOK, Idle
<1>2. StatusesAgree
  BY DecisionAssumption DEF Init, StatusesAgree, Legal
<1> QED
  BY <1>1, <1>2, InitType DEF Inv

\* A session that goes idle, or moves before its lock, leaves locks alone.
LEMMA LockKept ==
    ASSUME TypedCalls, LockOK, NEW s \in Session, NEW c \in Call,
           call' = [call EXCEPT ![s] = c], c.op # "consume",
           \A p \in Proposal : authorization[p] = "ACTIVE" /\ authorization'[p] # "ACTIVE" =>
                call[s].op = "consume" /\ call[s].proposal = p
    PROVE  LockOK'
BY DEF TypedCalls, TypeOK, CallsOK, LockOK

\* A write outside the sessions touches no locked authorization.
LEMMA LockRespected ==
    ASSUME TypedCalls, LockOK, UNCHANGED call,
           \A p \in Proposal : authorization[p] = "ACTIVE" /\ authorization'[p] # "ACTIVE" =>
                ~Locked(p)
    PROVE  LockOK'
BY DEF TypedCalls, TypeOK, CallsOK, LockOK, Locked

LEMMA LockStep == Inv /\ [Next]_vars => LockOK'
<1> SUFFICES ASSUME Inv, [Next]_vars
             PROVE  LockOK'
  OBVIOUS
<1>t. TypedCalls /\ LockOK /\ TypeOK /\ CallsOK /\ StatusesAgree
  BY DEF Inv, TypedCalls
<1>i. Idle \in Call /\ Idle.op # "consume"
  BY IdleType DEF Idle
<1> USE DEF rows, proposals, requests, authorizations
<1>1. ASSUME NEW p \in Proposal, NEW u \in Requester, NEW g \in Governance,
             CreateProposal(p, u, g)
      PROVE  LockOK'
  BY <1>1, <1>t, LockRespected DEF CreateProposal
<1>2. ASSUME NEW s \in Session, NEW p \in Proposal, NEW u \in Approver,
             NEW v \in {"APPROVE", "REJECT"}, BeginDecide(s, p, u, v)
      PROVE  LockOK'
  <2> DEFINE c == [Idle EXCEPT !.op = "decide", !.proposal = p, !.user = u,
                               !.verdict = v, !.now = clock]
  <2>1. c \in Call /\ c.op # "consume"
    BY <1>t, DecisionAssumption DEF TypeOK, Call, Idle, Verdict
  <2>2. call' = [call EXCEPT ![s] = c] /\ UNCHANGED authorization
    BY <1>2 DEF BeginDecide
  <2> QED
    BY <2>1, <2>2, <1>t, LockKept
<1>3. ASSUME NEW s \in Session, NEW p \in Proposal, NEW k \in Key, BeginExecute(s, p, k)
      PROVE  LockOK'
  <2> DEFINE c == [Idle EXCEPT !.op = "execute", !.proposal = p, !.key = k, !.now = clock]
  <2>1. c \in Call /\ c.op # "consume"
    BY <1>t DEF TypeOK, Call, Idle, Verdict
  <2>2. call' = [call EXCEPT ![s] = c] /\ UNCHANGED authorization
    BY <1>3 DEF BeginExecute
  <2> QED
    BY <2>1, <2>2, <1>t, LockKept
<1>4. ASSUME NEW s \in Session, Decide(s)
      PROVE  LockOK'
  <2>1. /\ call' = [call EXCEPT ![s] = Idle]
        /\ call[s].proposal \in Proposal
    BY <1>4, <1>t DEF Decide, CallsOK
  <2>2. \A p \in Proposal : authorization[p] = "ACTIVE" => authorization'[p] = "ACTIVE"
    BY <1>4, <1>t, <2>1 DEF Decide, Reject, Approve, TypeOK
  <2> QED
    BY <1>i, <1>t, <2>1, <2>2, LockKept
<1>5. ASSUME NEW s \in Session, DecideRefused(s) \/ Abort(s)
      PROVE  LockOK'
  <2>1. call' = [call EXCEPT ![s] = Idle] /\ UNCHANGED authorization
    BY <1>5 DEF DecideRefused, Abort
  <2> QED
    BY <1>i, <1>t, <2>1, LockKept
<1>6. ASSUME NEW s \in Session, LockForExecution(s)
      PROVE  LockOK'
  <2>1. /\ call' = [call EXCEPT ![s].op = "consume"]
        /\ UNCHANGED authorization
        /\ authorization[call[s].proposal] = "ACTIVE"
        /\ ~Locked(call[s].proposal)
    BY <1>6 DEF LockForExecution, Valid
  <2>2. /\ call'[s].op = "consume" /\ call'[s].proposal = call[s].proposal
        /\ \A t \in Session : t # s => call'[t] = call[t]
    BY <2>1, <1>t DEF TypeOK, Call
  <2> QED
    BY <2>1, <2>2, <1>t DEF LockOK, Locked
<1>7. ASSUME NEW s \in Session, Consume(s)
      PROVE  LockOK'
  <2>1. /\ call' = [call EXCEPT ![s] = Idle]
        /\ call[s].op = "consume" /\ call[s].proposal \in Proposal
    BY <1>7, <1>t DEF Consume, CallsOK
  <2>2. \A p \in Proposal : p # call[s].proposal => authorization'[p] = authorization[p]
    BY <1>7, <1>t, <2>1 DEF Consume, TypeOK
  <2> QED
    BY <1>i, <1>t, <2>1, <2>2, LockKept
<1>8. ASSUME NEW p \in Proposal, Revoke(p)
      PROVE  LockOK'
  BY <1>8, <1>t, LockRespected DEF Revoke, TypeOK
<1>9. ASSUME NEW p \in Proposal, ExpireRequest(p) \/ ExpireAuthorization(p)
      PROVE  LockOK'
  BY <1>9, <1>t, LockRespected DEF ExpireRequest, ExpireAuthorization, TypeOK
<1>10. CASE Discover \/ SchedulerCrash \/ World
  BY <1>10, <1>t, LockRespected
     DEF Discover, SchedulerCrash, World, Tick, SetKillSwitch, IncidentChanges
<1>11. CASE UNCHANGED vars
  BY <1>11, <1>t, LockRespected DEF vars
<1> QED
  BY <1>1, <1>2, <1>3, <1>4, <1>5, <1>6, <1>7, <1>8, <1>9, <1>10, <1>11
     DEF Next, SessionStep, SchedulerStep

\* The three statuses of a proposal, and whether an execution holds it.
Agrees(p) ==
    /\ <<proposal[p], request[p], authorization[p]>> \in Legal
    /\ authorization[p] = "CONSUMED" <=> \E k \in Key : execution[k] = p

\* A step that writes the rows of one proposal at most.
LEMMA OneStory ==
    ASSUME StatusesAgree, NEW p \in Proposal, Agrees(p)', UNCHANGED execution,
           \A q \in Proposal : q # p => /\ proposal'[q] = proposal[q]
                                        /\ request'[q] = request[q]
                                        /\ authorization'[q] = authorization[q]
    PROVE  StatusesAgree'
BY DEF StatusesAgree, Agrees

LEMMA DecisionStory ==
    ASSUME TypeOK, StatusesAgree, NEW p \in Proposal, NEW u \in User, NEW now \in Nat,
           request[p] = "PENDING", Reject(p) \/ Approve(p, u, now), UNCHANGED execution
    PROVE  StatusesAgree'
<1>1. /\ Agrees(p)
      /\ proposal[p] = "AWAITING_APPROVAL" /\ authorization[p] = "ABSENT"
  BY DEF StatusesAgree, Agrees, Legal
<1>2. CASE Reject(p)
  <2>1. Agrees(p)'
    BY <1>1, <1>2 DEF Reject, Agrees, Legal, TypeOK, authorizations
  <2> QED
    BY <1>2, <2>1, OneStory DEF Reject, TypeOK, authorizations
<1>3. CASE Approve(p, u, now)
  <2>1. \/ UNCHANGED <<request, proposal, authorization>>
        \/ /\ request' = [request EXCEPT ![p] = "APPROVED"]
           /\ proposal' = [proposal EXCEPT ![p] = "AUTHORIZED"]
           /\ authorization' = [authorization EXCEPT ![p] = "ACTIVE"]
    BY <1>3 DEF Approve, authorizations
  <2>2. Agrees(p)'
    BY <1>1, <2>1 DEF Agrees, Legal, TypeOK
  <2> QED
    BY <2>1, <2>2, OneStory DEF TypeOK
<1> QED
  BY <1>2, <1>3

LEMMA ConsumptionStory ==
    ASSUME TypeOK, StatusesAgree, NEW p \in Proposal, NEW k \in Key,
           authorization[p] = "ACTIVE", execution[k] = NoProposal,
           execution' = [execution EXCEPT ![k] = p],
           authorization' = [authorization EXCEPT ![p] = "CONSUMED"],
           UNCHANGED <<proposal, request>>
    PROVE  StatusesAgree'
<1>1. \A q \in Proposal : Agrees(q)
  BY DEF StatusesAgree, Agrees
<1>2. execution'[k] = p /\ authorization'[p] = "CONSUMED"
  BY DEF TypeOK
<1>3. Agrees(p)'
  BY <1>1, <1>2 DEF Agrees, Legal
<1>4. ASSUME NEW q \in Proposal, q # p
      PROVE  Agrees(q)'
  <2>1. authorization'[q] = authorization[q]
    BY <1>4 DEF TypeOK
  <2>2. \A j \in Key : execution'[j] = q <=> execution[j] = q
    BY <1>4, DecisionAssumption DEF TypeOK
  <2> QED
    BY <1>1, <2>1, <2>2 DEF Agrees
<1> QED
  BY <1>3, <1>4 DEF Agrees, StatusesAgree

LEMMA StatusStep == Inv /\ [Next]_vars => StatusesAgree'
<1> SUFFICES ASSUME Inv, [Next]_vars
             PROVE  StatusesAgree'
  OBVIOUS
<1>t. TypedCalls /\ LockOK /\ TypeOK /\ CallsOK /\ StatusesAgree
  BY DEF Inv, TypedCalls
<1>a. \A p \in Proposal : Agrees(p)
  BY <1>t DEF StatusesAgree, Agrees
<1> USE DEF rows, proposals, requests, authorizations
<1>1. ASSUME NEW p \in Proposal, NEW u \in Requester, NEW g \in Governance,
             CreateProposal(p, u, g)
      PROVE  StatusesAgree'
  <2>1. /\ proposal'[p] \in {"DENIED", "AWAITING_APPROVAL"}
        /\ proposal'[p] = "DENIED" => request'[p] = request[p]
        /\ request'[p] \in {request[p], "PENDING"}
        /\ UNCHANGED <<authorization, execution>>
    BY <1>1, <1>t DEF CreateProposal, TypeOK, RequiredApprovals
  <2>2. proposal[p] = "ABSENT" /\ request[p] = "ABSENT" /\ authorization[p] = "ABSENT"
    BY <1>1, <1>a DEF CreateProposal, Agrees, Legal
  <2>3. Agrees(p)'
    BY <2>1, <2>2, <1>a DEF Agrees, Legal
  <2>4. \A q \in Proposal : q # p => proposal'[q] = proposal[q] /\ request'[q] = request[q]
    BY <1>1, <1>t DEF CreateProposal, TypeOK
  <2> QED
    BY <2>1, <2>3, <2>4, <1>t, OneStory
<1>2. ASSUME NEW s \in Session, Decide(s)
      PROVE  StatusesAgree'
  <2> DEFINE p == call[s].proposal
  <2>1. p \in Proposal /\ request[p] = "PENDING" /\ UNCHANGED execution
    BY <1>2, <1>t DEF Decide, DecisionAllowed, CallsOK
  <2>2. Reject(p) \/ Approve(p, call[s].user, call[s].now)
    BY <1>2 DEF Decide
  <2>3. call[s].user \in User /\ call[s].now \in Nat
    BY <1>2, <1>t DEF Decide, CallsOK, TypeOK, Call
  <2> QED
    BY <2>1, <2>2, <2>3, <1>t, DecisionStory
<1>3. ASSUME NEW s \in Session, Consume(s)
      PROVE  StatusesAgree'
  <2> DEFINE p == call[s].proposal
             k == call[s].key
  <2>1. /\ p \in Proposal /\ k \in Key
        /\ authorization[p] = "ACTIVE"
        /\ UNCHANGED <<proposal, request>>
    BY <1>3, <1>t DEF Consume, CallsOK, LockOK
  <2>2. CASE execution[k] = NoProposal
    <3>1. /\ execution' = [execution EXCEPT ![k] = p]
          /\ authorization' = [authorization EXCEPT ![p] = "CONSUMED"]
      BY <1>3, <2>2 DEF Consume
    <3> QED
      BY <2>1, <2>2, <3>1, <1>t, ConsumptionStory
  <2>3. CASE execution[k] # NoProposal
    BY <1>3, <2>3, <1>t DEF Consume, StatusesAgree
  <2> QED
    BY <2>2, <2>3
<1>4. ASSUME NEW p \in Proposal, Revoke(p)
      PROVE  StatusesAgree'
  <2>1. Agrees(p)'
    BY <1>4, <1>a, <1>t DEF Revoke, Agrees, Legal, TypeOK
  <2> QED
    BY <1>4, <2>1, <1>t, OneStory DEF Revoke, TypeOK
<1>5. ASSUME NEW p \in Proposal, ExpireRequest(p)
      PROVE  StatusesAgree'
  <2>1. Agrees(p)'
    BY <1>5, <1>a, <1>t DEF ExpireRequest, RequestStillDue, Agrees, Legal, TypeOK
  <2> QED
    BY <1>5, <2>1, <1>t, OneStory DEF ExpireRequest, TypeOK
<1>6. ASSUME NEW p \in Proposal, ExpireAuthorization(p)
      PROVE  StatusesAgree'
  <2>1. Agrees(p)'
    BY <1>6, <1>a, <1>t DEF ExpireAuthorization, AuthorizationStillDue, Agrees, Legal, TypeOK
  <2> QED
    BY <1>6, <2>1, <1>t, OneStory DEF ExpireAuthorization, TypeOK
<1>7. ASSUME UNCHANGED rows
      PROVE  StatusesAgree'
  BY <1>7, <1>t DEF StatusesAgree
<1>8. ASSUME NEW s \in Session,
             DecideRefused(s) \/ LockForExecution(s) \/ Abort(s)
      PROVE  UNCHANGED rows
  BY <1>8 DEF DecideRefused, LockForExecution, Abort
<1>9. ASSUME NEW s \in Session, NEW p \in Proposal,
             \/ \E u \in Approver, v \in {"APPROVE", "REJECT"} : BeginDecide(s, p, u, v)
             \/ \E k \in Key : BeginExecute(s, p, k)
      PROVE  UNCHANGED rows
  BY <1>9 DEF BeginDecide, BeginExecute
<1>10. ASSUME Discover \/ SchedulerCrash \/ World \/ UNCHANGED vars
       PROVE  UNCHANGED rows
  BY <1>10 DEF Discover, SchedulerCrash, World, Tick, SetKillSwitch, IncidentChanges, vars
<1> QED
  BY <1>1, <1>2, <1>3, <1>4, <1>5, <1>6, <1>7, <1>8, <1>9, <1>10
     DEF Next, SessionStep, SchedulerStep

LEMMA InvHolds == SafetySpec => []Inv
<1>1. Inv /\ [Next]_vars => Inv'
  BY TypeStep, LockStep, StatusStep DEF Inv
<1> QED
  BY <1>1, InitInv, PTL DEF SafetySpec

\* Proposals, requests, authorizations and executions tell one story after
\* any interleaving of decisions, revocations, executions and sweeps
\* (StatusesAgree).
THEOREM StatusesAgreeHolds == SafetySpec => []StatusesAgree
<1>1. Inv => StatusesAgree
  BY DEF Inv
<1> QED
  BY <1>1, InvHolds, PTL

-----------------------------------------------------------------------------
(* The votes behind an execution.                                          *)

\* What the decisions on a proposal say at each stage of its request.
VotesOK(p) ==
    /\ material[p].requester = NoUser <=> proposal[p] = "ABSENT"
    /\ request[p] # "ABSENT" => material[p].required > 0
    /\ request[p] = "ABSENT" => \A u \in User : decision[p][u] = "NONE"
    /\ \A u \in User : u = material[p].requester => decision[p][u] = "NONE"
    /\ request[p] \in {"PENDING", "APPROVED"} =>
          \A u \in User : decision[p][u] # "REJECT"
    /\ request[p] = "APPROVED" => Cardinality(Approvers(p)) >= material[p].required

VotesAgree == \A p \in Proposal : VotesOK(p)

LEMMA InitVotes == Init => VotesAgree
BY DecisionAssumption DEF Init, VotesAgree, VotesOK

\* A step without a vote on q, which at most closes its request.
LEMMA VotesKept ==
    ASSUME NEW q \in Proposal, VotesOK(q),
           material'[q] = material[q], decision'[q] = decision[q],
           request'[q] = request[q] \/ (request[q] # "ABSENT" /\ request'[q] = "EXPIRED"),
           proposal'[q] = "ABSENT" <=> proposal[q] = "ABSENT"
    PROVE  VotesOK(q)'
<1>1. Approvers(q)' = Approvers(q)
  BY DEF Approvers
<1> QED
  BY <1>1 DEF VotesOK

LEMMA CreationVotes ==
    ASSUME Inv, VotesAgree, NEW p \in Proposal, NEW u \in Requester, NEW g \in Governance,
           CreateProposal(p, u, g)
    PROVE  VotesAgree'
<1>t. TypeOK /\ StatusesAgree
  BY DEF Inv, TypedCalls
<1> DEFINE required == RequiredApprovals(g, kill_switch)
<1>1. required \in 0..2
  BY <1>t, RequiredType DEF TypeOK
<1>2. request[p] = "ABSENT"
  BY <1>t DEF CreateProposal, StatusesAgree, Legal
<1>3. u \in User /\ u # NoUser
  BY DecisionAssumption
<1>a. /\ material' = [material EXCEPT ![p] =
              [requester |-> u, required |-> required,
               version |-> incident_version, governance |-> g]]
      /\ proposal' = [proposal EXCEPT ![p] =
              IF Denied(g, kill_switch) THEN "DENIED" ELSE "AWAITING_APPROVAL"]
      /\ \/ request' = request
         \/ required # 0 /\ request' = [request EXCEPT ![p] = "PENDING"]
      /\ UNCHANGED decision
  BY DEF CreateProposal, requests
<1>4. /\ material'[p].requester = u /\ material'[p].required = required
      /\ proposal'[p] # "ABSENT"
      /\ request'[p] = "ABSENT" \/ (required > 0 /\ request'[p] = "PENDING")
      /\ UNCHANGED decision
  <2>1. material'[p] = [requester |-> u, required |-> required,
                        version |-> incident_version, governance |-> g]
    BY <1>a, <1>t DEF TypeOK
  <2>2. proposal'[p] # "ABSENT"
    BY <1>a, <1>t DEF TypeOK
  <2>3. request'[p] = "ABSENT" \/ (required > 0 /\ request'[p] = "PENDING")
    BY <1>a, <1>t, <1>1, <1>2 DEF TypeOK
  <2> QED
    BY <1>a, <2>1, <2>2, <2>3
<1>5. VotesOK(p)'
  BY <1>2, <1>3, <1>4 DEF VotesAgree, VotesOK
<1>6. ASSUME NEW q \in Proposal, q # p
      PROVE  VotesOK(q)'
  <2>1. /\ material'[q] = material[q] /\ proposal'[q] = proposal[q]
        /\ request'[q] = request[q] /\ UNCHANGED decision
    BY <1>6, <1>a, <1>t DEF TypeOK
  <2> QED
    BY <2>1, VotesKept DEF VotesAgree
<1> QED
  BY <1>5, <1>6 DEF VotesAgree

\* How one vote changes the set of approvers.
LEMMA VoteCounts ==
    ASSUME TypeOK, NEW p \in Proposal, NEW u \in User, NEW v \in {"APPROVE", "REJECT"},
           decision[p][u] = "NONE", decision' = [decision EXCEPT ![p][u] = v]
    PROVE  /\ Approvers(p)' = IF v = "APPROVE" THEN Approvers(p) \cup {u} ELSE Approvers(p)
           /\ \A q \in Proposal : q # p => Approvers(q)' = Approvers(q)
           /\ decision'[p][u] = v
           /\ \A w \in User : w # u => decision'[p][w] = decision[p][w]
           /\ \A q \in Proposal : q # p => decision'[q] = decision[q]
<1>1. /\ decision'[p][u] = v
      /\ \A w \in User : w # u => decision'[p][w] = decision[p][w]
      /\ \A q \in Proposal : q # p => decision'[q] = decision[q]
  BY DEF TypeOK
<1>2. CASE v = "APPROVE"
  BY <1>1, <1>2 DEF Approvers
<1>3. CASE v = "REJECT"
  BY <1>1, <1>3 DEF Approvers
<1> QED
  BY <1>1, <1>2, <1>3 DEF Approvers

LEMMA DecisionVotes ==
    ASSUME TypeOK, VotesAgree, StatusesAgree, NEW p \in Proposal, NEW u \in User,
           NEW now \in Nat, NEW v \in {"APPROVE", "REJECT"},
           request[p] = "PENDING", u # material[p].requester, decision[p][u] = "NONE",
           decision' = [decision EXCEPT ![p][u] = v],
           (v = "REJECT" /\ Reject(p)) \/ (v = "APPROVE" /\ Approve(p, u, now)),
           UNCHANGED material
    PROVE  VotesAgree'
<1>1. VotesOK(p)
  BY DEF VotesAgree
<1>2. proposal[p] = "AWAITING_APPROVAL"
  BY DEF StatusesAgree, Legal
<1>3. \A w \in User : w = material[p].requester => decision'[p][w] = "NONE"
  BY <1>1, VoteCounts DEF VotesOK
<1>4. CASE v = "REJECT" /\ Reject(p)
  <2>1. request'[p] = "REJECTED" /\ proposal'[p] = "REJECTED"
    BY <1>4 DEF Reject, TypeOK
  <2> QED
    <3>1. VotesOK(p)'
      BY <1>1, <1>2, <1>3, <2>1 DEF VotesOK
    <3>2. ASSUME NEW q \in Proposal, q # p
          PROVE  VotesOK(q)'
      <4>1. /\ decision'[q] = decision[q] /\ material'[q] = material[q]
            /\ request'[q] = request[q] /\ proposal'[q] = proposal[q]
        BY <1>4, <3>2, VoteCounts DEF Reject, TypeOK
      <4> QED
        BY <4>1, VotesKept DEF VotesAgree
    <3> QED
      BY <3>1, <3>2 DEF VotesAgree
<1>5. CASE v = "APPROVE" /\ Approve(p, u, now)
  <2>1. \A w \in User : decision'[p][w] # "REJECT"
    BY <1>1, <1>5, VoteCounts DEF VotesOK
  <2>2. \/ UNCHANGED <<request, proposal>>
        \/ /\ request' = [request EXCEPT ![p] = "APPROVED"]
           /\ proposal' = [proposal EXCEPT ![p] = "AUTHORIZED"]
           /\ Cardinality(Approvers(p) \cup {u}) >= material[p].required
    BY <1>5 DEF Approve
  <2>3. Approvers(p)' = Approvers(p) \cup {u}
    BY <1>5, VoteCounts
  <2>4. VotesOK(p)'
    BY <1>1, <1>2, <1>3, <2>1, <2>2, <2>3 DEF VotesOK, TypeOK
  <2>5. ASSUME NEW q \in Proposal, q # p
        PROVE  VotesOK(q)'
    <3>1. /\ decision'[q] = decision[q] /\ material'[q] = material[q]
          /\ request'[q] = request[q] /\ proposal'[q] = proposal[q]
      BY <2>2, <2>5, VoteCounts DEF TypeOK
    <3> QED
      BY <3>1, VotesKept DEF VotesAgree
  <2> QED
    BY <2>4, <2>5 DEF VotesAgree
<1> QED
  BY <1>4, <1>5

LEMMA VotesStep == Inv /\ VotesAgree /\ [Next]_vars => VotesAgree'
<1> SUFFICES ASSUME Inv, VotesAgree, [Next]_vars
             PROVE  VotesAgree'
  OBVIOUS
<1>t. TypedCalls /\ LockOK /\ TypeOK /\ CallsOK /\ StatusesAgree
  BY DEF Inv, TypedCalls
<1> USE DEF rows, proposals, requests, authorizations
<1>1. ASSUME NEW s \in Session, Decide(s)
      PROVE  VotesAgree'
  <2>1. /\ call[s].proposal \in Proposal /\ call[s].user \in User
        /\ call[s].now \in Nat /\ call[s].verdict \in {"APPROVE", "REJECT"}
    BY <1>1, <1>t DEF Decide, CallsOK, TypeOK, Call
  <2>2. /\ request[call[s].proposal] = "PENDING"
        /\ call[s].user # material[call[s].proposal].requester
        /\ decision[call[s].proposal][call[s].user] = "NONE"
        /\ decision' = [decision EXCEPT ![call[s].proposal][call[s].user] = call[s].verdict]
        /\ UNCHANGED material
    BY <1>1 DEF Decide, DecisionAllowed
  <2>3. \/ call[s].verdict = "REJECT" /\ Reject(call[s].proposal)
        \/ /\ call[s].verdict = "APPROVE"
           /\ Approve(call[s].proposal, call[s].user, call[s].now)
    BY <1>1 DEF Decide
  <2> QED
    BY <1>t, <2>1, <2>2, <2>3, DecisionVotes
<1>2. ASSUME NEW p \in Proposal, Revoke(p)
      PROVE  VotesAgree'
  <2>1. proposal[p] = "AUTHORIZED"
    BY <1>2, <1>t DEF Revoke, StatusesAgree, Legal
  <2> QED
    <3> SUFFICES ASSUME NEW q \in Proposal
                 PROVE  VotesOK(q)'
      BY DEF VotesAgree
    <3>1. /\ material'[q] = material[q] /\ decision'[q] = decision[q]
          /\ \/ request'[q] = request[q]
             \/ request[q] # "ABSENT" /\ request'[q] = "EXPIRED"
          /\ proposal'[q] = "ABSENT" <=> proposal[q] = "ABSENT"
      BY <1>2, <2>1, <1>t DEF Revoke, TypeOK
    <3> QED
      BY <3>1, VotesKept DEF VotesAgree
<1>3. ASSUME NEW p \in Proposal, ExpireRequest(p)
      PROVE  VotesAgree'
  <2>1. request[p] = "PENDING" => proposal[p] # "ABSENT"
    BY <1>t DEF StatusesAgree, Legal
  <2> QED
    <3> SUFFICES ASSUME NEW q \in Proposal
                 PROVE  VotesOK(q)'
      BY DEF VotesAgree
    <3>1. /\ material'[q] = material[q] /\ decision'[q] = decision[q]
          /\ \/ request'[q] = request[q]
             \/ request[q] # "ABSENT" /\ request'[q] = "EXPIRED"
          /\ proposal'[q] = "ABSENT" <=> proposal[q] = "ABSENT"
      BY <1>3, <2>1, <1>t DEF ExpireRequest, RequestStillDue, TypeOK
    <3> QED
      BY <3>1, VotesKept DEF VotesAgree
<1>4. ASSUME NEW p \in Proposal, ExpireAuthorization(p)
      PROVE  VotesAgree'
  <2>1. authorization[p] = "ACTIVE" => proposal[p] # "ABSENT"
    BY <1>t DEF StatusesAgree, Legal
  <2> QED
    <3> SUFFICES ASSUME NEW q \in Proposal
                 PROVE  VotesOK(q)'
      BY DEF VotesAgree
    <3>1. /\ material'[q] = material[q] /\ decision'[q] = decision[q]
          /\ \/ request'[q] = request[q]
             \/ request[q] # "ABSENT" /\ request'[q] = "EXPIRED"
          /\ proposal'[q] = "ABSENT" <=> proposal[q] = "ABSENT"
      BY <1>4, <2>1, <1>t DEF ExpireAuthorization, AuthorizationStillDue, TypeOK
    <3> QED
      BY <3>1, VotesKept DEF VotesAgree
<1>5. ASSUME UNCHANGED <<proposals, requests, decision>>
      PROVE  VotesAgree'
  BY <1>5, VotesKept DEF VotesAgree
<1>6. ASSUME NEW s \in Session,
             DecideRefused(s) \/ LockForExecution(s) \/ Abort(s) \/ Consume(s)
      PROVE  UNCHANGED <<proposals, requests, decision>>
  BY <1>6 DEF DecideRefused, LockForExecution, Abort, Consume
<1>7. ASSUME NEW s \in Session, NEW p \in Proposal,
             \/ \E u \in Approver, v \in {"APPROVE", "REJECT"} : BeginDecide(s, p, u, v)
             \/ \E k \in Key : BeginExecute(s, p, k)
      PROVE  UNCHANGED <<proposals, requests, decision>>
  BY <1>7 DEF BeginDecide, BeginExecute
<1>8. ASSUME Discover \/ SchedulerCrash \/ World \/ UNCHANGED vars
      PROVE  UNCHANGED <<proposals, requests, decision>>
  BY <1>8 DEF Discover, SchedulerCrash, World, Tick, SetKillSwitch, IncidentChanges, vars
<1> QED
  BY CreationVotes, <1>1, <1>2, <1>3, <1>4, <1>5, <1>6, <1>7, <1>8
     DEF Next, SessionStep, SchedulerStep

LEMMA VotesHold == SafetySpec => [](Inv /\ VotesAgree)
BY InitVotes, VotesStep, InvHolds, PTL DEF SafetySpec

\* Every execution has its quorum of approvers other than the requester,
\* and no rejection (QuorumBehindExecution).
THEOREM QuorumBehindExecutionHolds == SafetySpec => []QuorumBehindExecution
<1>1. Inv /\ VotesAgree => QuorumBehindExecution
  <2> SUFFICES ASSUME Inv, VotesAgree, NEW k \in Key, execution[k] # NoProposal
               PROVE  LET p == execution[k] IN
                      /\ Cardinality(Approvers(p)) >= material[p].required
                      /\ material[p].required > 0
                      /\ decision[p][material[p].requester] = "NONE"
                      /\ \A u \in User : decision[p][u] # "REJECT"
    BY DEF QuorumBehindExecution
  <2>1. PICK p \in Proposal : p = execution[k]
    BY DEF Inv, TypedCalls, TypeOK
  <2>2. authorization[p] = "CONSUMED"
    BY <2>1 DEF Inv, StatusesAgree
  <2>3. request[p] = "APPROVED" /\ proposal[p] = "AUTHORIZED"
    BY <2>2 DEF Inv, StatusesAgree, Legal
  <2>4. material[p].requester \in User
    BY <2>3 DEF Inv, TypedCalls, TypeOK, VotesAgree, VotesOK
  <2> QED
    BY <2>1, <2>3, <2>4 DEF VotesAgree, VotesOK
<1> QED
  BY <1>1, VotesHold, PTL

-----------------------------------------------------------------------------
(* The decision service is an approval gate (the safety half of            *)
(* GateImplemented).                                                       *)

Owner == [p \in Proposal |-> material[p].requester]
Quorum == [p \in Proposal |-> material[p].required]
Voters == [p \in Proposal |-> Approvers(p)]
Holders(p) == {k \in Key : execution[k] = p}
Uses == [p \in Proposal |-> Cardinality(Holders(p))]

\* A step that changes none of what the gate shows.
LEMMA GateStutter ==
    ASSUME UNCHANGED <<material, decision, execution>>,
           \A p \in Proposal : authorization'[p] = authorization[p]
    PROVE  UNCHANGED Gate!vars
<1>1. Owner' = Owner /\ Quorum' = Quorum /\ Voters' = Voters /\ Uses' = Uses
  BY DEF Owner, Quorum, Voters, Uses, Approvers, Holders
<1>2. Grant' = Grant
  BY DEF Grant
<1> QED
  BY <1>1, <1>2 DEF Gate!vars, Owner, Quorum, Voters, Uses, Holders

\* How a new status of one authorization shows in the gate.
LEMMA GrantMoves ==
    ASSUME TypeOK, NEW p \in Proposal, NEW status \in AuthorizationStatus,
           authorization' = [authorization EXCEPT ![p] = status]
    PROVE  Grant' = [Grant EXCEPT ![p] = IF status = "ABSENT" THEN "none"
                                         ELSE IF status = "ACTIVE" THEN "granted"
                                         ELSE IF status = "CONSUMED" THEN "used"
                                         ELSE "withdrawn"]
BY DEF Grant, TypeOK

LEMMA GateInit == Init => Gate!Init
<1> SUFFICES ASSUME Init
             PROVE  Gate!Init
  OBVIOUS
<1>1. \A p \in Proposal : Holders(p) = {} /\ Approvers(p) = {}
  BY DecisionAssumption DEF Init, Holders, Approvers
<1>2. Uses = [p \in Proposal |-> 0]
  BY <1>1, FS_EmptySet DEF Uses
<1>3. Owner = [p \in Proposal |-> NoUser] /\ Quorum = [p \in Proposal |-> 0]
  BY DEF Init, Owner, Quorum
<1>4. Voters = [p \in Proposal |-> {}]
  BY <1>1 DEF Voters
<1>5. Grant = [p \in Proposal |-> "none"]
  BY DEF Init, Grant
<1> QED
  BY <1>2, <1>3, <1>4, <1>5 DEF Gate!Init, Owner, Quorum, Voters, Uses, Holders

LEMMA GatePropose ==
    ASSUME Inv, VotesAgree, NEW p \in Proposal, NEW u \in Requester, NEW g \in Governance,
           CreateProposal(p, u, g)
    PROVE  Gate!Next
<1>t. TypeOK
  BY DEF Inv, TypedCalls
<1>1. PICK q \in 0..2 : q = RequiredApprovals(g, kill_switch)
  BY <1>t, RequiredType DEF TypeOK
<1>2. /\ material' = [material EXCEPT ![p] =
              [requester |-> u, required |-> q,
               version |-> incident_version, governance |-> g]]
      /\ UNCHANGED <<decision, execution, authorization>>
      /\ proposal[p] = "ABSENT"
  BY <1>1 DEF CreateProposal, authorizations
<1>3. Owner[p] = NoUser
  BY <1>2 DEF VotesAgree, VotesOK, Owner
<1>4. Owner' = [Owner EXCEPT ![p] = u]
  BY <1>2, <1>t DEF Owner, TypeOK
<1>5. Quorum' = [Quorum EXCEPT ![p] = q]
  BY <1>2, <1>t DEF Quorum, TypeOK
<1>6. Voters' = Voters /\ Uses' = Uses /\ Grant' = Grant
  BY <1>2 DEF Voters, Uses, Approvers, Holders, Grant
<1>7. Gate!Propose(p, u, q)
  BY <1>3, <1>4, <1>5, <1>6 DEF Gate!Propose, Owner, Quorum, Voters, Uses, Holders
<1>8. u \in User
  BY DecisionAssumption
<1> QED
  BY <1>7, <1>8, Zenon DEF Gate!Next

LEMMA GateApprove ==
    ASSUME Inv, VotesAgree, NEW p \in Proposal, NEW u \in User, NEW now \in Nat,
           request[p] = "PENDING", u # material[p].requester, decision[p][u] = "NONE",
           decision' = [decision EXCEPT ![p][u] = "APPROVE"],
           Approve(p, u, now), UNCHANGED <<material, execution>>
    PROVE  Gate!Next
<1>t. TypeOK /\ StatusesAgree /\ VotesOK(p)
  BY DEF Inv, TypedCalls, VotesAgree
<1>1. proposal[p] = "AWAITING_APPROVAL" /\ authorization[p] = "ABSENT"
  BY <1>t DEF StatusesAgree, Legal
<1>r. material[p].requester \in User \cup {NoUser} /\ material[p].required \in 0..2
  BY <1>t DEF TypeOK
<1>2. Owner[p] \notin {NoUser, u} /\ Quorum[p] > 0 /\ Quorum[p] \in Nat
  <2>1. material[p].requester \notin {NoUser, u} /\ material[p].required > 0
    BY <1>t, <1>1 DEF VotesOK
  <2> QED
    BY <1>r, <2>1 DEF Owner, Quorum
<1>3. u \notin Voters[p] /\ Grant[p] = "none"
  BY <1>1 DEF Voters, Approvers, Grant
<1>4. Voters' = [Voters EXCEPT ![p] = @ \cup {u}]
  BY <1>t, VoteCounts DEF Voters
<1>5. Cardinality(Voters[p] \cup {u}) \in Nat
  <2>1. Voters[p] \cup {u} \subseteq User
    BY DEF Voters, Approvers
  <2> QED
    BY <2>1, FS_Subset, FS_CardinalityType, DecisionAssumption
<1>6. Owner' = Owner /\ Quorum' = Quorum /\ Uses' = Uses
  BY DEF Owner, Quorum, Uses, Holders
<1>7. CASE Cardinality(Approvers(p) \cup {u}) >= material[p].required
  <2>1. authorization' = [authorization EXCEPT ![p] = "ACTIVE"]
    BY <1>7 DEF Approve
  <2>2. Grant' = [Grant EXCEPT ![p] = "granted"]
    BY <1>t, <2>1, GrantMoves DEF AuthorizationStatus
  <2>3. Quorum[p] \in 1..Cardinality(Voters[p] \cup {u})
    BY <1>2, <1>5, <1>7 DEF Quorum, Voters
  <2>4. Grant' = IF Quorum[p] \in 1..Cardinality(Voters[p] \cup {u})
                 THEN [Grant EXCEPT ![p] = "granted"]
                 ELSE Grant
    BY <2>2, <2>3
  <2>5. Gate!Approve(p, u)
    BY <1>2, <1>3, <1>4, <1>6, <2>4
       DEF Gate!Approve, Gate!Cardinality, Cardinality, Owner, Quorum, Voters, Uses,
           Holders
  <2> QED
    BY <2>5, Zenon DEF Gate!Next
<1>8. CASE ~(Cardinality(Approvers(p) \cup {u}) >= material[p].required)
  <2>1. Grant' = Grant
    BY <1>8 DEF Approve, authorizations, Grant
  <2>2. Quorum[p] \notin 1..Cardinality(Voters[p] \cup {u})
    BY <1>2, <1>5, <1>8 DEF Quorum, Voters
  <2>3. Grant' = IF Quorum[p] \in 1..Cardinality(Voters[p] \cup {u})
                 THEN [Grant EXCEPT ![p] = "granted"]
                 ELSE Grant
    BY <2>1, <2>2
  <2>4. Gate!Approve(p, u)
    BY <1>2, <1>3, <1>4, <1>6, <2>3
       DEF Gate!Approve, Gate!Cardinality, Cardinality, Owner, Quorum, Voters, Uses,
           Holders
  <2> QED
    BY <2>4, Zenon DEF Gate!Next
<1> QED
  BY <1>7, <1>8

\* A consumed authorization has one execution.
LEMMA GateUse ==
    ASSUME Inv, NEW p \in Proposal, NEW k \in Key,
           authorization[p] = "ACTIVE", execution[k] = NoProposal,
           execution' = [execution EXCEPT ![k] = p],
           authorization' = [authorization EXCEPT ![p] = "CONSUMED"],
           UNCHANGED <<material, decision>>
    PROVE  Gate!Next
<1>t. TypeOK
  BY DEF Inv, TypedCalls
<1>1. Holders(p)' = Holders(p) \cup {k} /\ k \notin Holders(p)
  BY <1>t, DecisionAssumption DEF TypeOK, Holders
<1>2. \A q \in Proposal : q # p => Holders(q)' = Holders(q)
  BY <1>t, DecisionAssumption DEF TypeOK, Holders
<1>3. Cardinality(Holders(p)') = Cardinality(Holders(p)) + 1
  <2>1. Holders(p) \subseteq Key
    BY DEF Holders
  <2>2. IsFiniteSet(Holders(p))
    BY <2>1, FS_Subset, DecisionAssumption
  <2> QED
    BY <1>1, <2>2, FS_AddElement
<1>4. Uses' = [Uses EXCEPT ![p] = @ + 1]
  BY <1>2, <1>3 DEF Uses
<1>5. Grant[p] = "granted" /\ Grant' = [Grant EXCEPT ![p] = "used"]
  BY <1>t, GrantMoves DEF AuthorizationStatus, Grant
<1>6. Owner' = Owner /\ Quorum' = Quorum /\ Voters' = Voters
  BY DEF Owner, Quorum, Voters, Approvers
<1>7. Gate!Use(p)
  BY <1>4, <1>5, <1>6 DEF Gate!Use, Owner, Quorum, Voters, Uses, Holders
<1> QED
  BY <1>7 DEF Gate!Next

LEMMA GateWithdraw ==
    ASSUME Inv, NEW p \in Proposal, NEW status \in {"REVOKED", "EXPIRED"},
           authorization[p] = "ACTIVE",
           authorization' = [authorization EXCEPT ![p] = status],
           UNCHANGED <<material, decision, execution>>
    PROVE  Gate!Next
<1>t. TypeOK
  BY DEF Inv, TypedCalls
<1>1. Grant[p] = "granted" /\ Grant' = [Grant EXCEPT ![p] = "withdrawn"]
  BY <1>t, GrantMoves DEF AuthorizationStatus, Grant
<1>2. Owner' = Owner /\ Quorum' = Quorum /\ Voters' = Voters /\ Uses' = Uses
  BY DEF Owner, Quorum, Voters, Uses, Approvers, Holders
<1>3. Gate!Withdraw(p)
  BY <1>1, <1>2 DEF Gate!Withdraw, Owner, Quorum, Voters, Uses, Holders
<1> QED
  BY <1>3 DEF Gate!Next

LEMMA GateStep == Inv /\ VotesAgree /\ [Next]_vars => [Gate!Next]_Gate!vars
<1> SUFFICES ASSUME Inv, VotesAgree, [Next]_vars
             PROVE  Gate!Next \/ UNCHANGED Gate!vars
  OBVIOUS
<1>t. TypedCalls /\ LockOK /\ TypeOK /\ CallsOK /\ StatusesAgree
  BY DEF Inv, TypedCalls
<1> USE DEF rows, proposals, requests, authorizations
<1>1. ASSUME NEW s \in Session, Decide(s)
      PROVE  Gate!Next \/ UNCHANGED Gate!vars
  <2>1. PICK p \in Proposal, u \in User, v \in {"APPROVE", "REJECT"}, now \in Nat :
          p = call[s].proposal /\ u = call[s].user /\ v = call[s].verdict /\ now = call[s].now
    BY <1>1, <1>t DEF Decide, CallsOK, TypeOK, Call
  <2>2. /\ request[p] = "PENDING" /\ u # material[p].requester /\ decision[p][u] = "NONE"
        /\ decision' = [decision EXCEPT ![p][u] = v]
        /\ UNCHANGED <<material, execution>>
    BY <1>1, <2>1 DEF Decide, DecisionAllowed
  <2>3. CASE v = "APPROVE"
    <3>1. Approve(p, u, now)
      BY <1>1, <2>1, <2>3 DEF Decide
    <3> QED
      BY <2>2, <2>3, <3>1, GateApprove
  <2>4. CASE v = "REJECT"
    <3>1. Reject(p)
      BY <1>1, <2>1, <2>4 DEF Decide
    <3>2. Voters' = Voters
      BY <2>2, <2>4, <1>t, VoteCounts DEF Voters
    <3>3. Owner' = Owner /\ Quorum' = Quorum /\ Uses' = Uses /\ Grant' = Grant
      BY <2>2, <3>1 DEF Reject, Owner, Quorum, Uses, Holders, Grant
    <3> QED
      BY <3>2, <3>3 DEF Gate!vars, Owner, Quorum, Voters, Uses, Holders
  <2> QED
    BY <2>3, <2>4
<1>2. ASSUME NEW s \in Session, Consume(s)
      PROVE  Gate!Next \/ UNCHANGED Gate!vars
  <2>1. PICK p \in Proposal, k \in Key : p = call[s].proposal /\ k = call[s].key
    BY <1>2, <1>t DEF Consume, CallsOK
  <2>2. authorization[p] = "ACTIVE" /\ UNCHANGED <<material, decision>>
    BY <1>2, <2>1, <1>t DEF Consume, LockOK
  <2>3. CASE execution[k] = NoProposal
    <3>1. /\ execution' = [execution EXCEPT ![k] = p]
          /\ authorization' = [authorization EXCEPT ![p] = "CONSUMED"]
      BY <1>2, <2>1, <2>3 DEF Consume
    <3> QED
      BY <2>2, <2>3, <3>1, GateUse
  <2>4. CASE execution[k] # NoProposal
    BY <1>2, <2>1, <2>2, <2>4, GateStutter DEF Consume
  <2> QED
    BY <2>3, <2>4
<1>3. ASSUME NEW p \in Proposal, Revoke(p)
      PROVE  Gate!Next
  BY <1>3, GateWithdraw DEF Revoke
<1>4. ASSUME NEW p \in Proposal, ExpireAuthorization(p)
      PROVE  Gate!Next \/ UNCHANGED Gate!vars
  <2>1. CASE AuthorizationStillDue(p)
    BY <1>4, <2>1, GateWithdraw DEF ExpireAuthorization, AuthorizationStillDue
  <2>2. CASE ~AuthorizationStillDue(p)
    BY <1>4, <2>2, GateStutter DEF ExpireAuthorization
  <2> QED
    BY <2>1, <2>2
<1>5. ASSUME UNCHANGED <<material, decision, execution, authorization>>
      PROVE  UNCHANGED Gate!vars
  BY <1>5, GateStutter
<1>6. ASSUME NEW s \in Session,
             DecideRefused(s) \/ LockForExecution(s) \/ Abort(s)
      PROVE  UNCHANGED <<material, decision, execution, authorization>>
  BY <1>6 DEF DecideRefused, LockForExecution, Abort
<1>7. ASSUME NEW s \in Session, NEW p \in Proposal,
             \/ \E u \in Approver, v \in {"APPROVE", "REJECT"} : BeginDecide(s, p, u, v)
             \/ \E k \in Key : BeginExecute(s, p, k)
      PROVE  UNCHANGED <<material, decision, execution, authorization>>
  BY <1>7 DEF BeginDecide, BeginExecute
<1>8. ASSUME \/ Discover \/ SchedulerCrash \/ World \/ UNCHANGED vars
             \/ \E p \in Proposal : ExpireRequest(p)
      PROVE  UNCHANGED <<material, decision, execution, authorization>>
  BY <1>8 DEF Discover, SchedulerCrash, World, Tick, SetKillSwitch, IncidentChanges,
              ExpireRequest, vars
<1> QED
  BY GatePropose, <1>1, <1>2, <1>3, <1>4, <1>5, <1>6, <1>7, <1>8
     DEF Next, SessionStep, SchedulerStep

\* The service implements the approval gate: no grant without a quorum of
\* people other than the requester, no use without a grant, one use of it
\* (the safety half of GateImplemented).
THEOREM GateSafety == SafetySpec => Gate!SafetySpec
BY GateInit, GateStep, VotesHold, PTL DEF SafetySpec, Gate!SafetySpec

=============================================================================
