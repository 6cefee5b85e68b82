---------------------------- MODULE IncidentCase ----------------------------
(***************************************************************************)
(* One incident on an analyst's desk: its status, who owns it, who helps,  *)
(* who resolved it and what its file holds.  A request reads the row when  *)
(* it starts and writes when it commits, without a lock in between, and    *)
(* only the columns that its own copy saw change.  The version a client    *)
(* sends is compared with the row as read, so it turns away who has not    *)
(* read the row as it is and nobody who reads it at the same time: here    *)
(* every client is up to date when its request starts.                     *)
(*                                                                         *)
(* Source: incident/application/service.py and correlation.py, with        *)
(* domain/authorization.py and domain/resolution.py.  Titles, severities,  *)
(* dates, closing reasons, audit and version numbers are data, and what    *)
(* changes only them is left out.                                          *)
(***************************************************************************)
EXTENDS Naturals, FiniteSets

CONSTANTS User,
          Holds,   \* the permissions of each user
          Invited, \* whom a case may get as collaborators
          Slot,    \* what the technical file can say of it
          Request,
          Nobody,
          MaxRequests \* bound on the requests that change the row

Permission == {"incident.update", "incident.assign",
               "incident.resolve", "incident.close"}

CaseAssumption ==
    /\ Holds \in [User -> SUBSET Permission]
    /\ Invited \subseteq User
    /\ {"diagnosis", "root_cause", "resolution"} \subseteq Slot
    /\ "note" \notin Slot /\ "alert" \notin Slot
    /\ Nobody \notin User
    /\ MaxRequests \in Nat

VARIABLES status,
          owner,    \* assignee_user_id
          resolver, \* resolved_by_user_id
          helpers,  \* incident_collaborators
          file,     \* slots claimed, "note" for a comment, "alert" for a link
          request,  \* what an open request has read and decided
          opened

caseVars == <<status, owner, resolver, helpers, file, request, opened>>

Transitions == [
    new           |-> {"triaged", "closed"},
    triaged       |-> {"investigating", "closed"},
    investigating |-> {"contained", "resolved", "closed"},
    contained     |-> {"investigating", "resolved"},
    resolved      |-> {"closed", "reopened"},
    closed        |-> {"reopened"},
    reopened      |-> {"investigating", "contained", "resolved", "closed"}]
Status == DOMAIN Transitions
Active == {"new", "triaged", "investigating", "contained", "reopened"}
Idle == [op |-> "none"]

TypeOK ==
    /\ status \in Status
    /\ {owner, resolver} \subseteq User \cup {Nobody}
    /\ helpers \subseteq Invited
    /\ file \subseteq Slot \cup {"note", "alert"}
    /\ request \in [Request -> {Idle}
          \cup [op : {"transition"}, by : User, target : Status,
                resolver : User \cup {Nobody}]
          \cup [op : {"assign"}, to : User \cup {Nobody}]
          \cup [op : {"note", "alert"}]]
    /\ opened \in 0 .. MaxRequests

Init ==
    /\ status = "new"
    /\ owner = Nobody /\ resolver = Nobody
    /\ helpers = {}
    /\ file = {}
    /\ request = [r \in Request |-> Idle]
    /\ opened = 0

----------------------------------------------------------------------------
(* Who may do what: authorization.can, given the facts of a case.          *)

Needed(target) == CASE target = "resolved" -> "incident.resolve"
                    [] target \in {"closed", "reopened"} -> "incident.close"
                    [] OTHER -> "incident.update"

Supervises(u) == "incident.close" \in Holds[u]

Can(u, facts, target) ==
    /\ target \in Transitions[facts.status]
    /\ Needed(target) \in Holds[u]
    /\ target = "resolved" =>
          \/ Supervises(u)
          \/ facts.owner = u
          \/ facts.owner = Nobody /\ u \notin facts.helpers
    /\ target = "closed" => u \notin {facts.owner, facts.resolver}

\* _facts, which available_actions weighs, and what transition weighs.
Facts == [status |-> status, owner |-> owner,
          resolver |-> resolver, helpers |-> helpers]
FactsOfTransition == [Facts EXCEPT !.resolver = Nobody, !.helpers = {}]

\* resolution.assess: what a case must carry before it is called resolved.
Reviewable(content) ==
    /\ {"diagnosis", "resolution", "note", "alert"} \subseteq content
    /\ content \cap {"root_cause", "root_cause_undetermined"} # {}

----------------------------------------------------------------------------
(* Changes to the row.                                                     *)

Open(r, read) ==
    /\ request[r] = Idle
    /\ opened < MaxRequests
    /\ request' = [request EXCEPT ![r] = read]
    /\ opened' = opened + 1
    /\ UNCHANGED <<status, owner, resolver, helpers, file>>

Close(r) ==
    /\ request' = [request EXCEPT ![r] = Idle]
    /\ UNCHANGED <<helpers, opened>>

\* Mutant: the gate stands on the way from investigating only.
Transition_OneGate(r, u, target) ==
    /\ Can(u, FactsOfTransition, target)
    /\ target = "resolved" /\ status = "investigating" => Reviewable(file)
    /\ Open(r, [op |-> "transition", by |-> u, target |-> target,
                resolver |-> resolver])

Transition(r, u, target) ==
    /\ Can(u, FactsOfTransition, target)
    /\ target = "resolved" => Reviewable(file)
    /\ Open(r, [op |-> "transition", by |-> u, target |-> target,
                resolver |-> resolver])

TransitionCommit(r) ==
    LET q == request[r] IN
    /\ q.op = "transition"
    /\ status' = q.target
    /\ resolver' = IF q.target = "resolved" /\ q.by # q.resolver
                   THEN q.by ELSE resolver
    /\ Close(r)
    /\ UNCHANGED <<owner, file>>

\* An assignee that the row already has is not written again.
Assign(r, u, assignee) ==
    /\ "incident.assign" \in Holds[u]
    /\ assignee # owner
    /\ Open(r, [op |-> "assign", to |-> assignee])

AssignCommit(r) ==
    /\ request[r].op = "assign"
    /\ owner' = request[r].to
    /\ Close(r)
    /\ UNCHANGED <<status, resolver, file>>

\* add_timeline and link_alerts.
Attach(r, u, op) ==
    /\ "incident.update" \in Holds[u]
    /\ Open(r, [op |-> op])

AttachCommit(r) ==
    /\ request[r].op \in {"note", "alert"}
    /\ file' = file \cup {request[r].op}
    /\ Close(r)
    /\ UNCHANGED <<status, owner, resolver>>

----------------------------------------------------------------------------
(* Changes beside the row.                                                 *)

elsewhere == <<status, owner, resolver, request, opened>>

AddCollaborator(u) ==
    /\ helpers' = helpers \cup {u}
    /\ UNCHANGED <<elsewhere, file>>

RemoveCollaborator(u) ==
    /\ helpers' = helpers \ {u}
    /\ UNCHANGED <<elsewhere, file>>

\* A claim that names a slot.  The ledger is append-only, and the gate counts
\* the claim whatever assessments say of it later.
FileSlot(s) ==
    /\ file' = file \cup {s}
    /\ UNCHANGED <<elsewhere, helpers>>

\* Correlation locks the row and looks at its status again.
Correlate ==
    /\ status \in Active
    /\ file' = file \cup {"alert"}
    /\ UNCHANGED <<elsewhere, helpers>>

Next ==
    \/ \E r \in Request, u \in User :
          \/ \E target \in Status : Transition(r, u, target)
          \/ \E assignee \in User \cup {Nobody} : Assign(r, u, assignee)
          \/ \E op \in {"note", "alert"} : Attach(r, u, op)
    \/ \E r \in Request :
          TransitionCommit(r) \/ AssignCommit(r) \/ AttachCommit(r)
    \/ \E u \in Invited : AddCollaborator(u) \/ RemoveCollaborator(u)
    \/ \E s \in Slot : FileSlot(s)
    \/ Correlate

Spec == Init /\ [][Next]_caseVars

----------------------------------------------------------------------------
(* A case that says it is resolved, and every case that was ever said to   *)
(* be, has on file what a reviewer needs: diagnosis, cause or the reason   *)
(* there is none, resolution, a person's note and evidence, whatever       *)
(* requests overtook one another ("Made against an empty file it is        *)
(* unreviewable", resolution.py).                                          *)
ResolvedIsReviewable ==
    status = "resolved" \/ resolver # Nobody => Reviewable(file)

(* Does not hold of the code, see README: whoever declared the work        *)
(* finished does not also accept it (authorization.py).                    *)
ResolverNeverCloses == \A r \in Request :
    request[r].op = "transition" /\ request[r].target = "closed" =>
        request[r].by # request[r].resolver

(* Does not hold of the code, see README: a case moves only along the      *)
(* transitions, "the expected version must keep two analysts from          *)
(* overwriting decisions" (INCIDENT_LIFECYCLE.md).                         *)
MovesAreLegal == [][status' # status => status' \in Transitions[status]]_caseVars
=============================================================================
