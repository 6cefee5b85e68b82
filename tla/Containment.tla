---------------------------- MODULE Containment -----------------------------
(***************************************************************************)
(* Containing a target and giving it back.  A playbook's execution         *)
(* switches an account off, in the transaction that records it, or has     *)
(* Wazuh isolate a host and records that afterwards; whoever reverts the   *)
(* execution runs the reverse action between two transactions, and that    *)
(* action trusts the audit trail of the target, not the execution.         *)
(*                                                                         *)
(* Source: playbooks/infrastructure/action_registry.py and rollback of     *)
(* playbooks/application/service.py.  The engine that runs the action is   *)
(* NativeEngine; here it is what an execution can come to.  Bindings and   *)
(* credentials are in order; a correlation id is the client's to choose.   *)
(***************************************************************************)
EXTENDS Naturals

CONSTANTS Account, Host,
          Execution, Target, \* the target in each execution's inputs
          Correlation, Request,
          MaxRollbacks, \* bound on the reverts asked for
          None

ContainmentAssumption ==
    /\ Account \cap Host = {}
    /\ Target \in [Execution -> Account \cup Host]
    /\ None \notin Correlation
    /\ MaxRollbacks \in Nat

VARIABLES contained, \* accounts that are inactive, hosts that are isolated
          stage,     \* how far each execution has come
          under,     \* the correlation it was requested under
          reverted,  \* result["rollback_execution_id"]
          trail,     \* audit_events of the four actions
          request, rollbacks

containmentVars == <<contained, stage, under, reverted, trail, request,
                     rollbacks>>
executionVars == <<stage, under>>

OnAccount(e) == Target[e] \in Account
Event == [action : {"contained", "restored"}, target : Account \cup Host,
          by : Execution, under : Correlation]
Idle == [at |-> "none"]
Verdict == {"SUCCEEDED", "FAILED"}

TypeOK ==
    /\ contained \subseteq Account \cup Host
    /\ stage \in [Execution -> {"none", "running", "sent", "recorded"} \cup Verdict]
    /\ under \in [Execution -> Correlation \cup {None}]
    /\ \A e \in Execution : stage[e] = "none" <=> under[e] = None
    /\ reverted \in [Execution -> Correlation \cup {None}]
    /\ \A e \in Execution : reverted[e] # None => stage[e] = "SUCCEEDED"
    /\ trail \subseteq Event
    /\ \A v \in trail : v.target = Target[v.by]
    /\ \A r \in Request : request[r].at \in
          {"none", "call", "send", "answered", "done", "failed"}
    /\ rollbacks \in 0 .. MaxRollbacks

Init ==
    /\ contained = {}
    /\ stage = [e \in Execution |-> "none"]
    /\ under = [e \in Execution |-> None]
    /\ reverted = [e \in Execution |-> None]
    /\ trail = {}
    /\ request = [r \in Request |-> Idle]
    /\ rollbacks = 0

\* What an action looks for before it acts: for an account under this
\* correlation and of this target, for a host under this correlation alone.
Already(action, e, c) ==
    \E v \in trail : /\ v.action = action /\ v.under = c
                     /\ OnAccount(e) => v.target = Target[e]

\* Mutant: a containment of any target will do.
Traced_AnyTarget(e) == \E v \in trail : v.action = "contained"

Traced(e) == \E v \in trail : v.action = "contained" /\ v.target = Target[e]

Record(action, e, c) ==
    trail' = trail \cup {[action |-> action, target |-> Target[e],
                          by |-> e, under |-> c]}

----------------------------------------------------------------------------
(* The execution.                                                          *)

Reach(e, from, to) == stage[e] = from /\ stage' = [stage EXCEPT ![e] = to]

Start(e, c) ==
    /\ Reach(e, "none", "running")
    /\ under' = [under EXCEPT ![e] = c]
    /\ UNCHANGED <<contained, reverted, trail, request, rollbacks>>

\* The procedure's conditions may leave the action out, other steps fail.
Finish(e) ==
    /\ \E from \in {"running", "recorded"}, to \in Verdict : Reach(e, from, to)
    /\ UNCHANGED <<contained, under, reverted, trail, request, rollbacks>>

\* account.disable, whole in one transaction.
Disable(e) ==
    /\ OnAccount(e)
    /\ Reach(e, "running", "recorded")
    /\ IF Already("contained", e, under[e]) THEN UNCHANGED <<contained, trail>>
       ELSE /\ contained' = contained \cup {Target[e]}
            /\ Record("contained", e, under[e])
    /\ UNCHANGED <<under, reverted, request, rollbacks>>

\* A worker dies after it; the action is retry safe and runs again.
Recover(e) ==
    /\ OnAccount(e)
    /\ Reach(e, "recorded", "running")
    /\ UNCHANGED <<contained, under, reverted, trail, request, rollbacks>>

\* host.isolate: the command, whose answer may be lost, then the record.
Isolate(e) ==
    /\ ~OnAccount(e)
    /\ \/ /\ Already("contained", e, under[e])
          /\ Reach(e, "running", "recorded")
          /\ UNCHANGED contained
       \/ /\ ~Already("contained", e, under[e])
          /\ \E to \in {"sent", "FAILED"} : Reach(e, "running", to)
          /\ contained' = contained \cup {Target[e]}
       \/ Reach(e, "running", "FAILED") /\ UNCHANGED contained
    /\ UNCHANGED <<under, reverted, trail, request, rollbacks>>

\* Whoever dies in between leaves an outcome nobody knows: no second try.
IsolateRecord(e) ==
    /\ \/ Reach(e, "sent", "recorded") /\ Record("contained", e, under[e])
       \/ Reach(e, "sent", "FAILED") /\ UNCHANGED trail
    /\ UNCHANGED <<contained, under, reverted, request, rollbacks>>

\* identity.update_user: an administrator, with nothing on this trail.
SwitchByHand(a) ==
    /\ contained' = IF a \in contained THEN contained \ {a} ELSE contained \cup {a}
    /\ UNCHANGED <<executionVars, reverted, trail, request, rollbacks>>

----------------------------------------------------------------------------
(* The rollback.                                                           *)

Step(r, from, to) ==
    /\ request[r].at = from
    /\ request' = [request EXCEPT ![r] = to]

Go(r, from, to) == Step(r, from, [request[r] EXCEPT !.at = to])

\* Mutant: executions that failed or still run are reverted too.
MayRollback_AnyStatus(e) == stage[e] # "none" /\ reverted[e] = None

MayRollback(e) == stage[e] = "SUCCEEDED" /\ reverted[e] = None

Rollback(r, e, c) ==
    /\ MayRollback(e)
    /\ rollbacks < MaxRollbacks
    /\ rollbacks' = rollbacks + 1
    /\ Step(r, "none", [at |-> "call", of |-> e, under |-> c])
    /\ UNCHANGED <<contained, executionVars, reverted, trail>>

\* account.enable, whole in one transaction.
Enable(r) ==
    LET q == request[r] IN
    /\ request[r] # Idle /\ OnAccount(q.of)
    /\ IF ~Traced(q.of) THEN Go(r, "call", "failed") /\ UNCHANGED <<contained, trail>>
       ELSE /\ Go(r, "call", "done")
            /\ IF Already("restored", q.of, q.under)
                 THEN UNCHANGED <<contained, trail>>
                 ELSE /\ contained' = contained \ {Target[q.of]}
                      /\ Record("restored", q.of, q.under)
    /\ UNCHANGED <<executionVars, reverted, rollbacks>>

\* host.restore: it looks at the trail, sends the command, records it.
RestoreCheck(r) ==
    LET q == request[r] IN
    /\ request[r] # Idle /\ ~OnAccount(q.of)
    /\ Go(r, "call", CASE ~Traced(q.of) -> "failed"
                       [] Traced(q.of) /\ Already("restored", q.of, q.under) -> "done"
                       [] OTHER -> "send")
    /\ UNCHANGED <<contained, executionVars, reverted, trail, rollbacks>>

RestoreSend(r) ==
    /\ \/ /\ \E to \in {"answered", "failed"} : Go(r, "send", to)
          /\ contained' = contained \ {Target[request[r].of]}
       \/ Go(r, "send", "failed") /\ UNCHANGED contained
    /\ UNCHANGED <<executionVars, reverted, trail, rollbacks>>

RestoreRecord(r) ==
    /\ Go(r, "answered", "done")
    /\ Record("restored", request[r].of, request[r].under)
    /\ UNCHANGED <<contained, executionVars, reverted, rollbacks>>

\* Mutant: the outcome of the reverse action is not looked at.
Conclude_AnyAnswer(r) ==
    /\ \E from \in {"done", "failed"} : Step(r, from, Idle)
    /\ reverted' = [reverted EXCEPT ![request[r].of] = request[r].under]
    /\ UNCHANGED <<contained, executionVars, trail, rollbacks>>

\* The second transaction.  It marks the execution; after a failure it raises,
\* and what it wrote about the failure is rolled back with it.
Conclude(r) ==
    /\ Step(r, "done", Idle)
    /\ reverted' = [reverted EXCEPT ![request[r].of] = request[r].under]
    /\ UNCHANGED <<contained, executionVars, trail, rollbacks>>

\* The action failed, or the process dies.
Abandon(r) ==
    /\ request[r] # Idle
    /\ request' = [request EXCEPT ![r] = Idle]
    /\ UNCHANGED <<contained, executionVars, reverted, trail, rollbacks>>

Next ==
    \/ \E e \in Execution :
          \/ \E c \in Correlation : Start(e, c)
          \/ Finish(e) \/ Disable(e) \/ Recover(e) \/ Isolate(e) \/ IsolateRecord(e)
    \/ \E a \in Account : SwitchByHand(a)
    \/ \E r \in Request, e \in Execution, c \in Correlation : Rollback(r, e, c)
    \/ \E r \in Request : \/ Enable(r) \/ RestoreCheck(r) \/ RestoreSend(r)
                          \/ RestoreRecord(r) \/ Conclude(r) \/ Abandon(r)

Spec == Init /\ [][Next]_containmentVars

----------------------------------------------------------------------------
(* An execution that reads as reverted names a reverse action that is on   *)
(* the trail, of its own account when it contained an account: an answer   *)
(* that is lost, a crash or a refusal never leaves the mark by itself.     *)
RollbackIsTrue == \A e \in Execution : reverted[e] # None =>
    Already("restored", e, reverted[e])

(* "An analyst can never restore a target that this platform did not       *)
(* contain in the first place" (rollback's docstring): whatever a rollback *)
(* gives back, an execution had contained, also when the execution it was  *)
(* asked for never came to its action or took another's for its own.       *)
RestoredWasContained == \A v \in trail : v.action = "restored" =>
    \E w \in trail : w.action = "contained" /\ w.target = v.target

(* Does not hold of the code, see README: a host that reads as given back  *)
(* has been given back.  host.restore takes any host's record under the    *)
(* same correlation for its own.                                           *)
RevertedHostIsRestored == \A e \in Execution : reverted[e] # None =>
    \E v \in trail : v.action = "restored" /\ v.target = Target[e]
=============================================================================
