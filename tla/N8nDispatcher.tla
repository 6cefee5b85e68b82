---------------------------- MODULE N8nDispatcher ----------------------------
(***************************************************************************)
(* An execution bound to n8n.  dispatch commits an attempt, posts it and   *)
(* commits what the answer was, in three steps between which the process   *)
(* may die; the workflow run it starts claims the execution and reports a  *)
(* result through two signed callbacks whose answers may be lost.          *)
(*                                                                         *)
(* Sources: playbooks/infrastructure/dispatcher.py, claim and update of    *)
(* playbooks/application/service.py.  The runs of n8n are external: each   *)
(* claims before it acts and reports once it has acted, and repeats a      *)
(* callback, nonce and all, whose answer it did not get.                   *)
(***************************************************************************)
EXTENDS PlaybookExecution

CONSTANTS Process,     \* the scheduler and the workers that call dispatch
          MaxAttempts  \* 10: the CHECK on attempt_number

ASSUME N8nAssumption == MaxAttempts \in Nat \ {0}

VARIABLES attempts,  \* rows of playbook_execution_attempts
          outcome,   \* playbook_execution_attempt_outcomes, by attempt
          sending,   \* the attempt a process has in flight, and where it is
          run,       \* the workflow runs of n8n, by attempt (dispatch_id)
          updates    \* runs whose adapter_event_id is in the updates table

n8nVars == <<attempts, outcome, sending, run, updates>>

\* One more than the table takes, so that a run over the budget would show.
Attempt == 1..MaxAttempts + 1

NotSending == [pc |-> "idle", attempt |-> 0]

N8nInit ==
    /\ attempts = 0
    /\ outcome = [a \in Attempt |-> "NONE"]
    /\ sending = [p \in Process |-> NotSending]
    /\ run = [a \in Attempt |-> "NONE"]
    /\ updates = {}

\* dispatch, up to the commit of the attempt.
Send(p) ==
    /\ sending[p] = NotSending
    /\ live /\ status = "QUEUED"
    /\ attempts' = attempts + 1
    /\ status' = "DISPATCHING"
    /\ sending' = [sending EXCEPT ![p] = [pc |-> "post", attempt |-> attempts + 1]]
    /\ UNCHANGED <<engine, adapter, overdue, live, row_lock, outcome, run, updates>>

\* The POST is answered with a valid acknowledgement, or with an error, or
\* with nothing in ten seconds.
PostAnswered(p) ==
    /\ sending[p].pc = "post"
    /\ \/ /\ run[sending[p].attempt] # "NONE"
          /\ sending' = [sending EXCEPT ![p].pc = "finish"]
       \/ sending' = [sending EXCEPT ![p].pc = "fail"]
    /\ UNCHANGED <<executionVars, attempts, outcome, run, updates>>

FinishDispatch(p) ==
    /\ sending[p].pc = "finish"
    /\ outcome' = [outcome EXCEPT ![sending[p].attempt] = "DISPATCHED"]
    /\ status' = IF status = "DISPATCHING" THEN "DISPATCHED" ELSE status
    /\ sending' = [sending EXCEPT ![p] = NotSending]
    /\ UNCHANGED <<engine, adapter, overdue, live, row_lock, attempts, run, updates>>

\* Mutant: attempt_number > 10.
Exhausted_OffByOne(a) == a > MaxAttempts

Exhausted(a) == a >= MaxAttempts

\* Mutant: the status is not looked at again after the POST.
AfterFailure_Unchecked(a) ==
    IF Exhausted(a) THEN "FAILED" ELSE "QUEUED"

AfterFailure(a) ==
    IF status # "DISPATCHING" THEN status
    ELSE IF Exhausted(a) THEN "FAILED"
    ELSE "QUEUED"

\* The run may have started all the same: the outcome is UNKNOWN, and a
\* claim that came meanwhile is left alone.
FailDispatch(p) ==
    /\ sending[p].pc = "fail"
    /\ outcome' = [outcome EXCEPT ![sending[p].attempt] = "UNKNOWN"]
    /\ status' = AfterFailure(sending[p].attempt)
    /\ sending' = [sending EXCEPT ![p] = NotSending]
    /\ UNCHANGED <<engine, adapter, overdue, live, row_lock, attempts, run, updates>>

\* The attempt stays DISPATCHING: no code picks it up before the deadline.
ProcessCrash(p) ==
    /\ sending[p] # NotSending
    /\ sending' = [sending EXCEPT ![p] = NotSending]
    /\ UNCHANGED <<executionVars, attempts, outcome, run, updates>>

-----------------------------------------------------------------------------
(* n8n.                                                                    *)

\* The request arrives, now or long after the sender gave up on it.
RunStarts(a) ==
    /\ a <= attempts /\ run[a] = "NONE"
    /\ run' = [run EXCEPT ![a] = "started"]
    /\ UNCHANGED <<executionVars, attempts, outcome, sending, updates>>

\* Mutant: whoever claims a RUNNING execution is told to go on.
ClaimRepeated_AnyRun(a) == status = "RUNNING"

ClaimRepeated(a) == status = "RUNNING" /\ adapter = a

Claimable == status \in {"DISPATCHING", "DISPATCHED"}

\* claim: the first run to present its dispatch takes the execution, if an
\* older attempt's so be it.  The answer may be lost.
Claim(a) ==
    /\ run[a] = "started"
    /\ Claimable
    /\ status' = "RUNNING"
    /\ adapter' = a
    /\ \/ run' = [run EXCEPT ![a] = "acting"]
       \/ UNCHANGED run
    /\ UNCHANGED <<engine, overdue, live, row_lock, attempts, outcome, sending, updates>>

\* A repeated claim is answered as before.  Any claim may be refused: its
\* binding was deactivated, its signature is old, or another run was first.
ClaimAnswered(a) ==
    /\ run[a] = "started"
    /\ \/ ClaimRepeated(a) /\ run' = [run EXCEPT ![a] = "acting"]
       \/ run' = [run EXCEPT ![a] = "refused"]
    /\ UNCHANGED <<executionVars, attempts, outcome, sending, updates>>

\* update: a result the transition table allows.  The answer may be lost.
Update(a, target) ==
    /\ run[a] = "acting" /\ a \notin updates
    /\ ValidTransition(target)
    /\ status' = target
    /\ updates' = updates \cup {a}
    /\ \/ run' = [run EXCEPT ![a] = "reported"]
       \/ UNCHANGED run
    /\ UNCHANGED <<engine, adapter, overdue, live, row_lock, attempts, outcome, sending>>

\* A callback seen before, one the table refuses, or a result that is not
\* what the released version promised: nothing is written.
UpdateAnswered(a) ==
    /\ run[a] = "acting"
    /\ run' = [run EXCEPT ![a] = "reported"]
    /\ UNCHANGED <<executionVars, attempts, outcome, sending, updates>>

CallbackStatus == {"SUCCEEDED", "FAILED", "TIMED_OUT", "CANCELLED"}

N8nNext ==
    \/ \E p \in Process : \/ Send(p)
                          \/ PostAnswered(p)
                          \/ FinishDispatch(p)
                          \/ FailDispatch(p)
                          \/ ProcessCrash(p)
    \/ \E a \in Attempt : \/ RunStarts(a)
                          \/ Claim(a)
                          \/ ClaimAnswered(a)
                          \/ \E t \in CallbackStatus : Update(a, t)
                          \/ UpdateAnswered(a)

-----------------------------------------------------------------------------
(* Properties.                                                             *)

N8nTypeOK ==
    /\ attempts \in 0..MaxAttempts
    /\ outcome \in [Attempt -> {"NONE", "DISPATCHED", "UNKNOWN"}]
    /\ sending \in [Process -> [pc : {"idle", "post", "finish", "fail"},
                                attempt : 0..MaxAttempts]]
    /\ run \in [Attempt -> {"NONE", "started", "acting", "refused", "reported"}]
    /\ updates \subseteq Attempt

\* PHASE_21 section 17, "claim: un efecto por ejecucion": of all the runs
\* that lost answers and repeated dispatches leave behind, one at most is
\* ever told to act, and the execution says which.
OneRunActs ==
    \A a \in Attempt : run[a] \in {"acting", "reported"} => adapter = a

\* An execution is put back in the queue only while the table still takes
\* another attempt of it.
QueuedHasAttemptLeft == status = "QUEUED" => attempts < MaxAttempts
=============================================================================
