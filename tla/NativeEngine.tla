---------------------------- MODULE NativeEngine -----------------------------
(***************************************************************************)
(* An execution bound to the native engine.  A worker takes an advisory    *)
(* lock, claims the execution or recovers it, and walks the playbook's     *)
(* graph, committing before and after each action; it may die anywhere,    *)
(* or lose the lock's connection and go on.  What it does next it decides  *)
(* from a copy of the progress it read when it began.                      *)
(*                                                                         *)
(* Sources: playbooks/infrastructure/native_engine.py, handle and dispatch *)
(* of hybrid_dispatcher.py, cancel of playbooks/application/service.py,    *)
(* the descriptors and execute of action_registry.py.  No registered       *)
(* action is cancellable, so an outcome never comes late after a cancel.   *)
(***************************************************************************)
EXTENDS PlaybookExecution, Sequences

CONSTANTS Order,      \* the steps as _topological_steps lists them
          Condition,  \* those that are conditions; the others are actions
          RetrySafe,  \* actions whose descriptor says retry_safe
          Edge,       \* [from, to, outcome] of the released artifact
          Worker,     \* processes that call dispatch, the scheduler included
          Scheduler,  \* it dispatches under a correlation id of its own
          MaxFaults,  \* bound on crashes and lost locks
          NoWorker, NoStep

Step == {Order[i] : i \in DOMAIN Order}
EdgeOutcome == {"TRUE", "FALSE", "SUCCESS", "FAILURE", "ALWAYS"}

ASSUME NativeAssumption ==
    /\ Order \in Seq(Step)
    /\ \A i, j \in DOMAIN Order : Order[i] = Order[j] => i = j
    /\ Condition \subseteq Step
    /\ RetrySafe \subseteq Step \ Condition
    /\ Edge \subseteq [from : Step, to : Step, outcome : EdgeOutcome]
    /\ \A e \in Edge : \E i, j \in DOMAIN Order :
          Order[i] = e.from /\ Order[j] = e.to /\ i < j
    /\ Scheduler \in Worker
    /\ MaxFaults \in Nat
    /\ NoWorker \notin Worker
    /\ NoStep \notin Step

VARIABLES event,     \* dispatch_requested has yet to be handled
          lease,     \* holder of the execution's advisory lock
          worker,    \* what each dispatch call is doing
          step,      \* status of each row of playbook_step_executions
          matched,   \* condition steps whose result says matched
          attempted, \* steps with a row of playbook_step_attempts
          reported,  \* playbook_step_attempt_outcomes, by step
          effect,    \* how often the action took effect outside
          effect_by, \* correlations under which its effect is on record
          faults

nativeVars == <<event, lease, worker, step, matched, attempted, reported,
                effect, effect_by, faults>>
stepVars == <<step, matched, attempted, reported>>
effectVars == <<effect, effect_by>>

ActiveStep == {"PENDING", "CLAIMED"}
TerminalStep == {"SUCCEEDED", "FAILED", "SKIPPED", "CANCELLED", "UNKNOWN"}
StepOutcome == {"NONE", "TRUE", "FALSE", "SUCCESS", "FAILURE", "SKIPPED"}
Result == {"NONE", "SUCCEEDED", "FAILED", "UNKNOWN"}

Nothing == [s \in Step |-> "NONE"]

\* One call of dispatch: where it is, and the locals it has there.
Dispatch == [pc : {"idle", "dispatch", "claim", "reject", "rejecting", "load", "walk",
                   "call", "record", "complete"},
             step : Step \cup {NoStep}, result : Result,
             verdict : {"NONE", "UNKNOWN"} \cup TerminalStatus,
             rows : SUBSET Step, outcomes : [Step -> StepOutcome]]

Idle == [pc |-> "idle", step |-> NoStep, result |-> "NONE", verdict |-> "NONE",
         rows |-> {}, outcomes |-> Nothing]

NativeInit ==
    /\ event = TRUE
    /\ lease = NoWorker
    /\ worker = [w \in Worker |-> Idle]
    /\ step = [s \in Step |-> "ABSENT"]
    /\ matched = {}
    /\ attempted = {}
    /\ reported = [s \in Step |-> "NONE"]
    /\ effect = [s \in Step |-> 0]
    /\ effect_by = [s \in Step |-> {}]
    /\ faults = 0

At(w, pc) == worker[w].pc = pc

Become(w, call) == worker' = [worker EXCEPT ![w] = call]

Goto(w, pc) == Become(w, [worker[w] EXCEPT !.pc = pc])

\* A NativeEngineRejected on its way to _complete_execution.
Conclude(w, verdict) ==
    Become(w, [worker[w] EXCEPT !.pc = "complete", !.verdict = verdict])

\* dispatch returns.  Unless it returned False or raised, the event it was
\* called for is acknowledged; otherwise it is retried or, in the end, parked.
Return(w, good) ==
    /\ Become(w, Idle)
    /\ lease' = IF lease = w THEN NoWorker ELSE lease
    /\ event' \in IF w = Scheduler THEN {event}
                  ELSE IF good THEN {FALSE}
                  ELSE {event, FALSE}

\* The consumer has the event; dispatch_pending has listed a QUEUED row.
Begin(w) ==
    /\ At(w, "idle")
    /\ IF w = Scheduler THEN live /\ status = "QUEUED" ELSE event
    /\ Goto(w, "dispatch")
    /\ UNCHANGED <<executionVars, event, lease, stepVars, effectVars, faults>>

\* pg_try_advisory_xact_lock: who does not get it goes away, and its event
\* with it.
AcquireLease(w) ==
    /\ At(w, "dispatch")
    /\ IF lease = NoWorker /\ status \in {"QUEUED", "RUNNING"}
         THEN lease' = w /\ Goto(w, "claim") /\ UNCHANGED event
         ELSE Return(w, TRUE)
    /\ UNCHANGED <<executionVars, stepVars, effectVars, faults>>

-----------------------------------------------------------------------------
(* _claim_execution, _reject_execution and _load_progress.                 *)

\* _guard_global: the verdict of its refusal, if it refuses.
Guard == IF ~live THEN "FAILED" ELSE IF overdue THEN "TIMED_OUT" ELSE "NONE"

ClaimExecution(w) ==
    /\ At(w, "claim") /\ ~row_lock
    /\ status \in {"QUEUED", "RUNNING"} /\ Guard = "NONE"
    /\ status' = "RUNNING"
    /\ adapter' = 1
    /\ step' = IF status = "QUEUED" THEN [s \in Step |-> "PENDING"] ELSE step
    /\ Goto(w, "load")
    /\ UNCHANGED <<engine, overdue, live, row_lock, event, lease, matched, attempted, reported,
                   effectVars, faults>>

\* SKIP LOCKED, or the execution is over.
ClaimNothing(w) ==
    /\ At(w, "claim")
    /\ row_lock \/ status \notin {"QUEUED", "RUNNING"}
    /\ Return(w, TRUE)
    /\ UNCHANGED <<executionVars, stepVars, effectVars, faults>>

\* The guard refuses; or the binding, the version, an action or a credential
\* is not what the execution was released with.
ClaimRefused(w) ==
    /\ At(w, "claim") /\ ~row_lock
    /\ status \in {"QUEUED", "RUNNING"}
    /\ Become(w, [worker[w] EXCEPT !.pc = "reject",
                     !.verdict = IF Guard = "NONE" THEN "FAILED" ELSE Guard])
    /\ UNCHANGED <<executionVars, event, lease, stepVars, effectVars, faults>>

\* The execution is locked; the rows of its steps are read without a lock
\* and written by key when the transaction ends.
RejectRead(w) ==
    /\ At(w, "reject") /\ ~row_lock
    /\ IF status \in {"QUEUED", "RUNNING"}
         THEN /\ row_lock' = TRUE
              /\ Become(w, [worker[w] EXCEPT !.pc = "rejecting",
                               !.rows = {s \in Step : step[s] \in ActiveStep}])
              /\ UNCHANGED <<event, lease>>
         ELSE UNCHANGED row_lock /\ Return(w, FALSE)
    /\ UNCHANGED <<engine, status, adapter, overdue, live, stepVars, effectVars, faults>>

RejectWrite(w) ==
    /\ At(w, "rejecting")
    /\ status' = worker[w].verdict
    /\ step' = [s \in Step |-> IF s \in worker[w].rows THEN "FAILED" ELSE step[s]]
    /\ row_lock' = FALSE
    /\ Return(w, FALSE)
    /\ UNCHANGED <<engine, adapter, overdue, live, matched, attempted, reported, effectVars, faults>>

\* Mutant: recovery takes a failed step for one it need not look at.
Persisted_FailureSkipped(s) ==
    CASE step[s] = "SUCCEEDED" /\ s \notin Condition -> "SUCCESS"
      [] step[s] = "SUCCEEDED" /\ s \in Condition \cap matched -> "TRUE"
      [] step[s] = "SUCCEEDED" /\ s \in Condition \ matched -> "FALSE"
      [] step[s] \in {"FAILED", "SKIPPED"} -> "SKIPPED"
      [] OTHER -> "NONE"

\* _progress_from_rows.
Persisted(s) ==
    CASE step[s] = "SUCCEEDED" /\ s \notin Condition -> "SUCCESS"
      [] step[s] = "SUCCEEDED" /\ s \in Condition \cap matched -> "TRUE"
      [] step[s] = "SUCCEEDED" /\ s \in Condition \ matched -> "FALSE"
      [] step[s] = "FAILED" -> "FAILURE"
      [] step[s] = "SKIPPED" -> "SKIPPED"
      [] OTHER -> "NONE"

\* A row UNKNOWN or CANCELLED stops the recovery, whichever comes first.
LoadProgress(w) ==
    /\ At(w, "load")
    /\ \/ /\ \A s \in Step : step[s] \notin {"UNKNOWN", "CANCELLED"}
          /\ Become(w, [worker[w] EXCEPT !.pc = "walk",
                           !.outcomes = [s \in Step |-> Persisted(s)]])
       \/ (\E s \in Step : step[s] = "UNKNOWN") /\ Conclude(w, "UNKNOWN")
       \/ (\E s \in Step : step[s] = "CANCELLED") /\ Conclude(w, "FAILED")
    /\ UNCHANGED <<executionVars, event, lease, stepVars, effectVars, faults>>

-----------------------------------------------------------------------------
(* The walk.                                                               *)

Done(w) == {i \in DOMAIN Order : worker[w].outcomes[Order[i]] # "NONE"}

\* The first step of the order without an outcome.
Current(w, s) ==
    \E i \in DOMAIN Order \ Done(w) :
        /\ s = Order[i]
        /\ \A j \in DOMAIN Order \ Done(w) : i <= j

\* _is_selected: any edge into the step that its source's outcome follows.
Selected(s, outcomes) ==
    LET incoming == {e \in Edge : e.to = s} IN
    \/ incoming = {}
    \/ \E e \in incoming :
          \/ outcomes[e.from] = e.outcome
          \/ e.outcome = "ALWAYS" /\ outcomes[e.from] # "NONE"

Visit(w, s) == At(w, "walk") /\ Current(w, s)

SelectedBy(w, s) == Selected(s, worker[w].outcomes)

Conclusion(s, outcome) ==
    CASE outcome \in {"TRUE", "FALSE", "SUCCESS"} -> "SUCCEEDED"
      [] outcome = "FAILURE" -> "FAILED"
      [] OTHER -> "SKIPPED"

\* The row of a step that was not yet decided gets its outcome; a row that
\* was is a state conflict (_locked_step).
Settle(w, s, outcome) ==
    IF step[s] \in TerminalStep
      THEN Conclude(w, "FAILED") /\ UNCHANGED <<step, matched>>
      ELSE /\ step' = [step EXCEPT ![s] = Conclusion(s, outcome)]
           /\ matched' = IF outcome = "TRUE" THEN matched \cup {s} ELSE matched
           /\ Become(w, [worker[w] EXCEPT !.outcomes[s] = outcome])

\* _skip_step looks at the row of the step only.
SkipStep(w, s) ==
    /\ Visit(w, s) /\ ~SelectedBy(w, s)
    /\ Settle(w, s, "SKIPPED")
    /\ UNCHANGED <<executionVars, event, lease, attempted, reported, effectVars, faults>>

StepTooLate(w, s) ==
    /\ Visit(w, s) /\ SelectedBy(w, s) /\ overdue
    /\ Conclude(w, "TIMED_OUT")
    /\ UNCHANGED <<executionVars, event, lease, stepVars, effectVars, faults>>

\* The condition reads inputs and outputs that may say either.
CompleteCondition(w, s) ==
    /\ Visit(w, s) /\ SelectedBy(w, s) /\ ~overdue
    /\ s \in Condition
    /\ \E outcome \in {"TRUE", "FALSE"} : Settle(w, s, outcome)
    /\ UNCHANGED <<executionVars, event, lease, attempted, reported, effectVars, faults>>

BeginAction(w, s) ==
    /\ Visit(w, s) /\ SelectedBy(w, s) /\ ~overdue
    /\ s \notin Condition /\ ~row_lock

ActionReady(s) == status = "RUNNING" /\ Guard = "NONE" /\ step[s] \notin TerminalStep

\* _execute_action commits the attempt and then calls the connector.
ClaimStep(w, s) ==
    /\ BeginAction(w, s) /\ ActionReady(s)
    /\ s \notin attempted
    /\ attempted' = attempted \cup {s}
    /\ step' = [step EXCEPT ![s] = "CLAIMED"]
    /\ Become(w, [worker[w] EXCEPT !.pc = "call", !.step = s])
    /\ UNCHANGED <<executionVars, event, lease, matched, reported, effectVars, faults>>

\* Mutant: every attempt without an outcome is repeated.
Repeatable_Always(s) == reported[s] = "NONE"

Repeatable(s) == reported[s] = "NONE" /\ s \in RetrySafe

RepeatStep(w, s) ==
    /\ BeginAction(w, s) /\ ActionReady(s)
    /\ s \in attempted /\ Repeatable(s)
    /\ Become(w, [worker[w] EXCEPT !.pc = "call", !.step = s])
    /\ UNCHANGED <<executionVars, event, lease, stepVars, effectVars, faults>>

\* The exception that reports the unknown outcome undoes the UPDATE that
\* recorded it on the step.
OutcomeUnknown(w, s) ==
    /\ BeginAction(w, s) /\ ActionReady(s)
    /\ s \in attempted /\ ~Repeatable(s)
    /\ Conclude(w, IF reported[s] = "NONE" THEN "UNKNOWN" ELSE "FAILED")
    /\ UNCHANGED <<executionVars, event, lease, stepVars, effectVars, faults>>

\* The execution or the step moved on, the guard refuses, or the binding of
\* the action is gone.
ActionRefused(w, s) ==
    /\ BeginAction(w, s)
    /\ Conclude(w, IF status = "RUNNING" /\ Guard # "NONE" THEN Guard ELSE "FAILED")
    /\ UNCHANGED <<executionVars, event, lease, stepVars, effectVars, faults>>

-----------------------------------------------------------------------------
(* The connector and what becomes of its answer.                           *)

Correlation(w) == IF w = Scheduler THEN "sweep" ELSE "event"

\* A retry-safe action looks in the audit trail for its own correlation id.
OnRecord(w, s) == s \in RetrySafe /\ Correlation(w) \in effect_by[s]

TakeEffect(w, s) ==
    /\ effect' = [effect EXCEPT ![s] = @ + 1]
    /\ effect_by' = [effect_by EXCEPT ![s] = @ \cup {Correlation(w)}]

\* An unknown outcome is what a transport error of an external call leaves.
CallConnector(w) ==
    LET s == worker[w].step IN
    /\ At(w, "call")
    /\ \E result \in {"SUCCEEDED", "FAILED", "UNKNOWN"} :
        /\ result = "UNKNOWN" => s \notin RetrySafe
        /\ OnRecord(w, s) => result = "SUCCEEDED"
        /\ \/ result # "FAILED" /\ ~OnRecord(w, s) /\ TakeEffect(w, s)
           \/ result = "SUCCEEDED" /\ OnRecord(w, s) /\ UNCHANGED effectVars
           \/ result \in {"FAILED", "UNKNOWN"} /\ UNCHANGED effectVars
        /\ Become(w, [worker[w] EXCEPT !.pc = "record", !.result = result])
    /\ UNCHANGED <<executionVars, event, lease, stepVars, faults>>

\* The credential cannot be resolved any more: the step stays CLAIMED.
CredentialUnavailable(w) ==
    /\ At(w, "call")
    /\ Conclude(w, "FAILED")
    /\ UNCHANGED <<executionVars, event, lease, stepVars, effectVars, faults>>

\* The outcome row and the step's status commit together.
RecordOutcome(w) ==
    LET s == worker[w].step
        result == worker[w].result IN
    /\ At(w, "record")
    /\ IF step[s] \in TerminalStep
         THEN Conclude(w, "FAILED") /\ UNCHANGED stepVars
         ELSE /\ reported' = [reported EXCEPT ![s] = result]
              /\ step' = [step EXCEPT ![s] = result]
              /\ IF result = "UNKNOWN"
                   THEN Conclude(w, "UNKNOWN")
                   ELSE Become(w, [worker[w] EXCEPT
                          !.pc = "walk", !.step = NoStep, !.result = "NONE",
                          !.outcomes[s] = IF result = "SUCCEEDED" THEN "SUCCESS" ELSE "FAILURE"])
              /\ UNCHANGED <<matched, attempted>>
    /\ UNCHANGED <<executionVars, event, lease, effectVars, faults>>

WalkEnds(w) ==
    /\ At(w, "walk")
    /\ Done(w) = DOMAIN Order
    /\ Conclude(w, IF \E s \in Step : worker[w].outcomes[s] = "FAILURE"
                   THEN "FAILED" ELSE "SUCCEEDED")
    /\ UNCHANGED <<executionVars, event, lease, stepVars, effectVars, faults>>

\* Mutant: the verdict is written whatever the row says by now.
StillOpen_Always == TRUE

StillOpen == ~Ended

\* _complete_execution.  It always sets completed_at, which an UNKNOWN
\* execution may not have: that UPDATE fails and the exception leaves
\* dispatch.
CompleteExecution(w) ==
    LET verdict == worker[w].verdict IN
    /\ At(w, "complete") /\ ~row_lock
    /\ status' = IF StillOpen /\ Storable(verdict, TRUE) THEN verdict ELSE status
    /\ Return(w, verdict = "SUCCEEDED")
    /\ UNCHANGED <<engine, adapter, overdue, live, row_lock, stepVars, effectVars, faults>>

-----------------------------------------------------------------------------
(* The operator, and what goes wrong.                                      *)

\* cancel: no action of the execution may be under way or still to come.
Cancel ==
    /\ ~row_lock
    /\ ValidTransition("CANCELLED")
    /\ \A s \in Step : step[s] \in ActiveStep => s \in Condition
    /\ status' = "CANCELLED"
    /\ step' = [s \in Step |-> IF step[s] \in ActiveStep THEN "CANCELLED" ELSE step[s]]
    /\ UNCHANGED <<engine, adapter, overdue, live, row_lock, event, lease, worker, matched, attempted,
                   reported, effectVars, faults>>

SpendFault == faults < MaxFaults /\ faults' = faults + 1

\* The process dies; its locks and its open transaction die with it.
Crash(w) ==
    /\ ~At(w, "idle")
    /\ SpendFault
    /\ Become(w, Idle)
    /\ lease' = IF lease = w THEN NoWorker ELSE lease
    /\ row_lock' = (row_lock /\ ~At(w, "rejecting"))
    /\ UNCHANGED <<engine, status, adapter, overdue, live, event, stepVars, effectVars>>

\* The connection that holds the advisory lock is lost, the worker is not.
LeaseLost ==
    /\ lease # NoWorker
    /\ SpendFault
    /\ lease' = NoWorker
    /\ UNCHANGED <<executionVars, event, worker, stepVars, effectVars>>

WorkerStep(w) ==
    \/ Begin(w) \/ AcquireLease(w)
    \/ ClaimExecution(w) \/ ClaimNothing(w) \/ ClaimRefused(w)
    \/ RejectRead(w) \/ RejectWrite(w) \/ LoadProgress(w)
    \/ \E s \in Step : \/ SkipStep(w, s) \/ StepTooLate(w, s) \/ CompleteCondition(w, s)
                       \/ ClaimStep(w, s) \/ RepeatStep(w, s)
                       \/ OutcomeUnknown(w, s) \/ ActionRefused(w, s)
    \/ CallConnector(w) \/ CredentialUnavailable(w) \/ RecordOutcome(w)
    \/ WalkEnds(w) \/ CompleteExecution(w)

NativeNext ==
    \/ \E w \in Worker : WorkerStep(w) \/ Crash(w)
    \/ Cancel
    \/ LeaseLost

-----------------------------------------------------------------------------
(* Properties.                                                             *)

NativeTypeOK ==
    /\ event \in BOOLEAN
    /\ lease \in Worker \cup {NoWorker}
    /\ worker \in [Worker -> Dispatch]
    /\ step \in [Step -> {"ABSENT"} \cup ActiveStep \cup TerminalStep]
    /\ matched \subseteq Condition
    /\ attempted \subseteq Step \ Condition
    /\ reported \in [Step -> Result]
    /\ effect \in [Step -> Nat]
    /\ effect_by \in [Step -> SUBSET {"event", "sweep"}]
    /\ faults \in 0..MaxFaults

\* What the rows say each step came to.
RowOutcomes == [s \in Step |-> Persisted(s)]

\* A native execution that says SUCCEEDED tells the truth about every step: the
\* steps its graph selected, and only they, were carried out, each with an
\* effect and an outcome on record, and none of them failed.
SuccessIsTrue ==
    engine = "NATIVE" /\ status = "SUCCEEDED" =>
        \A s \in Step :
            IF Selected(s, RowOutcomes)
              THEN /\ step[s] = "SUCCEEDED"
                   /\ s \notin Condition => effect[s] > 0 /\ reported[s] = "SUCCEEDED"
              ELSE step[s] = "SKIPPED" /\ effect[s] = 0

\* PHASE_21A section 4.4: an action is repeated only if its descriptor says
\* so.  The others take effect once at most, whoever crashes between the
\* attempt, the call and the outcome.
ExternalEffectOnce == \A s \in Step \ RetrySafe : effect[s] <= 1

\* test_native_action_registry.py: replaying an internal, idempotent action
\* "cannot double-apply" its effect.  The connector recognises its own work
\* by the correlation id of the dispatch, and the scheduler's is not that of
\* the event that recovers the execution after it.
ReplayDoesNotDoubleApply == \A s \in RetrySafe : effect[s] <= 1

\* PRODUCTION_READINESS_INCREMENT_40: the runner "propagates the same error
\* to the execution".  A worker that ends its walk on an unknown outcome, and
\* does not crash, leaves an open execution UNKNOWN.
UnknownPropagates ==
    [][\A w \in Worker :
          (/\ At(w, "complete") /\ worker[w].verdict = "UNKNOWN" /\ ~Ended
           /\ At(w, "idle")' /\ faults' = faults)
             => status' = "UNKNOWN"]_<<executionVars, nativeVars>>
=============================================================================
