------------------------- MODULE PlaybookExecution ---------------------------
(***************************************************************************)
(* One row of playbook_executions and what happens to it whichever engine  *)
(* it is bound to: the transition table, the CHECK that ties completed_at  *)
(* to the terminal statuses, the deadline and the scheduler's              *)
(* reconciliation of it.  N8nDispatcher and NativeEngine add the engines.  *)
(*                                                                         *)
(* Sources: playbooks/domain/models.py, migration 0016 and                 *)
(* reconcile_timeouts of playbooks/infrastructure/dispatcher.py.           *)
(***************************************************************************)
EXTENDS Naturals, FiniteSets

VARIABLES engine,   \* engine_type of the execution's binding, for good
          status,   \* playbook_executions.status
          adapter,  \* adapter_execution_id: 0 while NULL
          overdue,  \* deadline_at has passed
          live,     \* the feature flags are on and the kill switch is off
          row_lock  \* a transaction between its FOR UPDATE and its commit

executionVars == <<engine, status, adapter, overdue, live, row_lock>>

ExecutionStatus == {"QUEUED", "DISPATCHING", "DISPATCHED", "RUNNING", "SUCCEEDED",
                    "FAILED", "TIMED_OUT", "CANCELLED", "UNKNOWN"}

TerminalStatus == {"SUCCEEDED", "FAILED", "TIMED_OUT", "CANCELLED"}

Ended == status \in TerminalStatus

\* ALLOWED_TRANSITIONS; nothing leaves a terminal status.
AllowedTransitions ==
    [s \in ExecutionStatus |->
        CASE s = "QUEUED" -> {"DISPATCHING", "CANCELLED", "TIMED_OUT"}
          [] s = "DISPATCHING" -> {"DISPATCHED", "FAILED", "UNKNOWN", "TIMED_OUT"}
          [] s = "DISPATCHED" -> {"RUNNING", "FAILED", "TIMED_OUT", "CANCELLED", "UNKNOWN"}
          [] s = "RUNNING" -> {"SUCCEEDED", "FAILED", "TIMED_OUT", "UNKNOWN", "CANCELLED"}
          [] s = "UNKNOWN" -> {"RUNNING", "SUCCEEDED", "FAILED", "TIMED_OUT", "CANCELLED"}
          [] OTHER -> {}]

ValidTransition(target) == target \in AllowedTransitions[status]

\* ck_playbook_execution_terminal: a row has a completed_at exactly when its
\* status is terminal.  An UPDATE that breaks it undoes its transaction.
Storable(target, completed) == completed <=> target \in TerminalStatus

Engine == {"NATIVE", "N8N"}

ExecutionInit ==
    /\ engine \in Engine
    /\ status = "QUEUED"
    /\ adapter = 0
    /\ overdue = FALSE
    /\ live \in BOOLEAN
    /\ row_lock = FALSE

DeadlinePasses ==
    /\ ~overdue
    /\ overdue' = TRUE
    /\ UNCHANGED <<engine, status, adapter, live, row_lock>>

\* Every status that is not terminal, UNKNOWN included, and SKIP LOCKED.
ReconcileTimeouts ==
    /\ ~Ended /\ overdue /\ ~row_lock
    /\ status' = "TIMED_OUT"
    /\ UNCHANGED <<engine, adapter, overdue, live, row_lock>>

\* The settings are the environment of the processes: a redeployment.
SwitchSettings ==
    /\ live' = ~live
    /\ UNCHANGED <<engine, status, adapter, overdue, row_lock>>

ExecutionTypeOK ==
    /\ engine \in Engine
    /\ status \in ExecutionStatus
    /\ adapter \in Nat
    /\ overdue \in BOOLEAN
    /\ live \in BOOLEAN
    /\ row_lock \in BOOLEAN
=============================================================================
