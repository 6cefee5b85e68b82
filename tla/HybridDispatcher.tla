-------------------------- MODULE HybridDispatcher ---------------------------
(***************************************************************************)
(* The playbook runtime as it is deployed: the binding of an execution     *)
(* says which engine has it, for good, and both engines share the row, its *)
(* deadline and the scheduler's reconciliation.                            *)
(*                                                                         *)
(* Source: playbooks/infrastructure/hybrid_dispatcher.py and the loop of   *)
(* scheduler.py.                                                           *)
(***************************************************************************)
EXTENDS N8nDispatcher, NativeEngine

vars == <<executionVars, n8nVars, nativeVars>>

Init == ExecutionInit /\ N8nInit /\ NativeInit

Next ==
    \/ engine = "N8N" /\ N8nNext /\ UNCHANGED nativeVars
    \/ engine = "NATIVE" /\ NativeNext /\ UNCHANGED n8nVars
    \/ /\ DeadlinePasses \/ ReconcileTimeouts \/ SwitchSettings
       /\ UNCHANGED <<n8nVars, nativeVars>>

SafetySpec == Init /\ [][Next]_vars

\* Time passes, the scheduler loops, and a transaction that has the row
\* commits or dies.  No engine has to do anything.
Fairness ==
    /\ WF_vars(DeadlinePasses /\ UNCHANGED <<n8nVars, nativeVars>>)
    /\ SF_vars(ReconcileTimeouts /\ UNCHANGED <<n8nVars, nativeVars>>)
    /\ \A w \in Worker : WF_vars(RejectWrite(w) /\ UNCHANGED n8nVars)

Spec == SafetySpec /\ Fairness

-----------------------------------------------------------------------------
(* Properties.                                                             *)

\* The row and both engines have the shape the tables allow; a queued
\* execution in particular never comes to need an eleventh attempt.
TypeOK == ExecutionTypeOK /\ N8nTypeOK /\ NativeTypeOK

\* Whatever the engine, and whatever dies, answers late or twice, the
\* execution keeps its promise: one runner, none after the verdict, success
\* only of what ran, a final verdict, and a verdict by the deadline.
Lifecycle == INSTANCE ExecutionLifecycle WITH
                 Verdict <- TerminalStatus,
                 runner <- adapter,
                 verdict <- IF Ended THEN status ELSE "OPEN"

LifecycleImplemented == Lifecycle!Spec
=============================================================================
