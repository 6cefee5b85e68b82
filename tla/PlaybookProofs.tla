---------------------------- MODULE PlaybookProofs -----------------------------
(***************************************************************************)
(* Proofs about HybridDispatcher, for any graph, retry-safe actions,       *)
(* processes, workers, attempt budget and number of faults.                *)
(***************************************************************************)
EXTENDS HybridDispatcher, TLAPS

\* Each engine leaves the other's state as it began.
EngineOK ==
    /\ engine = "NATIVE" =>
          /\ attempts = 0
          /\ \A p \in Process : sending[p] = NotSending
          /\ \A a \in Attempt : run[a] = "NONE"
    /\ engine = "N8N" => \A w \in Worker : worker[w].pc = "idle"

\* Nobody has claimed before RUNNING, one process at a time has an attempt
\* in flight, and while the status is DISPATCHING it is the last.
DispatchOK ==
    /\ status \in {"QUEUED", "DISPATCHING", "DISPATCHED"} => adapter = 0
    /\ \A p \in Process : sending[p].pc # "idle" =>
          /\ sending[p].attempt \in 1..attempts
          /\ status # "QUEUED"
          /\ status = "DISPATCHING" => sending[p].attempt = attempts
          /\ \A q \in Process : sending[q].pc # "idle" => p = q
    /\ QueuedHasAttemptLeft
    /\ OneRunActs

\* A call about to write has something to write: a rejection its verdict, an
\* action its step and its result.
Ready(c) ==
    /\ c.pc \in {"reject", "rejecting"} => c.verdict \in {"FAILED", "TIMED_OUT"}
    /\ c.pc \in {"call", "record"} => c.step \in Step
    /\ c.pc = "record" => c.result # "NONE"

CallsReady == \A w \in Worker : Ready(worker[w])

TypedInv == TypeOK /\ EngineOK /\ DispatchOK /\ CallsReady

LEMMA IdleType == Idle \in Dispatch
BY NativeAssumption DEF Idle, Dispatch, Result, StepOutcome, Nothing

LEMMA InitType == Init => TypeOK
<1> SUFFICES ASSUME Init
             PROVE  TypeOK
  OBVIOUS
<1>1. ExecutionTypeOK
  BY DEF Init, ExecutionInit, ExecutionTypeOK, ExecutionStatus, Engine
<1>2. N8nTypeOK
  BY N8nAssumption DEF Init, N8nInit, N8nTypeOK, NotSending
<1>3. NativeTypeOK
  BY NativeAssumption, IdleType
     DEF Init, NativeInit, NativeTypeOK, ActiveStep, TerminalStep, Result
<1> QED
  BY <1>1, <1>2, <1>3 DEF TypeOK

\* What a step of a worker does to the calls of all of them.
LEMMA BecomeCall ==
    ASSUME worker \in [Worker -> Dispatch], NEW w \in Worker, NEW c \in Dispatch, Become(w, c)
    PROVE  /\ worker' \in [Worker -> Dispatch]
           /\ worker'[w] = c
           /\ \A v \in Worker : v # w => worker'[v] = worker[v]
BY DEF Become

LEMMA GotoCall ==
    ASSUME worker \in [Worker -> Dispatch], NEW w \in Worker,
           NEW pc \in {"dispatch", "claim", "load", "walk"}, Goto(w, pc)
    PROVE  /\ worker' \in [Worker -> Dispatch]
           /\ worker'[w].pc = pc
           /\ worker'[w].outcomes = worker[w].outcomes
           /\ \A v \in Worker : v # w => worker'[v] = worker[v]
<1> DEFINE c == [worker[w] EXCEPT !.pc = pc]
<1>1. c \in Dispatch /\ c.pc = pc /\ c.outcomes = worker[w].outcomes
  BY DEF Dispatch
<1> QED
  BY <1>1, BecomeCall DEF Goto

LEMMA ConcludeCall ==
    ASSUME worker \in [Worker -> Dispatch], NEW w \in Worker,
           NEW verdict \in {"NONE", "UNKNOWN"} \cup TerminalStatus, Conclude(w, verdict)
    PROVE  /\ worker' \in [Worker -> Dispatch]
           /\ worker'[w].pc = "complete"
           /\ worker'[w].verdict = verdict
           /\ worker'[w].outcomes = worker[w].outcomes
           /\ \A v \in Worker : v # w => worker'[v] = worker[v]
<1> DEFINE c == [worker[w] EXCEPT !.pc = "complete", !.verdict = verdict]
<1>1. /\ c \in Dispatch /\ c.pc = "complete" /\ c.verdict = verdict
      /\ c.outcomes = worker[w].outcomes
  BY DEF Dispatch
<1> QED
  BY <1>1, BecomeCall DEF Conclude

LEMMA ReturnCall ==
    ASSUME NativeTypeOK, NEW w \in Worker, NEW good \in BOOLEAN, Return(w, good)
    PROVE  /\ worker' \in [Worker -> Dispatch]
           /\ worker'[w].pc = "idle"
           /\ worker'[w].outcomes = Nothing
           /\ \A v \in Worker : v # w => worker'[v] = worker[v]
           /\ lease' \in Worker \cup {NoWorker}
           /\ event' \in BOOLEAN
<1>1. /\ worker' \in [Worker -> Dispatch]
      /\ worker'[w] = Idle
      /\ \A v \in Worker : v # w => worker'[v] = worker[v]
  <2>1. Become(w, Idle)
    BY DEF Return
  <2>2. worker \in [Worker -> Dispatch]
    BY DEF NativeTypeOK
  <2> QED
    BY <2>1, <2>2, IdleType, BecomeCall
<1>2. event' = event \/ event' = FALSE
  BY DEF Return
<1>3. event' \in BOOLEAN
  BY <1>2, Zenon DEF NativeTypeOK
<1>4. lease' \in Worker \cup {NoWorker}
  BY DEF Return, NativeTypeOK
<1> QED
  BY <1>1, <1>3, <1>4 DEF Idle

Recording(w, r) == Become(w, [worker[w] EXCEPT !.pc = "record", !.result = r])

LEMMA RecordCall ==
    ASSUME worker \in [Worker -> Dispatch], NEW w \in Worker, NEW r \in Result, Recording(w, r)
    PROVE  /\ worker' \in [Worker -> Dispatch]
           /\ worker'[w].pc = "record"
           /\ worker'[w].step = worker[w].step
           /\ worker'[w].result = r
           /\ worker'[w].outcomes = worker[w].outcomes
           /\ \A v \in Worker : v # w => worker'[v] = worker[v]
<1> DEFINE d == [worker[w] EXCEPT !.pc = "record", !.result = r]
<1>1. /\ d \in Dispatch /\ d.pc = "record" /\ d.step = worker[w].step /\ d.result = r
      /\ d.outcomes = worker[w].outcomes
  BY DEF Dispatch
<1> QED
  BY <1>1, BecomeCall DEF Recording

WalkingOn(w, s, o) ==
    Become(w, [worker[w] EXCEPT !.pc = "walk", !.step = NoStep, !.result = "NONE", !.outcomes[s] = o])

LEMMA WalkOnCall ==
    ASSUME worker \in [Worker -> Dispatch], NEW w \in Worker, NEW s \in Step,
           NEW o \in StepOutcome, WalkingOn(w, s, o)
    PROVE  /\ worker' \in [Worker -> Dispatch]
           /\ worker'[w].pc = "walk"
           /\ worker'[w].outcomes = [worker[w].outcomes EXCEPT ![s] = o]
           /\ \A v \in Worker : v # w => worker'[v] = worker[v]
<1> DEFINE d == [worker[w] EXCEPT !.pc = "walk", !.step = NoStep, !.result = "NONE", !.outcomes[s] = o]
<1>0. worker[w] \in Dispatch /\ worker[w].outcomes \in [Step -> StepOutcome]
  BY DEF Dispatch
<1>1. /\ d \in Dispatch /\ d.pc = "walk"
      /\ d.outcomes = [worker[w].outcomes EXCEPT ![s] = o]
  BY <1>0 DEF Dispatch, Result
<1> QED
  BY <1>1, BecomeCall DEF WalkingOn

Refusing(w, v) == Become(w, [worker[w] EXCEPT !.pc = "reject", !.verdict = v])

LEMMA RejectCall ==
    ASSUME worker \in [Worker -> Dispatch], NEW w \in Worker,
           NEW v \in {"FAILED", "TIMED_OUT"}, Refusing(w, v)
    PROVE  /\ worker' \in [Worker -> Dispatch]
           /\ worker'[w].pc = "reject"
           /\ worker'[w].verdict = v
           /\ worker'[w].outcomes = worker[w].outcomes
           /\ \A u \in Worker : u # w => worker'[u] = worker[u]
<1> DEFINE d == [worker[w] EXCEPT !.pc = "reject", !.verdict = v]
<1>1. v \in {"NONE", "UNKNOWN"} \cup TerminalStatus
  BY DEF TerminalStatus
<1>2. /\ d \in Dispatch /\ d.pc = "reject" /\ d.verdict = v
      /\ d.outcomes = worker[w].outcomes
  BY <1>1 DEF Dispatch
<1> QED
  BY <1>2, BecomeCall DEF Refusing

LEMMA GuardType == Guard \in {"NONE", "FAILED", "TIMED_OUT"}
BY DEF Guard

LEMMA ClaimRefusedCall ==
    ASSUME NEW w \in Worker, ClaimRefused(w)
    PROVE  \E v \in {"FAILED", "TIMED_OUT"} : Refusing(w, v)
<1>1. (IF Guard = "NONE" THEN "FAILED" ELSE Guard) \in {"FAILED", "TIMED_OUT"}
  BY GuardType
<1> QED
  BY <1>1 DEF ClaimRefused, Refusing

LEMMA PersistedType ==
    ASSUME NEW s \in Step
    PROVE  Persisted(s) \in StepOutcome
BY DEF Persisted, StepOutcome

Loading(w) == Become(w, [worker[w] EXCEPT !.pc = "walk", !.outcomes = RowOutcomes])

LEMMA LoadCall ==
    ASSUME worker \in [Worker -> Dispatch], NEW w \in Worker, Loading(w)
    PROVE  /\ worker' \in [Worker -> Dispatch]
           /\ worker'[w].pc = "walk"
           /\ worker'[w].outcomes = RowOutcomes
           /\ \A u \in Worker : u # w => worker'[u] = worker[u]
<1> DEFINE d == [worker[w] EXCEPT !.pc = "walk", !.outcomes = RowOutcomes]
<1>1. RowOutcomes \in [Step -> StepOutcome]
  BY PersistedType DEF RowOutcomes
<1>2. d \in Dispatch /\ d.pc = "walk" /\ d.outcomes = RowOutcomes
  BY <1>1 DEF Dispatch
<1> QED
  BY <1>2, BecomeCall DEF Loading

\* A step of worker w leaves its call well formed, and the others alone.
Moves(w) ==
    /\ worker' \in [Worker -> Dispatch]
    /\ Ready(worker'[w])
    /\ \A v \in Worker : v # w => worker'[v] = worker[v]

LEMMA SettleType ==
    ASSUME NativeTypeOK, NEW w \in Worker, NEW s \in Step,
           NEW out \in {"TRUE", "FALSE", "SKIPPED"}, out # "SKIPPED" => s \in Condition,
           worker[w].pc = "walk", Settle(w, s, out)
    PROVE  /\ Moves(w)
           /\ step' \in [Step -> {"ABSENT"} \cup ActiveStep \cup TerminalStep]
           /\ matched' \subseteq Condition
<1>1. CASE step[s] \in TerminalStep
  BY <1>1, ConcludeCall DEF Settle, NativeTypeOK, Moves, Ready, TerminalStatus
<1>2. CASE step[s] \notin TerminalStep
  <2>1. Conclusion(s, out) \in TerminalStep /\ out \in StepOutcome
    BY DEF Conclusion, TerminalStep, StepOutcome
  <2>2. Moves(w)
    <3> DEFINE c == [worker[w] EXCEPT !.outcomes[s] = out]
    <3>0. worker[w] \in Dispatch
      BY DEF NativeTypeOK
    <3>1. c \in Dispatch /\ c.pc = "walk"
      BY <2>1, <3>0 DEF Dispatch
    <3> QED
      BY <1>2, <3>1, BecomeCall DEF Settle, NativeTypeOK, Moves, Ready
  <2> QED
    BY <1>2, <2>1, <2>2 DEF Settle, NativeTypeOK
<1> QED
  BY <1>1, <1>2

LEMMA CallType ==
    ASSUME NativeTypeOK, NEW w \in Worker, NEW s \in Step,
           Become(w, [worker[w] EXCEPT !.pc = "call", !.step = s])
    PROVE  Moves(w)
<1> DEFINE c == [worker[w] EXCEPT !.pc = "call", !.step = s]
<1>0. worker \in [Worker -> Dispatch] /\ Become(w, c)
  BY DEF NativeTypeOK
<1>1. c \in Dispatch /\ c.pc = "call" /\ c.step = s
  BY <1>0 DEF Dispatch
<1> HIDE DEF c
<1> QED
  BY <1>0, <1>1, BecomeCall DEF Moves, Ready

\* The steps of a worker that leave the execution and the steps' rows alone.
LEMMA QuietStep ==
    ASSUME TypeOK, CallsReady, NEW w \in Worker,
           \/ Begin(w) \/ AcquireLease(w) \/ ClaimNothing(w) \/ ClaimRefused(w)
           \/ LoadProgress(w) \/ CredentialUnavailable(w) \/ WalkEnds(w)
           \/ \E s \in Step : \/ StepTooLate(w, s) \/ RepeatStep(w, s)
                              \/ OutcomeUnknown(w, s) \/ ActionRefused(w, s)
    PROVE  Moves(w) /\ ExecutionTypeOK' /\ NativeTypeOK'
<1> USE DEF TypeOK
<1>1. ASSUME Begin(w)
      PROVE  Moves(w) /\ ExecutionTypeOK' /\ NativeTypeOK'
  BY <1>1, GotoCall DEF Begin, Moves, Ready, NativeTypeOK, ExecutionTypeOK, executionVars, stepVars, effectVars
<1>2. ASSUME AcquireLease(w)
      PROVE  Moves(w) /\ ExecutionTypeOK' /\ NativeTypeOK'
  BY <1>2, GotoCall, ReturnCall
     DEF AcquireLease, Moves, Ready, NativeTypeOK, ExecutionTypeOK, executionVars, stepVars, effectVars
<1>3. ASSUME ClaimNothing(w)
      PROVE  Moves(w) /\ ExecutionTypeOK' /\ NativeTypeOK'
  BY <1>3, ReturnCall
     DEF ClaimNothing, Moves, Ready, NativeTypeOK, ExecutionTypeOK, executionVars, stepVars, effectVars
<1>4. ASSUME ClaimRefused(w)
      PROVE  Moves(w) /\ ExecutionTypeOK' /\ NativeTypeOK'
  <2>1. PICK v \in {"FAILED", "TIMED_OUT"} : Refusing(w, v)
    BY <1>4, ClaimRefusedCall
  <2>2. Moves(w)
    BY <2>1, RejectCall DEF NativeTypeOK, Moves, Ready
  <2> QED
    BY <1>4, <2>2 DEF ClaimRefused, Moves, Ready, NativeTypeOK, ExecutionTypeOK, executionVars, stepVars, effectVars
<1>5. ASSUME LoadProgress(w)
      PROVE  Moves(w) /\ ExecutionTypeOK' /\ NativeTypeOK'
  <2>2. Loading(w) \/ Conclude(w, "UNKNOWN") \/ Conclude(w, "FAILED")
    BY <1>5, Zenon DEF LoadProgress, Loading, RowOutcomes
  <2>3. worker \in [Worker -> Dispatch]
    BY DEF NativeTypeOK
  <2>4. Loading(w) => Moves(w)
    BY <2>3, LoadCall DEF Moves, Ready
  <2>5. Conclude(w, "UNKNOWN") \/ Conclude(w, "FAILED") => Moves(w)
    BY <2>3, ConcludeCall DEF Moves, Ready, TerminalStatus
  <2>6. Moves(w)
    BY <2>2, <2>4, <2>5
  <2> QED
    BY <1>5, <2>6 DEF LoadProgress, Moves, Ready, NativeTypeOK, ExecutionTypeOK, executionVars, stepVars, effectVars
<1>6. ASSUME CredentialUnavailable(w) \/ WalkEnds(w)
      PROVE  Moves(w) /\ ExecutionTypeOK' /\ NativeTypeOK'
  BY <1>6, ConcludeCall
     DEF CredentialUnavailable, WalkEnds, Moves, Ready, NativeTypeOK, ExecutionTypeOK, executionVars,
         stepVars, effectVars, TerminalStatus
<1>7. ASSUME NEW s \in Step, StepTooLate(w, s) \/ OutcomeUnknown(w, s) \/ ActionRefused(w, s)
      PROVE  Moves(w) /\ ExecutionTypeOK' /\ NativeTypeOK'
  BY <1>7, ConcludeCall, GuardType
     DEF StepTooLate, OutcomeUnknown, ActionRefused, Moves, Ready, NativeTypeOK, ExecutionTypeOK,
         executionVars, stepVars, effectVars, TerminalStatus
<1>8. ASSUME NEW s \in Step, RepeatStep(w, s)
      PROVE  Moves(w) /\ ExecutionTypeOK' /\ NativeTypeOK'
  <2>1. Moves(w)
    BY <1>8, CallType DEF RepeatStep, NativeTypeOK
  <2> QED
    BY <1>8, <2>1 DEF RepeatStep, Moves, Ready, NativeTypeOK, ExecutionTypeOK, executionVars, stepVars, effectVars
<1> QED
  BY <1>1, <1>2, <1>3, <1>4, <1>5, <1>6, <1>7, <1>8

\* Those that write them.
LEMMA WritingStep ==
    ASSUME TypeOK, CallsReady, NEW w \in Worker,
           \/ ClaimExecution(w) \/ RejectRead(w) \/ RejectWrite(w)
           \/ CallConnector(w) \/ RecordOutcome(w) \/ CompleteExecution(w)
           \/ \E s \in Step : SkipStep(w, s) \/ CompleteCondition(w, s) \/ ClaimStep(w, s)
    PROVE  Moves(w) /\ ExecutionTypeOK' /\ NativeTypeOK'
<1> USE DEF TypeOK
<1>1. ASSUME ClaimExecution(w)
      PROVE  Moves(w) /\ ExecutionTypeOK' /\ NativeTypeOK'
  <2>1. Moves(w)
    BY <1>1, GotoCall DEF ClaimExecution, Moves, Ready, NativeTypeOK
  <2>2. ExecutionTypeOK'
    BY <1>1 DEF ClaimExecution, ExecutionTypeOK, ExecutionStatus
  <2>3. step' \in [Step -> {"ABSENT"} \cup ActiveStep \cup TerminalStep]
    BY <1>1 DEF ClaimExecution, NativeTypeOK, ActiveStep
  <2> QED
    BY <1>1, <2>1, <2>2, <2>3 DEF ClaimExecution, Moves, Ready, NativeTypeOK, effectVars
<1>2. ASSUME RejectRead(w)
      PROVE  Moves(w) /\ ExecutionTypeOK' /\ NativeTypeOK'
  <2>1. CASE status \in {"QUEUED", "RUNNING"}
    <3> DEFINE c == [worker[w] EXCEPT !.pc = "rejecting",
                       !.rows = {s \in Step : step[s] \in ActiveStep}]
    <3>0. worker[w] \in Dispatch
      BY DEF NativeTypeOK
    <3>1. c \in Dispatch /\ c.pc = "rejecting" /\ c.verdict = worker[w].verdict
      BY <3>0 DEF Dispatch
    <3>2. Moves(w)
      BY <1>2, <2>1, <3>1, BecomeCall DEF RejectRead, Moves, Ready, At, CallsReady, NativeTypeOK
    <3>3. /\ row_lock' = TRUE
          /\ UNCHANGED <<event, lease, engine, status, adapter, overdue, live, stepVars,
                        effectVars, faults>>
      BY <1>2, <2>1 DEF RejectRead
    <3>4. ExecutionTypeOK'
      BY <3>3 DEF ExecutionTypeOK
    <3>5. worker' \in [Worker -> Dispatch]
      BY <3>2 DEF Moves
    <3> QED
      BY <3>2, <3>3, <3>4, <3>5 DEF NativeTypeOK, stepVars, effectVars
  <2>2. CASE status \notin {"QUEUED", "RUNNING"}
    BY <1>2, <2>2, ReturnCall
       DEF RejectRead, Moves, Ready, NativeTypeOK, ExecutionTypeOK, stepVars, effectVars
  <2> QED
    BY <2>1, <2>2
<1>3. ASSUME RejectWrite(w)
      PROVE  Moves(w) /\ ExecutionTypeOK' /\ NativeTypeOK'
  <2>1. Moves(w) /\ lease' \in Worker \cup {NoWorker} /\ event' \in BOOLEAN
    BY <1>3, ReturnCall DEF RejectWrite, Moves, Ready
  <2>2. ExecutionTypeOK'
    BY <1>3 DEF RejectWrite, At, CallsReady, Ready, ExecutionTypeOK, ExecutionStatus
  <2>3. step' \in [Step -> {"ABSENT"} \cup ActiveStep \cup TerminalStep]
    BY <1>3 DEF RejectWrite, NativeTypeOK, TerminalStep
  <2> QED
    BY <1>3, <2>1, <2>2, <2>3 DEF RejectWrite, Moves, Ready, NativeTypeOK, effectVars
<1>4. ASSUME CallConnector(w)
      PROVE  Moves(w) /\ ExecutionTypeOK' /\ NativeTypeOK'
  <2>1. Moves(w)
    <3>1. PICK r \in {"SUCCEEDED", "FAILED", "UNKNOWN"} : Recording(w, r)
      BY <1>4 DEF CallConnector, Recording
    <3>2. worker[w].step \in Step
      BY <1>4 DEF CallConnector, At, CallsReady, Ready
    <3>3. worker \in [Worker -> Dispatch] /\ r \in Result
      BY DEF NativeTypeOK, Result
    <3> QED
      BY <3>1, <3>2, <3>3, RecordCall DEF Moves, Ready
  <2>2. effect' \in [Step -> Nat] /\ effect_by' \in [Step -> SUBSET {"event", "sweep"}]
    BY <1>4 DEF CallConnector, TakeEffect, Correlation, NativeTypeOK, effectVars
  <2> QED
    BY <1>4, <2>1, <2>2
       DEF CallConnector, Moves, Ready, NativeTypeOK, ExecutionTypeOK, executionVars, stepVars
<1>5. ASSUME RecordOutcome(w)
      PROVE  Moves(w) /\ ExecutionTypeOK' /\ NativeTypeOK'
  <2> DEFINE s == worker[w].step
             o == IF worker[w].result = "SUCCEEDED" THEN "SUCCESS" ELSE "FAILURE"
  <2>1. CASE step[s] \in TerminalStep
    BY <1>5, <2>1, ConcludeCall
       DEF RecordOutcome, Moves, Ready, NativeTypeOK, ExecutionTypeOK, executionVars, stepVars,
           effectVars, TerminalStatus
  <2>2. CASE step[s] \notin TerminalStep
    <3>1. s \in Step /\ o \in StepOutcome /\ worker \in [Worker -> Dispatch]
      BY <1>5 DEF RecordOutcome, At, CallsReady, Ready, StepOutcome, NativeTypeOK
    <3>2. Moves(w)
      <4>1. WalkingOn(w, s, o) \/ Conclude(w, "UNKNOWN")
        BY <1>5, <2>2 DEF RecordOutcome, WalkingOn
      <4> QED
        BY <3>1, <4>1, WalkOnCall, ConcludeCall DEF Moves, Ready
    <3>3. step' \in [Step -> {"ABSENT"} \cup ActiveStep \cup TerminalStep]
      <4>1. worker[w].result \in TerminalStep
        BY <1>5, <3>1 DEF RecordOutcome, At, CallsReady, Ready, Dispatch, Result, TerminalStep
      <4>2. step \in [Step -> {"ABSENT"} \cup ActiveStep \cup TerminalStep]
        BY DEF NativeTypeOK
      <4> QED
        BY <1>5, <2>2, <3>1, <4>1, <4>2 DEF RecordOutcome
    <3>4. reported' \in [Step -> Result]
      <4>1. worker[w].result \in Result /\ reported \in [Step -> Result]
        BY <3>1 DEF NativeTypeOK, Dispatch
      <4> QED
        BY <1>5, <2>2, <3>1, <4>1 DEF RecordOutcome
    <3> QED
      BY <1>5, <2>2, <3>2, <3>3, <3>4
         DEF RecordOutcome, Moves, Ready, NativeTypeOK, ExecutionTypeOK, executionVars, effectVars
  <2> QED
    BY <2>1, <2>2
<1>6. ASSUME CompleteExecution(w)
      PROVE  Moves(w) /\ ExecutionTypeOK' /\ NativeTypeOK'
  <2>1. Moves(w) /\ lease' \in Worker \cup {NoWorker} /\ event' \in BOOLEAN
    BY <1>6, ReturnCall DEF CompleteExecution, Moves, Ready
  <2>2. ExecutionTypeOK'
    BY <1>6 DEF CompleteExecution, Storable, TerminalStatus, ExecutionTypeOK, ExecutionStatus
  <2> QED
    BY <1>6, <2>1, <2>2 DEF CompleteExecution, Moves, Ready, NativeTypeOK, stepVars, effectVars
<1>7. ASSUME NEW s \in Step, SkipStep(w, s)
      PROVE  Moves(w) /\ ExecutionTypeOK' /\ NativeTypeOK'
  <2>1. /\ Moves(w) /\ matched' \subseteq Condition
        /\ step' \in [Step -> {"ABSENT"} \cup ActiveStep \cup TerminalStep]
    BY <1>7, SettleType DEF SkipStep, Visit, At
  <2> QED
    BY <1>7, <2>1 DEF SkipStep, Moves, Ready, NativeTypeOK, ExecutionTypeOK, executionVars, effectVars
<1>8. ASSUME NEW s \in Step, CompleteCondition(w, s)
      PROVE  Moves(w) /\ ExecutionTypeOK' /\ NativeTypeOK'
  <2>1. /\ Moves(w) /\ matched' \subseteq Condition
        /\ step' \in [Step -> {"ABSENT"} \cup ActiveStep \cup TerminalStep]
    BY <1>8, SettleType DEF CompleteCondition, Visit, At
  <2> QED
    BY <1>8, <2>1
       DEF CompleteCondition, Moves, Ready, NativeTypeOK, ExecutionTypeOK, executionVars, effectVars
<1>9. ASSUME NEW s \in Step, ClaimStep(w, s)
      PROVE  Moves(w) /\ ExecutionTypeOK' /\ NativeTypeOK'
  <2>1. Moves(w)
    BY <1>9, CallType DEF ClaimStep
  <2>2. step' \in [Step -> {"ABSENT"} \cup ActiveStep \cup TerminalStep]
    BY <1>9 DEF ClaimStep, NativeTypeOK, ActiveStep
  <2>3. attempted' \subseteq Step \ Condition
    BY <1>9 DEF ClaimStep, BeginAction, NativeTypeOK
  <2> QED
    BY <1>9, <2>1, <2>2, <2>3 DEF ClaimStep, Moves, Ready, NativeTypeOK, ExecutionTypeOK, executionVars, effectVars
<1> QED
  BY <1>1, <1>2, <1>3, <1>4, <1>5, <1>6, <1>7, <1>8, <1>9

LEMMA WorkerType ==
    ASSUME TypeOK, CallsReady, NEW w \in Worker, WorkerStep(w)
    PROVE  Moves(w) /\ ExecutionTypeOK' /\ NativeTypeOK'
BY QuietStep, WritingStep DEF WorkerStep

LEMMA NativeTypeStep ==
    ASSUME TypeOK, CallsReady, NativeNext
    PROVE  ExecutionTypeOK' /\ NativeTypeOK' /\ CallsReady'
<1> USE DEF TypeOK
<1>1. ASSUME NEW w \in Worker, WorkerStep(w)
      PROVE  ExecutionTypeOK' /\ NativeTypeOK' /\ CallsReady'
  BY <1>1, WorkerType DEF Moves, CallsReady, Ready
<1>2. ASSUME NEW w \in Worker, Crash(w)
      PROVE  ExecutionTypeOK' /\ NativeTypeOK' /\ CallsReady'
  <2>1. /\ worker' \in [Worker -> Dispatch]
        /\ worker'[w] = Idle
        /\ \A v \in Worker : v # w => worker'[v] = worker[v]
    BY <1>2, IdleType, BecomeCall DEF Crash, NativeTypeOK
  <2>2. CallsReady'
    BY <2>1 DEF CallsReady, Ready, Idle
  <2>3. ExecutionTypeOK'
    <3>1. row_lock' \in BOOLEAN
      BY <1>2, Zenon DEF Crash
    <3> QED
      BY <1>2, <3>1 DEF Crash, ExecutionTypeOK
  <2>4. NativeTypeOK'
    BY <1>2, <2>1, NativeAssumption DEF Crash, SpendFault, NativeTypeOK, stepVars, effectVars
  <2> QED
    BY <2>2, <2>3, <2>4
<1>3. ASSUME Cancel
      PROVE  ExecutionTypeOK' /\ NativeTypeOK' /\ CallsReady'
  <2>1. step' \in [Step -> {"ABSENT"} \cup ActiveStep \cup TerminalStep]
    BY <1>3 DEF Cancel, NativeTypeOK, TerminalStep
  <2> QED
    BY <1>3, <2>1
       DEF Cancel, ExecutionTypeOK, ExecutionStatus, NativeTypeOK, CallsReady, Ready, effectVars
<1>4. ASSUME LeaseLost
      PROVE  ExecutionTypeOK' /\ NativeTypeOK' /\ CallsReady'
  BY <1>4, NativeAssumption
     DEF LeaseLost, SpendFault, ExecutionTypeOK, NativeTypeOK, CallsReady, Ready, executionVars,
         stepVars, effectVars
<1> QED
  BY <1>1, <1>2, <1>3, <1>4 DEF NativeNext

-----------------------------------------------------------------------------
(* The engines do not meet.                                                *)

\* What the native engine may do to the row: nothing, or take it past the
\* statuses of a dispatch.
LEMMA NativeRow ==
    ASSUME TypeOK, CallsReady, NativeNext
    PROVE  /\ engine' = engine
           /\ \/ status' = status /\ adapter' = adapter
              \/ status' \in TerminalStatus \cup {"RUNNING"}
<1>1. ASSUME NEW w \in Worker, ClaimExecution(w) \/ RejectWrite(w) \/ CompleteExecution(w)
      PROVE  /\ engine' = engine
             /\ \/ status' = status /\ adapter' = adapter
                \/ status' \in TerminalStatus \cup {"RUNNING"}
  BY <1>1 DEF ClaimExecution, RejectWrite, CompleteExecution, Storable, At, CallsReady, Ready, TerminalStatus
<1>2. ASSUME NEW w \in Worker, WorkerStep(w),
             ~(ClaimExecution(w) \/ RejectWrite(w) \/ CompleteExecution(w))
      PROVE  engine' = engine /\ status' = status /\ adapter' = adapter
  BY <1>2
     DEF WorkerStep, Begin, AcquireLease, ClaimNothing, ClaimRefused, RejectRead, LoadProgress, SkipStep,
         StepTooLate, CompleteCondition, ClaimStep, RepeatStep, OutcomeUnknown, ActionRefused,
         CallConnector, CredentialUnavailable, RecordOutcome, WalkEnds, executionVars
<1>3. ASSUME Cancel \/ LeaseLost \/ \E w \in Worker : Crash(w)
      PROVE  /\ engine' = engine
             /\ \/ status' = status /\ adapter' = adapter
                \/ status' \in TerminalStatus \cup {"RUNNING"}
  BY <1>3 DEF Cancel, LeaseLost, Crash, executionVars, TerminalStatus
<1> QED
  BY <1>1, <1>2, <1>3 DEF NativeNext

LEMMA NativeStep ==
    ASSUME TypedInv, engine = "NATIVE", NativeNext, UNCHANGED n8nVars
    PROVE  TypedInv'
<1>1. TypeOK' /\ CallsReady'
  BY NativeTypeStep DEF TypedInv, TypeOK, N8nTypeOK, n8nVars
<1>2. EngineOK'
  BY NativeRow DEF TypedInv, EngineOK, n8nVars
<1>3. DispatchOK'
  <2>1. /\ engine' = engine
        /\ \/ status' = status /\ adapter' = adapter
           \/ status' \in TerminalStatus \cup {"RUNNING"}
    BY NativeRow DEF TypedInv
  <2>2. status' \in {"QUEUED", "DISPATCHING", "DISPATCHED"} => adapter' = 0
    BY <2>1 DEF TypedInv, DispatchOK, TerminalStatus
  <2>3. \A p \in Process : sending'[p].pc = "idle"
    BY DEF TypedInv, EngineOK, NotSending, n8nVars
  <2>4. attempts' < MaxAttempts /\ \A a \in Attempt : run'[a] = "NONE"
    BY N8nAssumption DEF TypedInv, EngineOK, n8nVars
  <2> QED
    BY <2>2, <2>3, <2>4 DEF DispatchOK, QueuedHasAttemptLeft, OneRunActs
<1> QED
  BY <1>1, <1>2, <1>3 DEF TypedInv

\* What stays as it is through every step of n8n's dispatcher.
LEMMA N8nFrame ==
    ASSUME N8nNext
    PROVE  engine' = engine /\ overdue' = overdue /\ live' = live /\ row_lock' = row_lock
BY DEF N8nNext, Send, PostAnswered, FinishDispatch, FailDispatch, ProcessCrash, RunStarts, Claim,
       ClaimAnswered, Update, UpdateAnswered, executionVars

LEMMA N8nTypeStep ==
    ASSUME ExecutionTypeOK, N8nTypeOK, DispatchOK, N8nNext
    PROVE  ExecutionTypeOK' /\ N8nTypeOK'
<1> USE N8nAssumption
<1>1. ASSUME NEW p \in Process, Send(p)
      PROVE  ExecutionTypeOK' /\ N8nTypeOK'
  BY <1>1
     DEF Send, DispatchOK, QueuedHasAttemptLeft, ExecutionTypeOK, N8nTypeOK, ExecutionStatus
<1>2. ASSUME NEW p \in Process, PostAnswered(p)
      PROVE  ExecutionTypeOK' /\ N8nTypeOK'
  BY <1>2 DEF PostAnswered, ExecutionTypeOK, N8nTypeOK, executionVars
<1>3. ASSUME NEW p \in Process, FinishDispatch(p) \/ FailDispatch(p) \/ ProcessCrash(p)
      PROVE  ExecutionTypeOK' /\ N8nTypeOK'
  BY <1>3
     DEF FinishDispatch, FailDispatch, AfterFailure, ProcessCrash, NotSending, ExecutionTypeOK,
         N8nTypeOK, ExecutionStatus, executionVars
<1>4. ASSUME NEW a \in Attempt, RunStarts(a) \/ ClaimAnswered(a) \/ UpdateAnswered(a)
      PROVE  ExecutionTypeOK' /\ N8nTypeOK'
  BY <1>4
     DEF RunStarts, ClaimAnswered, UpdateAnswered, ExecutionTypeOK, N8nTypeOK, executionVars
<1>6. ASSUME NEW a \in Attempt, Claim(a)
      PROVE  ExecutionTypeOK' /\ N8nTypeOK'
  <2>1. a \in Nat
    BY DEF Attempt
  <2> QED
    BY <1>6, <2>1 DEF Claim, ExecutionTypeOK, N8nTypeOK, ExecutionStatus
<1>5. ASSUME NEW a \in Attempt, NEW t \in CallbackStatus, Update(a, t)
      PROVE  ExecutionTypeOK' /\ N8nTypeOK'
  BY <1>5 DEF Update, CallbackStatus, ExecutionTypeOK, N8nTypeOK, ExecutionStatus
<1> QED
  BY <1>1, <1>2, <1>3, <1>4, <1>5, <1>6 DEF N8nNext

LEMMA N8nDispatchStep ==
    ASSUME ExecutionTypeOK, N8nTypeOK, DispatchOK, N8nNext
    PROVE  DispatchOK'
<1> USE N8nAssumption
<1>1. ASSUME NEW p \in Process, Send(p)
      PROVE  DispatchOK'
  BY <1>1
     DEF Send, NotSending, DispatchOK, QueuedHasAttemptLeft, OneRunActs, ExecutionTypeOK, N8nTypeOK
<1>2. ASSUME NEW p \in Process, PostAnswered(p)
      PROVE  DispatchOK'
  <2>1. \A q \in Process : sending'[q].attempt = sending[q].attempt
    BY <1>2 DEF PostAnswered, N8nTypeOK
  <2>2. \A q \in Process : sending'[q].pc # "idle" => sending[q].pc # "idle"
    BY <1>2 DEF PostAnswered, N8nTypeOK
  <2> QED
    BY <1>2, <2>1, <2>2
       DEF PostAnswered, DispatchOK, QueuedHasAttemptLeft, OneRunActs, executionVars
<1>3. ASSUME NEW p \in Process, FinishDispatch(p)
      PROVE  DispatchOK'
  BY <1>3
     DEF FinishDispatch, NotSending, DispatchOK, QueuedHasAttemptLeft, OneRunActs, N8nTypeOK
<1>4. ASSUME NEW p \in Process, FailDispatch(p)
      PROVE  DispatchOK'
  BY <1>4
     DEF FailDispatch, AfterFailure, Exhausted, NotSending, DispatchOK, QueuedHasAttemptLeft,
         OneRunActs, N8nTypeOK
<1>5. ASSUME NEW p \in Process, ProcessCrash(p)
      PROVE  DispatchOK'
  BY <1>5
     DEF ProcessCrash, NotSending, DispatchOK, QueuedHasAttemptLeft, OneRunActs, N8nTypeOK, executionVars
<1>6. ASSUME NEW a \in Attempt, RunStarts(a) \/ ClaimAnswered(a) \/ UpdateAnswered(a)
      PROVE  DispatchOK'
  BY <1>6
     DEF RunStarts, ClaimAnswered, ClaimRepeated, UpdateAnswered, DispatchOK, QueuedHasAttemptLeft,
         OneRunActs, N8nTypeOK, executionVars
<1>7. ASSUME NEW a \in Attempt, Claim(a)
      PROVE  DispatchOK'
  BY <1>7
     DEF Claim, Claimable, Attempt, DispatchOK, QueuedHasAttemptLeft, OneRunActs, N8nTypeOK
<1>8. ASSUME NEW a \in Attempt, NEW t \in CallbackStatus, Update(a, t)
      PROVE  DispatchOK'
  BY <1>8
     DEF Update, CallbackStatus, DispatchOK, QueuedHasAttemptLeft, OneRunActs, N8nTypeOK
<1> QED
  BY <1>1, <1>2, <1>3, <1>4, <1>5, <1>6, <1>7, <1>8 DEF N8nNext

LEMMA N8nStep ==
    ASSUME TypedInv, engine = "N8N", N8nNext, UNCHANGED nativeVars
    PROVE  TypedInv'
<1>1. NativeTypeOK' /\ CallsReady' /\ EngineOK'
  BY N8nFrame DEF TypedInv, TypeOK, NativeTypeOK, CallsReady, Ready, EngineOK, nativeVars
<1>2. ExecutionTypeOK' /\ N8nTypeOK' /\ DispatchOK'
  BY N8nTypeStep, N8nDispatchStep DEF TypedInv, TypeOK
<1> QED
  BY <1>1, <1>2 DEF TypedInv, TypeOK

LEMMA WorldStep ==
    ASSUME TypedInv, DeadlinePasses \/ ReconcileTimeouts \/ SwitchSettings,
           UNCHANGED <<n8nVars, nativeVars>>
    PROVE  TypedInv'
<1>1. ExecutionTypeOK'
  BY DEF TypedInv, TypeOK, DeadlinePasses, ReconcileTimeouts, SwitchSettings, ExecutionTypeOK,
         ExecutionStatus
<1>2. N8nTypeOK' /\ NativeTypeOK' /\ CallsReady'
  BY DEF TypedInv, TypeOK, N8nTypeOK, NativeTypeOK, CallsReady, Ready, n8nVars, nativeVars
<1>3. EngineOK' /\ DispatchOK'
  BY DEF TypedInv, EngineOK, DispatchOK, QueuedHasAttemptLeft, OneRunActs, DeadlinePasses,
         ReconcileTimeouts, SwitchSettings, n8nVars, nativeVars
<1> QED
  BY <1>1, <1>2, <1>3 DEF TypedInv, TypeOK

LEMMA TypedInvInit == Init => TypedInv
<1> SUFFICES ASSUME Init
             PROVE  TypedInv
  OBVIOUS
<1>1. EngineOK /\ DispatchOK
  BY N8nAssumption
     DEF Init, ExecutionInit, N8nInit, NativeInit, EngineOK, DispatchOK, QueuedHasAttemptLeft,
         OneRunActs, NotSending, Idle
<1>2. CallsReady
  BY DEF Init, NativeInit, CallsReady, Ready, Idle
<1> QED
  BY <1>1, <1>2, InitType DEF TypedInv

LEMMA TypedInvStep == TypedInv /\ [Next]_vars => TypedInv'
<1> SUFFICES ASSUME TypedInv, [Next]_vars
             PROVE  TypedInv'
  OBVIOUS
<1>1. CASE engine = "N8N" /\ N8nNext /\ UNCHANGED nativeVars
  BY <1>1, N8nStep
<1>2. CASE engine = "NATIVE" /\ NativeNext /\ UNCHANGED n8nVars
  BY <1>2, NativeStep
<1>3. CASE /\ DeadlinePasses \/ ReconcileTimeouts \/ SwitchSettings
           /\ UNCHANGED <<n8nVars, nativeVars>>
  BY <1>3, WorldStep
<1>4. CASE UNCHANGED vars
  BY <1>4
     DEF TypedInv, TypeOK, ExecutionTypeOK, N8nTypeOK, NativeTypeOK, CallsReady, Ready, EngineOK,
         DispatchOK, QueuedHasAttemptLeft, OneRunActs, vars, executionVars, n8nVars, nativeVars
<1> QED
  BY <1>1, <1>2, <1>3, <1>4 DEF Next

LEMMA TypedInvHolds == SafetySpec => []TypedInv
<1>1. Init => TypedInv
  BY TypedInvInit
<1>2. TypedInv /\ [Next]_vars => TypedInv'
  BY TypedInvStep
<1> QED
  BY <1>1, <1>2, PTL DEF SafetySpec

-----------------------------------------------------------------------------
(* The row under rejection, and who was let near the action.               *)

\* A rejection in progress holds the row, so nobody else touches the status
\* it read, and it is the only one.
RowLockOK ==
    \A w \in Worker : worker[w].pc = "rejecting" =>
        /\ row_lock
        /\ status \in {"QUEUED", "RUNNING"}
        /\ \A v \in Worker : worker[v].pc = "rejecting" => v = w

Admitted == {"load", "walk", "call", "record", "complete"}

\* A worker past the claim leaves the claim's mark on the row, which is the
\* same whoever claims.
RunnerOK ==
    /\ engine = "NATIVE" => adapter \in {0, 1}
    /\ \A w \in Worker : worker[w].pc \in Admitted => adapter # 0

\* An action without an attempt has had no effect, one under way has an
\* attempt, and one that must not be repeated is under way once, before its
\* only effect.
CallOK ==
    /\ \A s \in Step : s \notin attempted => effect[s] = 0
    /\ \A w \in Worker : worker[w].pc = "call" =>
          /\ worker[w].step \in attempted
          /\ worker[w].step \notin RetrySafe =>
                /\ effect[worker[w].step] = 0
                /\ \A v \in Worker :
                      worker[v].pc = "call" /\ worker[v].step = worker[w].step => v = w
    /\ ExternalEffectOnce

\* Where a worker is after a step that is none of those that admit it, lock
\* the row or begin an action.
LEMMA OrdinaryPc ==
    ASSUME TypeOK, CallsReady, NEW w \in Worker, WorkerStep(w),
           ~ClaimExecution(w), ~RejectRead(w),
           \A s \in Step : ~ClaimStep(w, s) /\ ~RepeatStep(w, s)
    PROVE  /\ worker'[w].pc \notin {"rejecting", "call"}
           /\ worker'[w].pc \in Admitted => worker[w].pc \in Admitted
           /\ worker'[w].pc = "record" => CallConnector(w)
<1> DEFINE Ordinary == /\ worker'[w].pc \notin {"rejecting", "call"}
                       /\ worker'[w].pc \in Admitted => worker[w].pc \in Admitted
                       /\ worker'[w].pc = "record" => CallConnector(w)
<1> USE DEF Admitted
<1>0. worker \in [Worker -> Dispatch] /\ NativeTypeOK
  BY DEF TypeOK, NativeTypeOK
<1>1. ASSUME Begin(w) \/ AcquireLease(w) \/ ClaimNothing(w) \/ RejectWrite(w) \/ CompleteExecution(w)
      PROVE  Ordinary
  <2>1. \/ Goto(w, "dispatch") \/ Goto(w, "claim")
        \/ Return(w, TRUE) \/ Return(w, FALSE)
    BY <1>1 DEF Begin, AcquireLease, ClaimNothing, RejectWrite, CompleteExecution
  <2> QED
    BY <1>0, <2>1, GotoCall, ReturnCall
<1>2. ASSUME ClaimRefused(w)
      PROVE  Ordinary
  BY <1>0, <1>2, ClaimRefusedCall, RejectCall
<1>3. ASSUME worker[w].pc \in {"load", "walk", "call", "record"},
             NEW v \in {"NONE", "UNKNOWN"} \cup TerminalStatus, Conclude(w, v)
      PROVE  Ordinary
  BY <1>0, <1>3, ConcludeCall
<1>4. ASSUME LoadProgress(w)
      PROVE  Ordinary
  <2>1. Loading(w) \/ Conclude(w, "UNKNOWN") \/ Conclude(w, "FAILED")
    BY <1>4, Zenon DEF LoadProgress, Loading, RowOutcomes
  <2> QED
    BY <1>0, <1>3, <1>4, <2>1, LoadCall DEF LoadProgress, At, TerminalStatus
<1>5. ASSUME NEW s \in Step, SkipStep(w, s) \/ CompleteCondition(w, s)
      PROVE  Ordinary
  <2>1. At(w, "walk") /\ \E out \in {"TRUE", "FALSE", "SKIPPED"} : Settle(w, s, out)
    BY <1>5 DEF SkipStep, CompleteCondition, Visit
  <2>2. PICK out \in {"TRUE", "FALSE", "SKIPPED"} : Settle(w, s, out)
    BY <2>1
  <2> DEFINE c == [worker[w] EXCEPT !.outcomes[s] = out]
  <2>3. c \in Dispatch /\ c.pc = "walk"
    BY <1>0, <2>1 DEF At, Dispatch, StepOutcome
  <2>4. Become(w, c) \/ Conclude(w, "FAILED")
    BY <2>2 DEF Settle
  <2> QED
    BY <1>0, <1>3, <2>1, <2>3, <2>4, BecomeCall DEF At, TerminalStatus
<1>6. ASSUME NEW s \in Step, StepTooLate(w, s) \/ OutcomeUnknown(w, s) \/ ActionRefused(w, s)
      PROVE  Ordinary
  <2>1. At(w, "walk")
    BY <1>6 DEF StepTooLate, OutcomeUnknown, ActionRefused, BeginAction, Visit
  <2>2. \E v \in {"NONE", "UNKNOWN"} \cup TerminalStatus : Conclude(w, v)
    BY <1>6, GuardType DEF StepTooLate, OutcomeUnknown, ActionRefused, TerminalStatus
  <2> QED
    BY <1>3, <2>1, <2>2 DEF At
<1>7. ASSUME CredentialUnavailable(w) \/ WalkEnds(w)
      PROVE  Ordinary
  <2>1. worker[w].pc \in {"walk", "call"}
    BY <1>7 DEF CredentialUnavailable, WalkEnds, At
  <2>2. Conclude(w, "FAILED") \/ Conclude(w, "SUCCEEDED")
    BY <1>7 DEF CredentialUnavailable, WalkEnds
  <2> QED
    BY <1>3, <2>1, <2>2 DEF TerminalStatus
<1>8. ASSUME CallConnector(w)
      PROVE  Ordinary
  <2>1. \E r \in Result : Recording(w, r)
    BY <1>8 DEF CallConnector, Recording, Result
  <2> QED
    BY <1>0, <1>8, <2>1, RecordCall DEF CallConnector, At
<1>9. ASSUME RecordOutcome(w)
      PROVE  Ordinary
  <2> DEFINE s == worker[w].step
             o == IF worker[w].result = "SUCCEEDED" THEN "SUCCESS" ELSE "FAILURE"
  <2>1. worker[w].pc = "record" /\ s \in Step /\ o \in StepOutcome
    BY <1>9 DEF RecordOutcome, At, CallsReady, Ready, StepOutcome
  <2>2. WalkingOn(w, s, o) \/ Conclude(w, "UNKNOWN") \/ Conclude(w, "FAILED")
    BY <1>9 DEF RecordOutcome, WalkingOn
  <2> QED
    BY <1>0, <1>3, <2>1, <2>2, WalkOnCall DEF TerminalStatus
<1> QED
  BY <1>1, <1>2, <1>4, <1>5, <1>6, <1>7, <1>8, <1>9 DEF WorkerStep

\* Where the four others leave it.
LEMMA MarkedPc ==
    ASSUME TypeOK, CallsReady, NEW w \in Worker
    PROVE  /\ ClaimExecution(w) => worker'[w].pc = "load" /\ adapter' = 1
           /\ RejectRead(w) => worker'[w].pc \in {"idle", "rejecting"}
           /\ \A s \in Step : ClaimStep(w, s) \/ RepeatStep(w, s) =>
                 /\ worker[w].pc = "walk"
                 /\ worker'[w].pc = "call" /\ worker'[w].step = s
<1>0. worker \in [Worker -> Dispatch] /\ NativeTypeOK
  BY DEF TypeOK, NativeTypeOK
<1>1. ClaimExecution(w) => worker'[w].pc = "load" /\ adapter' = 1
  BY <1>0, GotoCall DEF ClaimExecution
<1>2. ASSUME RejectRead(w)
      PROVE  worker'[w].pc \in {"idle", "rejecting"}
  <2> DEFINE c == [worker[w] EXCEPT !.pc = "rejecting",
                     !.rows = {s \in Step : step[s] \in ActiveStep}]
  <2>1. c \in Dispatch /\ c.pc = "rejecting"
    BY <1>0 DEF Dispatch
  <2> QED
    BY <1>0, <1>2, <2>1, BecomeCall, ReturnCall DEF RejectRead
<1>3. ASSUME NEW s \in Step, ClaimStep(w, s) \/ RepeatStep(w, s)
      PROVE  worker[w].pc = "walk" /\ worker'[w].pc = "call" /\ worker'[w].step = s
  <2> DEFINE c == [worker[w] EXCEPT !.pc = "call", !.step = s]
  <2>1. c \in Dispatch /\ c.pc = "call" /\ c.step = s
    BY <1>0 DEF Dispatch
  <2> QED
    BY <1>0, <1>3, <2>1, BecomeCall DEF ClaimStep, RepeatStep, BeginAction, Visit, At
<1> QED
  BY <1>1, <1>2, <1>3

\* Steps of a worker that write neither the row nor an attempt nor an effect.
LEMMA WorkerFrame ==
    ASSUME NEW w \in Worker, WorkerStep(w)
    PROVE  /\ engine' = engine
           /\ ~ClaimExecution(w) => adapter' = adapter
           /\ \/ ClaimExecution(w) \/ RejectWrite(w) \/ CompleteExecution(w)
              \/ status' = status
           /\ \/ RejectRead(w) \/ RejectWrite(w)
              \/ row_lock' = row_lock
           /\ (\E s \in Step : ClaimStep(w, s)) \/ attempted' = attempted
           /\ CallConnector(w) \/ effect' = effect
BY DEF WorkerStep, Begin, AcquireLease, ClaimExecution, ClaimNothing, ClaimRefused, RejectRead,
       RejectWrite, LoadProgress, SkipStep, StepTooLate, CompleteCondition, ClaimStep, RepeatStep,
       OutcomeUnknown, ActionRefused, CallConnector, CredentialUnavailable, RecordOutcome, WalkEnds,
       CompleteExecution, executionVars, stepVars, effectVars

\* A crash or a lost lock: the call is gone or as it was, and nothing else.
LEMMA FaultFrame ==
    ASSUME TypeOK, LeaseLost \/ \E w \in Worker : Crash(w)
    PROVE  /\ \A v \in Worker : worker'[v] = worker[v] \/ worker'[v].pc = "idle"
           /\ UNCHANGED <<engine, status, adapter, attempted, effect>>
<1>1. ASSUME NEW w \in Worker, Crash(w)
      PROVE  \A v \in Worker : worker'[v] = worker[v] \/ worker'[v].pc = "idle"
  BY <1>1, IdleType, BecomeCall DEF Crash, TypeOK, NativeTypeOK, Idle
<1> QED
  BY <1>1 DEF LeaseLost, Crash, executionVars, stepVars, effectVars

LEMMA RowLockStep ==
    ASSUME TypeOK, CallsReady, RowLockOK, NativeNext
    PROVE  RowLockOK'
<1>1. ASSUME NEW w \in Worker, WorkerStep(w)
      PROVE  RowLockOK'
  <2>0. \A v \in Worker : v # w => worker'[v] = worker[v]
    BY <1>1, WorkerType DEF Moves
  <2>1. CASE RejectRead(w)
    <3>1. \A v \in Worker : worker'[v].pc = "rejecting" => v = w
      BY <2>0, <2>1 DEF RejectRead, RowLockOK
    <3>2. status \notin {"QUEUED", "RUNNING"} => worker'[w].pc = "idle"
      BY <2>1, ReturnCall DEF RejectRead, TypeOK
    <3> QED
      BY <2>1, <3>1, <3>2 DEF RejectRead, RowLockOK
  <2>2. CASE ~RejectRead(w)
    <3>1. worker'[w].pc # "rejecting"
      BY <1>1, <2>2, OrdinaryPc, MarkedPc
    <3>2. ASSUME NEW v \in Worker, worker'[v].pc = "rejecting"
          PROVE  row_lock' = row_lock /\ status' = status
      <4>1. worker[v].pc = "rejecting" /\ row_lock /\ worker[w].pc # "rejecting"
        BY <2>0, <3>1, <3>2 DEF RowLockOK
      <4>2. ~ClaimExecution(w) /\ ~RejectWrite(w) /\ ~CompleteExecution(w)
        BY <4>1 DEF ClaimExecution, RejectWrite, CompleteExecution, At
      <4> QED
        BY <1>1, <2>2, <4>2, WorkerFrame
    <3> QED
      BY <2>0, <3>1, <3>2 DEF RowLockOK
  <2> QED
    BY <2>1, <2>2
<1>2. ASSUME NEW w \in Worker, Crash(w)
      PROVE  RowLockOK'
  <2>1. worker'[w].pc = "idle" /\ \A v \in Worker : v # w => worker'[v] = worker[v]
    BY <1>2, IdleType, BecomeCall DEF Crash, TypeOK, NativeTypeOK, Idle
  <2> QED
    BY <1>2, <2>1 DEF Crash, At, RowLockOK
<1>3. ASSUME Cancel
      PROVE  RowLockOK'
  BY <1>3 DEF Cancel, RowLockOK
<1>4. ASSUME LeaseLost
      PROVE  RowLockOK'
  BY <1>4 DEF LeaseLost, RowLockOK, executionVars
<1> QED
  BY <1>1, <1>2, <1>3, <1>4 DEF NativeNext

LEMMA RunnerStep ==
    ASSUME TypeOK, CallsReady, RunnerOK, engine = "NATIVE", NativeNext
    PROVE  RunnerOK'
<1>1. ASSUME NEW w \in Worker, WorkerStep(w)
      PROVE  RunnerOK'
  <2>0. \A v \in Worker : v # w => worker'[v] = worker[v]
    BY <1>1, WorkerType DEF Moves
  <2>1. CASE ClaimExecution(w)
    BY <2>1, MarkedPc DEF RunnerOK
  <2>2. CASE ~ClaimExecution(w)
    <3>1. worker'[w].pc \in Admitted => worker[w].pc \in Admitted
      BY <1>1, <2>2, OrdinaryPc, MarkedPc DEF Admitted
    <3> QED
      BY <1>1, <2>0, <2>2, <3>1, WorkerFrame DEF RunnerOK
  <2> QED
    BY <2>1, <2>2
<1>2. ASSUME LeaseLost \/ \E w \in Worker : Crash(w)
      PROVE  RunnerOK'
  BY <1>2, FaultFrame DEF RunnerOK, Admitted
<1>3. ASSUME Cancel
      PROVE  RunnerOK'
  BY <1>3 DEF Cancel, RunnerOK
<1> QED
  BY <1>1, <1>2, <1>3 DEF NativeNext

LEMMA CallStep ==
    ASSUME TypeOK, CallsReady, CallOK, NativeNext
    PROVE  CallOK'
<1>0. effect \in [Step -> Nat] /\ RetrySafe \subseteq Step
  BY NativeAssumption DEF TypeOK, NativeTypeOK
<1>1. ASSUME NEW w \in Worker, WorkerStep(w)
      PROVE  CallOK'
  <2>0. \A v \in Worker : v # w => worker'[v] = worker[v]
    BY <1>1, WorkerType DEF Moves
  <2>1. ASSUME NEW s \in Step, ClaimStep(w, s)
        PROVE  CallOK'
    <3>1. attempted' = attempted \cup {s} /\ s \notin attempted /\ effect' = effect
      BY <2>1 DEF ClaimStep, effectVars
    <3>2. worker'[w].pc = "call" /\ worker'[w].step = s
      BY <2>1, MarkedPc
    <3> QED
      BY <2>0, <3>1, <3>2 DEF CallOK, ExternalEffectOnce
  <2>2. ASSUME NEW s \in Step, RepeatStep(w, s)
        PROVE  CallOK'
    <3>1. /\ attempted' = attempted /\ s \in attempted /\ s \in RetrySafe
          /\ effect' = effect
      BY <2>2 DEF RepeatStep, Repeatable, stepVars, effectVars
    <3>2. worker'[w].pc = "call" /\ worker'[w].step = s
      BY <2>2, MarkedPc
    <3> QED
      BY <2>0, <3>1, <3>2 DEF CallOK, ExternalEffectOnce
  <2>3. ASSUME CallConnector(w)
        PROVE  CallOK'
    <3> DEFINE s == worker[w].step
    <3>1. s \in Step /\ worker[w].pc = "call" /\ attempted' = attempted
      BY <2>3 DEF CallConnector, At, CallsReady, Ready, stepVars
    <3>2. effect' = effect \/ effect' = [effect EXCEPT ![s] = @ + 1]
      BY <2>3 DEF CallConnector, TakeEffect, effectVars
    <3>3. worker'[w].pc # "call"
      <4>1. worker \in [Worker -> Dispatch]
        BY DEF TypeOK, NativeTypeOK
      <4>2. \E r \in Result : Recording(w, r)
        BY <2>3 DEF CallConnector, Recording, Result
      <4> QED
        BY <4>1, <4>2, RecordCall
    <3>4. /\ s \in attempted
          /\ s \notin RetrySafe => effect[s] = 0
      BY <3>1 DEF CallOK
    <3>5. \A t \in Step : t # s => effect'[t] = effect[t]
      BY <1>0, <3>1, <3>2
    <3>6. s \notin RetrySafe => effect'[s] \in {0, 1}
      BY <1>0, <3>1, <3>2, <3>4
    <3>7. ExternalEffectOnce'
      BY <3>5, <3>6 DEF CallOK, ExternalEffectOnce
    <3>8. \A t \in Step : t \notin attempted' => effect'[t] = 0
      BY <3>1, <3>4, <3>5 DEF CallOK
    <3>9. ASSUME NEW v \in Worker, worker'[v].pc = "call"
          PROVE  /\ worker'[v].step \in attempted'
                 /\ worker'[v].step \notin RetrySafe =>
                       /\ effect'[worker'[v].step] = 0
                       /\ \A u \in Worker :
                             worker'[u].pc = "call" /\ worker'[u].step = worker'[v].step => u = v
      <4>1. v # w /\ worker'[v] = worker[v] /\ worker[v].step \in Step
        BY <2>0, <3>3, <3>9 DEF CallsReady, Ready
      <4>2. worker[v].step \notin RetrySafe => worker[v].step # s
        BY <3>1, <3>9, <4>1 DEF CallOK
      <4> QED
        BY <2>0, <3>1, <3>3, <3>5, <3>9, <4>1, <4>2 DEF CallOK
    <3> QED
      BY <3>7, <3>8, <3>9 DEF CallOK
  <2>4. ASSUME \A s \in Step : ~ClaimStep(w, s) /\ ~RepeatStep(w, s), ~CallConnector(w)
        PROVE  CallOK'
    <3>1. worker'[w].pc # "call"
      BY <1>1, <2>4, OrdinaryPc, MarkedPc
    <3>2. attempted' = attempted /\ effect' = effect
      BY <1>1, <2>4, WorkerFrame
    <3> QED
      BY <2>0, <3>1, <3>2 DEF CallOK, ExternalEffectOnce
  <2> QED
    BY <2>1, <2>2, <2>3, <2>4
<1>2. ASSUME LeaseLost \/ \E w \in Worker : Crash(w)
      PROVE  CallOK'
  <2>1. /\ \A v \in Worker : worker'[v].pc = "call" => worker'[v] = worker[v]
        /\ attempted' = attempted /\ effect' = effect
    BY <1>2, FaultFrame
  <2> QED
    BY <2>1 DEF CallOK, ExternalEffectOnce
<1>3. ASSUME Cancel
      PROVE  CallOK'
  BY <1>3 DEF Cancel, CallOK, ExternalEffectOnce, effectVars
<1> QED
  BY <1>1, <1>2, <1>3 DEF NativeNext

-----------------------------------------------------------------------------
(* The path through the graph: what the rows say of it, and what the       *)
(* workers' copies of them do.                                             *)

\* The execution ended, and not well: whatever its rows say from here on.
Refused == status \in {"FAILED", "TIMED_OUT", "CANCELLED"}

Decided(s) == Persisted(s) # "NONE"

\* An effect on record was had; a step that says it succeeded has had it and
\* reported it, and so has the call that is about to say it.
EffectOK ==
    /\ \A s \in Step : effect_by[s] # {} => effect[s] > 0
    /\ \A s \in Step \ Condition : step[s] = "SUCCEEDED" =>
          effect[s] > 0 /\ reported[s] = "SUCCEEDED"
    /\ \A w \in Worker : worker[w].pc = "record" =>
          /\ worker[w].step \in attempted
          /\ worker[w].result = "SUCCEEDED" => effect[worker[w].step] > 0

QueuedOK ==
    status = "QUEUED" =>
        /\ attempted = {} /\ matched = {}
        /\ \A s \in Step : step[s] = "ABSENT"

\* A step is decided or attempted after those before it, skipped if and only
\* if they do not select it, and attempted only if they do.
RowsOK ==
    /\ \A s \in Step : Decided(s) \/ s \in attempted =>
          \A e \in Edge : e.to = s => Decided(e.from)
    /\ \A s \in Step : Decided(s) =>
          (Persisted(s) = "SKIPPED" <=> ~Selected(s, RowOutcomes))
    /\ \A s \in attempted : Selected(s, RowOutcomes)
    /\ \A s \in matched : step[s] = "SUCCEEDED"

\* No worker believes an outcome that the rows do not have, however many of
\* them lost the lock and went on.
CopiesOK ==
    \A w \in Worker, s \in Step :
        worker[w].outcomes[s] # "NONE" => worker[w].outcomes[s] = Persisted(s)

Finished == \A s \in Step : Persisted(s) \notin {"NONE", "FAILURE"}

VerdictOK ==
    /\ status = "SUCCEEDED" => Finished
    /\ \A w \in Worker :
          worker[w].pc = "complete" /\ worker[w].verdict = "SUCCEEDED" => Finished

PathOK ==
    /\ EffectOK
    /\ engine = "NATIVE" /\ ~Refused => QueuedOK /\ RowsOK /\ CopiesOK /\ VerdictOK

LEMMA SelectedSame ==
    ASSUME NEW s, NEW o1, NEW o2,
           \A e \in Edge : e.to = s => o1[e.from] = o2[e.from]
    PROVE  Selected(s, o1) <=> Selected(s, o2)
<1> DEFINE in == {e \in Edge : e.to = s}
<1>1. \A e \in in : o1[e.from] = o2[e.from]
  OBVIOUS
<1>2. Selected(s, o1) <=> \/ in = {}
                          \/ \E e \in in : \/ o1[e.from] = e.outcome
                                           \/ e.outcome = "ALWAYS" /\ o1[e.from] # "NONE"
  BY DEF Selected
<1>3. Selected(s, o2) <=> \/ in = {}
                          \/ \E e \in in : \/ o2[e.from] = e.outcome
                                           \/ e.outcome = "ALWAYS" /\ o2[e.from] # "NONE"
  BY DEF Selected
<1> HIDE DEF in
<1> QED
  BY <1>1, <1>2, <1>3

LEMMA EdgeEnds ==
    ASSUME NEW e \in Edge
    PROVE  e.from \in Step /\ e.to \in Step
BY NativeAssumption

\* The steps before the one a worker visits are in its copy.
LEMMA VisitSees ==
    ASSUME CopiesOK, NEW w \in Worker, NEW s \in Step, Visit(w, s)
    PROVE  /\ \A e \in Edge : e.to = s => Decided(e.from)
           /\ SelectedBy(w, s) <=> Selected(s, RowOutcomes)
<1>1. ASSUME NEW e \in Edge, e.to = s
      PROVE  worker[w].outcomes[e.from] # "NONE"
  <2>1. PICK k \in DOMAIN Order \ Done(w) :
            s = Order[k] /\ \A j \in DOMAIN Order \ Done(w) : k <= j
    BY DEF Visit, Current
  <2>2. PICK i, j \in DOMAIN Order : Order[i] = e.from /\ Order[j] = s /\ i < j
    BY <1>1, NativeAssumption
  <2>3. j = k
    BY <2>1, <2>2, NativeAssumption
  <2>4. i \in Nat /\ k \in Nat
    <3>1. Order \in Seq(Step)
      BY NativeAssumption
    <3> QED
      BY <3>1
  <2>5. i \in Done(w)
    BY <2>1, <2>2, <2>3, <2>4
  <2> QED
    BY <2>2, <2>5 DEF Done
<1>2. ASSUME NEW e \in Edge, e.to = s
      PROVE  Decided(e.from) /\ worker[w].outcomes[e.from] = RowOutcomes[e.from]
  BY <1>1, <1>2, EdgeEnds DEF CopiesOK, Decided, RowOutcomes
<1>3. SelectedBy(w, s) <=> Selected(s, RowOutcomes)
  BY <1>2, SelectedSame DEF SelectedBy
<1> QED
  BY <1>2, <1>3

\* Rows that say what they said.
LEMMA RowsKept ==
    ASSUME RowsOK, attempted \subseteq Step,
           \A s \in Step : Persisted(s)' = Persisted(s),
           attempted' = attempted,
           \A s \in matched' : step'[s] = "SUCCEEDED"
    PROVE  RowsOK'
<1>1. \A s \in Step : Decided(s)' <=> Decided(s)
  BY DEF Decided
<1>2. RowOutcomes' = RowOutcomes
  BY DEF RowOutcomes
<1>3. \A s \in Step : Selected(s, RowOutcomes)' <=> Selected(s, RowOutcomes)
  BY <1>2
<1> QED
  BY <1>1, <1>3, EdgeEnds DEF RowsOK

\* One that nobody had decided is written, where those before it were.
LEMMA RowDecided ==
    ASSUME RowsOK, attempted \subseteq Step, NEW s \in Step, ~Decided(s),
           \A t \in Step : t # s => Persisted(t)' = Persisted(t),
           \A e \in Edge : e.to = s => Decided(e.from),
           Decided(s)' => (Persisted(s)' = "SKIPPED" <=> ~Selected(s, RowOutcomes)),
           attempted' \subseteq attempted \cup {s},
           s \in attempted' => Selected(s, RowOutcomes),
           \A t \in matched' : step'[t] = "SUCCEEDED"
    PROVE  RowsOK'
<1>1. \A t \in Step : Decided(t) => Decided(t)' /\ Persisted(t)' = Persisted(t)
  BY DEF Decided
<1>2. \A t \in Step : t # s => (Decided(t)' <=> Decided(t))
  BY DEF Decided
<1>3. ASSUME NEW t \in Step, \A e \in Edge : e.to = t => Decided(e.from)
      PROVE  Selected(t, RowOutcomes)' <=> Selected(t, RowOutcomes)
  <2>1. \A e \in Edge : e.to = t => RowOutcomes'[e.from] = RowOutcomes[e.from]
    BY <1>1, <1>3, EdgeEnds DEF RowOutcomes
  <2> QED
    BY <2>1, SelectedSame
<1>4. ASSUME NEW t \in Step, Decided(t)' \/ t \in attempted'
      PROVE  \A e \in Edge : e.to = t => Decided(e.from)
  BY <1>2, <1>4 DEF RowsOK
<1>5. ASSUME NEW t \in Step, Decided(t)' \/ t \in attempted'
      PROVE  \A e \in Edge : e.to = t => Decided(e.from)'
  BY <1>1, <1>4, <1>5, EdgeEnds
<1>6. ASSUME NEW t \in Step, Decided(t)'
      PROVE  Persisted(t)' = "SKIPPED" <=> ~Selected(t, RowOutcomes)'
  BY <1>2, <1>3, <1>4, <1>6 DEF RowsOK
<1>7. ASSUME NEW t \in attempted'
      PROVE  Selected(t, RowOutcomes)'
  BY <1>3, <1>4, <1>7 DEF RowsOK
<1> QED
  BY <1>5, <1>6, <1>7 DEF RowsOK

\* A row that gets its outcome is decided as that outcome, and so is the
\* copy of the worker that settles it.
LEMMA SettleRow ==
    ASSUME NativeTypeOK, NEW w \in Worker, NEW s \in Step,
           NEW out \in {"TRUE", "FALSE", "SKIPPED"}, out # "SKIPPED" => s \in Condition,
           s \in matched => step[s] = "SUCCEEDED",
           step[s] \notin TerminalStep, Settle(w, s, out)
    PROVE  /\ Persisted(s)' = out
           /\ \A t \in Step : t # s => Persisted(t)' = Persisted(t) /\ step'[t] = step[t]
           /\ worker'[w].outcomes = [worker[w].outcomes EXCEPT ![s] = out]
           /\ worker'[w].pc = worker[w].pc
           /\ \A t \in matched' : t \in matched \/ (t = s /\ out = "TRUE")
           /\ step'[s] = Conclusion(s, out)
<1> DEFINE c == [worker[w] EXCEPT !.outcomes[s] = out]
<1>1. /\ step' = [step EXCEPT ![s] = Conclusion(s, out)]
      /\ matched' = IF out = "TRUE" THEN matched \cup {s} ELSE matched
      /\ Become(w, c)
  BY Zenon DEF Settle
<1>2. c \in Dispatch /\ c.outcomes = [worker[w].outcomes EXCEPT ![s] = out] /\ c.pc = worker[w].pc
  <2>1. out \in StepOutcome
    BY DEF StepOutcome
  <2>2. worker[w] \in Dispatch
    BY DEF NativeTypeOK
  <2>3. c \in Dispatch
    BY <2>1, <2>2 DEF Dispatch
  <2>4. c.outcomes = [worker[w].outcomes EXCEPT ![s] = out] /\ c.pc = worker[w].pc
    BY <2>2 DEF Dispatch
  <2> QED
    BY <2>3, <2>4
<1>3. worker'[w] = c
  BY <1>1, <1>2, BecomeCall DEF NativeTypeOK
<1>4. /\ step'[s] = Conclusion(s, out)
      /\ \A t \in Step : t # s => step'[t] = step[t] /\ (t \in matched' <=> t \in matched)
  BY <1>1 DEF NativeTypeOK
<1>5. s \notin matched
  BY DEF TerminalStep
<1>6. Persisted(s)' = out
  <2>1. CASE out = "TRUE"
    <3>1. step'[s] = "SUCCEEDED" /\ s \in matched' /\ s \in Condition
      BY <1>1, <1>4, <2>1 DEF Conclusion
    <3>2. Persisted(s)' = "TRUE"
      BY <3>1 DEF Persisted
    <3> QED
      BY <2>1, <3>2
  <2>2. CASE out = "FALSE"
    <3>1. step'[s] = "SUCCEEDED" /\ s \notin matched' /\ s \in Condition
      BY <1>1, <1>4, <1>5, <2>2 DEF Conclusion
    <3> QED
      BY <2>2, <3>1 DEF Persisted
  <2>3. CASE out = "SKIPPED"
    <3>1. step'[s] = "SKIPPED"
      BY <1>4, <2>3 DEF Conclusion
    <3> QED
      BY <2>3, <3>1 DEF Persisted
  <2> QED
    BY <2>1, <2>2, <2>3
<1>7. \A t \in Step : t # s => Persisted(t)' = Persisted(t)
  BY <1>4 DEF Persisted
<1>8. \A t \in matched' : t \in matched \/ (t = s /\ out = "TRUE")
  BY <1>1
<1> QED
  BY <1>2, <1>3, <1>4, <1>6, <1>7, <1>8

\* The steps of a worker that write a row.
Writes(w) ==
    \/ ClaimExecution(w) \/ RejectWrite(w) \/ RecordOutcome(w)
    \/ \E s \in Step : SkipStep(w, s) \/ CompleteCondition(w, s) \/ ClaimStep(w, s)

LEMMA RowsFrame ==
    ASSUME NEW w \in Worker, WorkerStep(w), ~Writes(w)
    PROVE  step' = step /\ matched' = matched /\ attempted' = attempted /\ reported' = reported
BY DEF Writes, WorkerStep, Begin, AcquireLease, ClaimNothing, ClaimRefused, RejectRead, LoadProgress,
       StepTooLate, RepeatStep, OutcomeUnknown, ActionRefused, CallConnector, CredentialUnavailable,
       WalkEnds, CompleteExecution, stepVars

LEMMA EffectFrame ==
    ASSUME NEW w \in Worker, WorkerStep(w), ~CallConnector(w)
    PROVE  effect' = effect /\ effect_by' = effect_by
BY DEF WorkerStep, Begin, AcquireLease, ClaimExecution, ClaimNothing, ClaimRefused, RejectRead,
       RejectWrite, LoadProgress, SkipStep, StepTooLate, CompleteCondition, ClaimStep, RepeatStep,
       OutcomeUnknown, ActionRefused, CredentialUnavailable, RecordOutcome, WalkEnds,
       CompleteExecution, effectVars

LEMMA UndecidedRow ==
    ASSUME NEW s \in Step, step[s] \notin TerminalStep
    PROVE  ~Decided(s)
BY DEF Decided, Persisted, TerminalStep

\* What a worker's step does to the rows while the execution is not refused:
\* what was decided stays, what it decides follows from what was.
RowsFollow ==
    /\ RowsOK'
    /\ \A t \in Step : Decided(t) => Persisted(t)' = Persisted(t)

LEMMA SettleFollows ==
    ASSUME TypeOK, RowsOK, CopiesOK, NEW w \in Worker, NEW s \in Step,
           NEW out \in {"TRUE", "FALSE", "SKIPPED"}, out # "SKIPPED" => s \in Condition,
           Visit(w, s), SelectedBy(w, s) <=> out # "SKIPPED",
           Settle(w, s, out), attempted' = attempted
    PROVE  RowsFollow
<1>0. NativeTypeOK /\ attempted \subseteq Step
  BY DEF TypeOK, NativeTypeOK
<1>1. CASE step[s] \in TerminalStep
  <2>1. step' = step /\ matched' = matched
    BY <1>1 DEF Settle
  <2>2. \A t \in Step : Persisted(t)' = Persisted(t)
    BY <2>1 DEF Persisted
  <2> QED
    BY <1>0, <2>1, <2>2, RowsKept DEF RowsFollow, RowsOK
<1>2. CASE step[s] \notin TerminalStep
  <2>1. s \in matched => step[s] = "SUCCEEDED"
    BY DEF RowsOK
  <2>2. /\ Persisted(s)' = out
        /\ \A t \in Step : t # s => Persisted(t)' = Persisted(t) /\ step'[t] = step[t]
        /\ \A t \in matched' : t \in matched \/ (t = s /\ out = "TRUE")
        /\ step'[s] = Conclusion(s, out)
    BY <1>0, <1>2, <2>1, SettleRow
  <2>3. \A t \in matched' : step'[t] = "SUCCEEDED"
    <3>1. \A t \in matched : t # s /\ step[t] = "SUCCEEDED" /\ t \in Step
      BY <1>0, <1>2, <2>1, NativeAssumption DEF RowsOK, TerminalStep, NativeTypeOK
    <3>2. out = "TRUE" => Conclusion(s, out) = "SUCCEEDED"
      BY DEF Conclusion
    <3> QED
      BY <2>2, <3>1, <3>2
  <2>4. ~Decided(s)
    BY <1>2, UndecidedRow
  <2>5. /\ \A e \in Edge : e.to = s => Decided(e.from)
        /\ SelectedBy(w, s) <=> Selected(s, RowOutcomes)
    BY VisitSees
  <2>6. s \in attempted' => Selected(s, RowOutcomes)
    BY DEF RowsOK
  <2>7. RowsOK'
    BY <1>0, <2>2, <2>3, <2>4, <2>5, <2>6, RowDecided
  <2> QED
    BY <2>2, <2>4, <2>7 DEF RowsFollow
<1> QED
  BY <1>1, <1>2

\* RecordOutcome on a row that was not decided.
LEMMA RecordRow ==
    ASSUME TypeOK, CallsReady, EffectOK, RowsOK, NEW w \in Worker, RecordOutcome(w),
           NEW s \in Step, s = worker[w].step, step[s] \notin TerminalStep
    PROVE  \E o \in {"SUCCESS", "FAILURE", "NONE"} :
              /\ s \in attempted /\ ~Decided(s)
              /\ Persisted(s)' = o
              /\ \A t \in Step : t # s => Persisted(t)' = Persisted(t) /\ step'[t] = step[t]
              /\ s \notin matched /\ s \notin Condition
              /\ o = "NONE" => Conclude(w, "UNKNOWN")
              /\ o # "NONE" => WalkingOn(w, s, o)
              /\ step'[s] = "SUCCEEDED" => /\ worker[w].result = "SUCCEEDED"
                                           /\ reported'[s] = "SUCCEEDED"
              /\ \A t \in Step : t # s => reported'[t] = reported[t]
<1> DEFINE r == worker[w].result
<1>1. /\ s \in attempted /\ s \notin Condition
      /\ r \in {"SUCCEEDED", "FAILED", "UNKNOWN"}
  <2>1. worker[w].pc = "record" /\ worker[w] \in Dispatch /\ attempted \subseteq Step \ Condition
    BY DEF RecordOutcome, At, TypeOK, NativeTypeOK
  <2> QED
    BY <2>1 DEF EffectOK, CallsReady, Ready, Dispatch, Result
<1>2. /\ step' = [step EXCEPT ![s] = r]
      /\ reported' = [reported EXCEPT ![s] = r]
      /\ matched' = matched
      /\ r = "UNKNOWN" => Conclude(w, "UNKNOWN")
      /\ r # "UNKNOWN" =>
            WalkingOn(w, s, IF r = "SUCCEEDED" THEN "SUCCESS" ELSE "FAILURE")
  BY DEF RecordOutcome, WalkingOn
<1>3. /\ step'[s] = r /\ reported'[s] = r
      /\ \A t \in Step : t # s => step'[t] = step[t] /\ reported'[t] = reported[t]
  BY <1>1, <1>2 DEF TypeOK, NativeTypeOK
<1>4. \A t \in Step : t # s => Persisted(t)' = Persisted(t)
  BY <1>2, <1>3 DEF Persisted
<1>5. s \notin matched
  BY DEF RowsOK, TerminalStep
<1>6. ~Decided(s)
  BY <1>1 DEF Decided, Persisted, TerminalStep
<1>7. /\ r = "SUCCEEDED" => Persisted(s)' = "SUCCESS"
      /\ r = "FAILED" => Persisted(s)' = "FAILURE"
      /\ r = "UNKNOWN" => Persisted(s)' = "NONE"
  <2>1. ASSUME r = "SUCCEEDED"
        PROVE  Persisted(s)' = "SUCCESS"
    BY <1>1, <1>3, <2>1 DEF Persisted
  <2>2. ASSUME r = "FAILED"
        PROVE  Persisted(s)' = "FAILURE"
    BY <1>1, <1>3, <2>2 DEF Persisted
  <2>3. ASSUME r = "UNKNOWN"
        PROVE  Persisted(s)' = "NONE"
    BY <1>1, <1>3, <2>3 DEF Persisted
  <2> QED
    BY <2>1, <2>2, <2>3
<1>8. PICK o \in {"SUCCESS", "FAILURE", "NONE"} :
         /\ Persisted(s)' = o
         /\ o = "NONE" => Conclude(w, "UNKNOWN")
         /\ o # "NONE" => WalkingOn(w, s, o)
  BY <1>1, <1>2, <1>7
<1>9. r = worker[w].result
  OBVIOUS
<1> HIDE DEF r
<1> QED
  BY <1>1, <1>3, <1>4, <1>5, <1>6, <1>8, <1>9

LEMMA RowsStep ==
    ASSUME TypeOK, CallsReady, EffectOK, QueuedOK, RowsOK, CopiesOK,
           NEW w \in Worker, WorkerStep(w), ~RejectWrite(w)
    PROVE  RowsFollow
<1>0. NativeTypeOK /\ attempted \subseteq Step \ Condition
  BY DEF TypeOK, NativeTypeOK
<1>1. ASSUME ClaimExecution(w)
      PROVE  RowsFollow
  <2>1. attempted' = attempted /\ matched' = matched
    BY <1>1 DEF ClaimExecution
  <2>2. CASE status = "QUEUED"
    <3>1. \A t \in Step : step[t] = "ABSENT" /\ step'[t] = "PENDING"
      BY <1>1, <2>2 DEF ClaimExecution, QueuedOK
    <3>2. \A t \in Step : Persisted(t)' = Persisted(t)
      BY <3>1 DEF Persisted
    <3>3. matched' = {}
      BY <2>1, <2>2 DEF QueuedOK
    <3> QED
      BY <1>0, <2>1, <3>2, <3>3, RowsKept DEF RowsFollow
  <2>3. CASE status # "QUEUED"
    <3>1. step' = step
      BY <1>1, <2>3 DEF ClaimExecution
    <3>2. \A t \in Step : Persisted(t)' = Persisted(t)
      BY <2>1, <3>1 DEF Persisted
    <3> QED
      BY <1>0, <2>1, <3>1, <3>2, RowsKept DEF RowsFollow, RowsOK
  <2> QED
    BY <2>2, <2>3
<1>2. ASSUME NEW s \in Step, SkipStep(w, s)
      PROVE  RowsFollow
  <2>1. Visit(w, s) /\ ~SelectedBy(w, s) /\ Settle(w, s, "SKIPPED") /\ attempted' = attempted
    BY <1>2 DEF SkipStep
  <2> QED
    BY <2>1, SettleFollows
<1>3. ASSUME NEW s \in Step, CompleteCondition(w, s)
      PROVE  RowsFollow
  <2>1. PICK out \in {"TRUE", "FALSE"} :
            /\ Visit(w, s) /\ SelectedBy(w, s) /\ s \in Condition
            /\ Settle(w, s, out) /\ attempted' = attempted
    BY <1>3 DEF CompleteCondition
  <2> QED
    BY <2>1, SettleFollows
<1>4. ASSUME NEW s \in Step, ClaimStep(w, s)
      PROVE  RowsFollow
  <2>1. /\ Visit(w, s) /\ SelectedBy(w, s) /\ step[s] \notin TerminalStep
        /\ attempted' = attempted \cup {s} /\ matched' = matched
        /\ step' = [step EXCEPT ![s] = "CLAIMED"]
    BY <1>4 DEF ClaimStep, BeginAction, ActionReady
  <2>2. step'[s] = "CLAIMED" /\ \A t \in Step : t # s => step'[t] = step[t]
    BY <1>0, <2>1 DEF NativeTypeOK
  <2>3. ~Decided(s) /\ ~Decided(s)'
    BY <2>1, <2>2, UndecidedRow DEF Decided, Persisted
  <2>4. \A t \in Step : t # s => Persisted(t)' = Persisted(t)
    BY <2>1, <2>2 DEF Persisted
  <2>5. \A t \in matched' : step'[t] = "SUCCEEDED"
    <3>1. s \notin matched /\ matched \subseteq Step
      BY <1>0, <2>1, NativeAssumption DEF RowsOK, TerminalStep, NativeTypeOK
    <3> QED
      BY <2>1, <2>2, <3>1 DEF RowsOK
  <2>6. /\ \A e \in Edge : e.to = s => Decided(e.from)
        /\ Selected(s, RowOutcomes)
    BY <2>1, VisitSees
  <2>7. RowsOK'
    BY <1>0, <2>1, <2>3, <2>4, <2>5, <2>6, RowDecided
  <2> QED
    BY <2>3, <2>4, <2>7 DEF RowsFollow
<1>5. ASSUME RecordOutcome(w)
      PROVE  RowsFollow
  <2>0. attempted' = attempted /\ matched' = matched
    BY <1>5 DEF RecordOutcome, stepVars
  <2> PICK s \in Step : s = worker[w].step
    BY <1>5 DEF RecordOutcome, At, CallsReady, Ready
  <2>1. CASE step[s] \in TerminalStep
    <3>1. step' = step
      BY <1>5, <2>1 DEF RecordOutcome, stepVars
    <3>2. \A t \in Step : Persisted(t)' = Persisted(t)
      BY <2>0, <3>1 DEF Persisted
    <3> QED
      BY <1>0, <2>0, <3>1, <3>2, RowsKept DEF RowsFollow, RowsOK
  <2>2. CASE step[s] \notin TerminalStep
    <3>1. PICK o \in {"SUCCESS", "FAILURE", "NONE"} :
              /\ s \in attempted /\ ~Decided(s)
              /\ Persisted(s)' = o
              /\ \A t \in Step : t # s => Persisted(t)' = Persisted(t) /\ step'[t] = step[t]
              /\ s \notin matched
      BY <1>5, <2>2, RecordRow
    <3>2. \A t \in matched' : step'[t] = "SUCCEEDED"
      BY <1>0, <2>0, <3>1, NativeAssumption DEF RowsOK, NativeTypeOK
    <3>3. Selected(s, RowOutcomes) /\ \A e \in Edge : e.to = s => Decided(e.from)
      BY <3>1 DEF RowsOK
    <3>4. RowsOK'
      BY <1>0, <2>0, <3>1, <3>2, <3>3, RowDecided
    <3> QED
      BY <3>1, <3>4 DEF RowsFollow
  <2> QED
    BY <2>1, <2>2
<1>6. ASSUME ~Writes(w)
      PROVE  RowsFollow
  <2>1. step' = step /\ matched' = matched /\ attempted' = attempted
    BY <1>6, RowsFrame
  <2>2. \A t \in Step : Persisted(t)' = Persisted(t)
    BY <2>1 DEF Persisted
  <2> QED
    BY <1>0, <2>1, <2>2, RowsKept DEF RowsFollow, RowsOK
<1> QED
  BY <1>1, <1>2, <1>3, <1>4, <1>5, <1>6 DEF Writes

\* The steps that leave a worker's copy as it is or drop it, and conclude no
\* success.
Kept(w) ==
    /\ worker'[w].outcomes \in {worker[w].outcomes, Nothing}
    /\ worker'[w].pc = "complete" => worker'[w].verdict # "SUCCEEDED"

LEMMA KeptStep ==
    ASSUME TypeOK, CallsReady, NEW w \in Worker, WorkerStep(w),
           ~WalkEnds(w), ~RecordOutcome(w),
           \A s \in Step : ~SkipStep(w, s) /\ ~CompleteCondition(w, s)
    PROVE  Kept(w) \/ (LoadProgress(w) /\ Loading(w))
<1>0. worker \in [Worker -> Dispatch] /\ NativeTypeOK
  BY DEF TypeOK, NativeTypeOK
<1>1. ASSUME Goto(w, "dispatch") \/ Goto(w, "claim") \/ Goto(w, "load")
      PROVE  Kept(w)
  BY <1>0, <1>1, GotoCall DEF Kept
<1>2. ASSUME Return(w, TRUE) \/ Return(w, FALSE)
      PROVE  Kept(w)
  BY <1>0, <1>2, ReturnCall DEF Kept
<1>3. ASSUME NEW v \in {"NONE", "UNKNOWN"} \cup TerminalStatus, v # "SUCCEEDED", Conclude(w, v)
      PROVE  Kept(w)
  BY <1>0, <1>3, ConcludeCall DEF Kept
<1>4. ASSUME Begin(w) \/ AcquireLease(w) \/ ClaimExecution(w) \/ ClaimNothing(w) \/ RejectWrite(w)
      PROVE  Kept(w)
  BY <1>1, <1>2, <1>4 DEF Begin, AcquireLease, ClaimExecution, ClaimNothing, RejectWrite
<1>5. ASSUME CompleteExecution(w)
      PROVE  Kept(w)
  <2>1. Return(w, TRUE) \/ Return(w, FALSE)
    BY <1>5 DEF CompleteExecution
  <2> QED
    BY <1>2, <2>1
<1>6. ASSUME ClaimRefused(w)
      PROVE  Kept(w)
  BY <1>0, <1>6, ClaimRefusedCall, RejectCall DEF Kept
<1>7. ASSUME RejectRead(w)
      PROVE  Kept(w)
  <2> DEFINE c == [worker[w] EXCEPT !.pc = "rejecting",
                     !.rows = {s \in Step : step[s] \in ActiveStep}]
  <2>1. c \in Dispatch /\ c.pc = "rejecting" /\ c.outcomes = worker[w].outcomes
    BY <1>0 DEF Dispatch
  <2>2. Become(w, c) \/ Return(w, FALSE)
    BY <1>7 DEF RejectRead
  <2> HIDE DEF c
  <2> QED
    BY <1>0, <1>2, <2>1, <2>2, BecomeCall DEF Kept
<1>8. ASSUME NEW s \in Step, ClaimStep(w, s) \/ RepeatStep(w, s)
      PROVE  Kept(w)
  <2> DEFINE c == [worker[w] EXCEPT !.pc = "call", !.step = s]
  <2>1. c \in Dispatch /\ c.pc = "call" /\ c.outcomes = worker[w].outcomes
    BY <1>0 DEF Dispatch
  <2>2. Become(w, c)
    BY <1>8 DEF ClaimStep, RepeatStep
  <2> HIDE DEF c
  <2> QED
    BY <1>0, <2>1, <2>2, BecomeCall DEF Kept
<1>9. ASSUME NEW s \in Step, StepTooLate(w, s) \/ OutcomeUnknown(w, s) \/ ActionRefused(w, s)
      PROVE  Kept(w)
  <2>1. \E v \in {"UNKNOWN", "FAILED", "TIMED_OUT"} : Conclude(w, v)
    BY <1>9, GuardType DEF StepTooLate, OutcomeUnknown, ActionRefused
  <2> QED
    BY <1>3, <2>1 DEF TerminalStatus
<1>10. ASSUME CredentialUnavailable(w)
       PROVE  Kept(w)
  BY <1>3, <1>10 DEF CredentialUnavailable, TerminalStatus
<1>11. ASSUME CallConnector(w)
       PROVE  Kept(w)
  <2>1. \E r \in Result : Recording(w, r)
    BY <1>11 DEF CallConnector, Recording, Result
  <2> QED
    BY <1>0, <2>1, RecordCall DEF Kept
<1>12. ASSUME LoadProgress(w)
       PROVE  Kept(w) \/ (LoadProgress(w) /\ Loading(w))
  <2>1. Loading(w) \/ Conclude(w, "UNKNOWN") \/ Conclude(w, "FAILED")
    BY <1>12, Zenon DEF LoadProgress, Loading, RowOutcomes
  <2> QED
    BY <1>3, <1>12, <2>1 DEF TerminalStatus
<1> QED
  BY <1>4, <1>5, <1>6, <1>7, <1>8, <1>9, <1>10, <1>11, <1>12 DEF WorkerStep

\* The steps that are not kept.
LEMMA SettleCopy ==
    ASSUME TypeOK, RowsOK, NEW w \in Worker, NEW s \in Step,
           SkipStep(w, s) \/ CompleteCondition(w, s)
    PROVE  /\ worker'[w].pc = "complete" => worker'[w].verdict # "SUCCEEDED"
           /\ \/ worker'[w].outcomes = worker[w].outcomes
              \/ \E o \in StepOutcome :
                    /\ worker'[w].outcomes = [worker[w].outcomes EXCEPT ![s] = o]
                    /\ Persisted(s)' = o
<1>0. NativeTypeOK /\ worker \in [Worker -> Dispatch]
  BY DEF TypeOK, NativeTypeOK
<1>1. PICK out \in {"TRUE", "FALSE", "SKIPPED"} :
          Settle(w, s, out) /\ (out # "SKIPPED" => s \in Condition)
  BY DEF SkipStep, CompleteCondition
<1>2. worker[w].pc = "walk"
  BY DEF SkipStep, CompleteCondition, Visit, At
<1>3. CASE step[s] \in TerminalStep
  <2>1. Conclude(w, "FAILED")
    BY <1>1, <1>3 DEF Settle
  <2> QED
    BY <1>0, <2>1, ConcludeCall DEF TerminalStatus
<1>4. CASE step[s] \notin TerminalStep
  <2>1. s \in matched => step[s] = "SUCCEEDED"
    BY DEF RowsOK
  <2>2. /\ Persisted(s)' = out
        /\ worker'[w].outcomes = [worker[w].outcomes EXCEPT ![s] = out]
        /\ worker'[w].pc = worker[w].pc
    BY <1>0, <1>1, <1>4, <2>1, SettleRow
  <2> QED
    BY <1>2, <2>2 DEF StepOutcome
<1> QED
  BY <1>3, <1>4

LEMMA RecordCopy ==
    ASSUME TypeOK, CallsReady, EffectOK, RowsOK, NEW w \in Worker, RecordOutcome(w)
    PROVE  /\ worker'[w].pc = "complete" => worker'[w].verdict # "SUCCEEDED"
           /\ \/ worker'[w].outcomes = worker[w].outcomes
              \/ \E s \in Step, o \in StepOutcome :
                    /\ worker'[w].outcomes = [worker[w].outcomes EXCEPT ![s] = o]
                    /\ Persisted(s)' = o
<1>0. NativeTypeOK /\ worker \in [Worker -> Dispatch]
  BY DEF TypeOK, NativeTypeOK
<1> PICK s \in Step : s = worker[w].step
  BY DEF RecordOutcome, At, CallsReady, Ready
<1>1. CASE step[s] \in TerminalStep
  <2>1. Conclude(w, "FAILED")
    BY <1>1 DEF RecordOutcome
  <2> QED
    BY <1>0, <2>1, ConcludeCall DEF TerminalStatus
<1>2. CASE step[s] \notin TerminalStep
  <2>1. PICK o \in {"SUCCESS", "FAILURE", "NONE"} :
            /\ Persisted(s)' = o
            /\ o = "NONE" => Conclude(w, "UNKNOWN")
            /\ o # "NONE" => WalkingOn(w, s, o)
    BY <1>2, RecordRow
  <2>2. o \in StepOutcome
    BY DEF StepOutcome
  <2>3. CASE o = "NONE"
    BY <1>0, <2>1, <2>3, ConcludeCall
  <2>4. CASE o # "NONE"
    <3>1. /\ worker'[w].pc = "walk"
          /\ worker'[w].outcomes = [worker[w].outcomes EXCEPT ![s] = o]
      BY <1>0, <2>1, <2>2, <2>4, WalkOnCall
    <3> QED
      BY <2>1, <2>2, <3>1
  <2> QED
    BY <2>3, <2>4
<1> QED
  BY <1>1, <1>2

LEMMA CopiesStep ==
    ASSUME TypeOK, CallsReady, EffectOK, RowsOK, CopiesOK,
           NEW w \in Worker, WorkerStep(w), RowsFollow
    PROVE  CopiesOK'
<1>0. /\ worker \in [Worker -> Dispatch] /\ worker' \in [Worker -> Dispatch]
      /\ \A v \in Worker : v # w => worker'[v] = worker[v]
  BY WorkerType DEF Moves, TypeOK, NativeTypeOK
<1>1. \A v \in Worker, t \in Step :
          worker[v].outcomes[t] # "NONE" => worker[v].outcomes[t] = Persisted(t)'
  BY DEF CopiesOK, RowsFollow, Decided
<1>2. SUFFICES \A t \in Step :
          worker'[w].outcomes[t] # "NONE" => worker'[w].outcomes[t] = Persisted(t)'
  BY <1>0, <1>1, <1>2 DEF CopiesOK
<1>3. \A t \in Step : Nothing[t] = "NONE"
  BY DEF Nothing
<1>4. CASE worker'[w].outcomes \in {worker[w].outcomes, Nothing}
  BY <1>1, <1>3, <1>4
<1>5. ASSUME NEW s \in Step, NEW o \in StepOutcome, Persisted(s)' = o,
             worker'[w].outcomes = [worker[w].outcomes EXCEPT ![s] = o]
      PROVE  \A t \in Step :
                worker'[w].outcomes[t] # "NONE" => worker'[w].outcomes[t] = Persisted(t)'
  <2>1. worker[w].outcomes \in [Step -> StepOutcome]
    BY <1>0 DEF Dispatch
  <2> QED
    BY <1>1, <1>5, <2>1
<1>6. CASE LoadProgress(w) /\ Loading(w)
  <2>1. step' = step /\ matched' = matched
    BY <1>6 DEF LoadProgress, stepVars
  <2>2. \A t \in Step : Persisted(t)' = Persisted(t)
    BY <2>1 DEF Persisted
  <2>3. worker'[w].outcomes = RowOutcomes
    BY <1>0, <1>6, LoadCall
  <2> QED
    BY <2>2, <2>3 DEF RowOutcomes
<1>7. CASE WalkEnds(w)
  BY <1>0, <1>4, <1>7, ConcludeCall DEF WalkEnds, TerminalStatus
<1>8. CASE RecordOutcome(w)
  BY <1>4, <1>5, <1>8, RecordCopy
<1>9. ASSUME NEW s \in Step, SkipStep(w, s) \/ CompleteCondition(w, s)
      PROVE  \A t \in Step :
                worker'[w].outcomes[t] # "NONE" => worker'[w].outcomes[t] = Persisted(t)'
  BY <1>4, <1>5, <1>9, SettleCopy
<1> QED
  BY <1>4, <1>6, <1>7, <1>8, <1>9, KeptStep DEF Kept

\* Whoever concludes success has seen every step decided and none failed.
LEMMA VerdictStep ==
    ASSUME TypeOK, CallsReady, EffectOK, RowsOK, CopiesOK, VerdictOK,
           NEW w \in Worker, WorkerStep(w), ~RejectWrite(w), RowsFollow
    PROVE  VerdictOK'
<1>0. /\ worker \in [Worker -> Dispatch]
      /\ \A v \in Worker : v # w => worker'[v] = worker[v]
  BY WorkerType DEF Moves, TypeOK, NativeTypeOK
<1>1. Finished => Finished'
  BY DEF Finished, RowsFollow, Decided
<1>2. CASE WalkEnds(w)
  <2> DEFINE v == IF \E s \in Step : worker[w].outcomes[s] = "FAILURE" THEN "FAILED" ELSE "SUCCEEDED"
  <2>1. Conclude(w, v) /\ v \in TerminalStatus /\ status' = status
    BY <1>2 DEF WalkEnds, TerminalStatus, executionVars
  <2>2. worker'[w].verdict = v
    BY <1>0, <2>1, ConcludeCall
  <2>3. ASSUME v = "SUCCEEDED", NEW s \in Step
        PROVE  Persisted(s) \notin {"NONE", "FAILURE"}
    <3>1. worker[w].outcomes[s] # "NONE"
      BY <1>2 DEF WalkEnds, Done, Step
    <3>2. worker[w].outcomes[s] # "FAILURE"
      BY <2>3
    <3> QED
      BY <3>1, <3>2 DEF CopiesOK
  <2>4. v = "SUCCEEDED" => Finished
    BY <2>3 DEF Finished
  <2> QED
    BY <1>0, <1>1, <2>1, <2>2, <2>4 DEF VerdictOK
<1>3. CASE CompleteExecution(w)
  <2>1. worker[w].pc = "complete" /\ (status' = status \/ status' = worker[w].verdict)
    BY <1>3 DEF CompleteExecution, At
  <2>2. worker'[w].pc = "idle"
    <3>1. Return(w, TRUE) \/ Return(w, FALSE)
      BY <1>3 DEF CompleteExecution
    <3> QED
      BY <3>1, ReturnCall DEF TypeOK
  <2> QED
    BY <1>0, <1>1, <2>1, <2>2 DEF VerdictOK
<1>4. CASE ~WalkEnds(w) /\ ~CompleteExecution(w)
  <2>1. worker'[w].pc = "complete" => worker'[w].verdict # "SUCCEEDED"
    <3>1. CASE RecordOutcome(w)
      BY <3>1, RecordCopy
    <3>2. ASSUME NEW s \in Step, SkipStep(w, s) \/ CompleteCondition(w, s)
          PROVE  worker'[w].pc = "complete" => worker'[w].verdict # "SUCCEEDED"
      BY <3>2, SettleCopy
    <3>3. Loading(w) => worker'[w].pc = "walk"
      BY <1>0, LoadCall
    <3> QED
      BY <1>4, <3>1, <3>2, <3>3, KeptStep DEF Kept
  <2>2. status' = status \/ status' = "RUNNING"
    BY <1>4, WorkerFrame DEF ClaimExecution
  <2> QED
    BY <1>0, <1>1, <2>1, <2>2 DEF VerdictOK
<1> QED
  BY <1>2, <1>3, <1>4

\* The rows of the conditions and the actions, and who has a result in hand.
LEMMA EffectStep ==
    ASSUME TypeOK, CallsReady, EffectOK, CallOK,
           NEW w \in Worker, WorkerStep(w)
    PROVE  EffectOK'
<1>0. /\ worker \in [Worker -> Dispatch]
      /\ \A v \in Worker : v # w => worker'[v] = worker[v]
      /\ NativeTypeOK
  BY WorkerType DEF Moves, TypeOK, NativeTypeOK
<1>1. CASE CallConnector(w)
  <2> PICK s \in Step : s = worker[w].step /\ s \in attempted
    BY <1>1 DEF CallConnector, At, CallsReady, Ready, CallOK
  <2>1. /\ step' = step /\ reported' = reported /\ attempted' = attempted
        /\ \/ effect' = effect /\ effect_by' = effect_by
           \/ TakeEffect(w, s)
    BY <1>1 DEF CallConnector, stepVars, effectVars
  <2>2. /\ \A t \in Step : effect'[t] >= effect[t]
        /\ \A t \in Step : effect_by'[t] # {} => effect'[t] > 0
    BY <1>0, <2>1 DEF TakeEffect, NativeTypeOK, EffectOK
  <2>3. PICK r \in {"SUCCEEDED", "FAILED", "UNKNOWN"} :
            /\ Recording(w, r)
            /\ r = "SUCCEEDED" => TakeEffect(w, s) \/ OnRecord(w, s)
    BY <1>1 DEF CallConnector, Recording
  <2>4. \A t \in Step : effect[t] > 0 => effect'[t] > 0
    <3>1. effect \in [Step -> Nat] /\ effect' \in [Step -> Nat]
      BY <1>0, <2>1 DEF TakeEffect, NativeTypeOK
    <3> QED
      BY <2>2, <3>1
  <2>5. r = "SUCCEEDED" => effect'[s] > 0
    <3>1. TakeEffect(w, s) => effect'[s] > 0
      BY <1>0 DEF TakeEffect, NativeTypeOK
    <3>2. OnRecord(w, s) => effect[s] > 0
      BY DEF OnRecord, EffectOK
    <3> QED
      BY <2>3, <2>4, <3>1, <3>2
  <2>6. worker'[w].step = s /\ worker'[w].result = r
    BY <1>0, <2>3, RecordCall DEF Result
  <2>7. attempted \subseteq Step
    BY <1>0 DEF NativeTypeOK
  <2> QED
    BY <1>0, <2>1, <2>2, <2>4, <2>5, <2>6, <2>7 DEF EffectOK
<1>2. CASE ~CallConnector(w)
  <2>1. effect' = effect /\ effect_by' = effect_by
    BY <1>2, EffectFrame
  <2>2. attempted \subseteq attempted'
    BY WorkerFrame DEF ClaimStep
  <2>3. worker'[w].pc # "record"
    <3>1. CASE ClaimExecution(w) \/ RejectRead(w) \/ \E s \in Step : ClaimStep(w, s) \/ RepeatStep(w, s)
      BY <3>1, MarkedPc
    <3>2. CASE ~(ClaimExecution(w) \/ RejectRead(w) \/ \E s \in Step : ClaimStep(w, s) \/ RepeatStep(w, s))
      BY <1>2, <3>2, OrdinaryPc
    <3> QED
      BY <3>1, <3>2
  <2>4. SUFFICES \A s \in Step \ Condition : step'[s] = "SUCCEEDED" =>
                    effect[s] > 0 /\ reported'[s] = "SUCCEEDED"
    BY <1>0, <2>1, <2>2, <2>3, <2>4 DEF EffectOK
  <2>5. CASE RecordOutcome(w)
    <3> PICK s \in Step : s = worker[w].step
      BY <2>5 DEF RecordOutcome, At, CallsReady, Ready
    <3>1. worker[w].result = "SUCCEEDED" => effect[s] > 0
      BY <2>5 DEF RecordOutcome, At, EffectOK
    <3>2. \/ step' = step /\ reported' = reported
          \/ /\ step' = [step EXCEPT ![s] = worker[w].result]
             /\ reported' = [reported EXCEPT ![s] = worker[w].result]
      BY <2>5 DEF RecordOutcome, stepVars
    <3> QED
      BY <1>0, <3>1, <3>2 DEF EffectOK, NativeTypeOK
  <2>6. ASSUME ~RecordOutcome(w), NEW s \in Step \ Condition
        PROVE  /\ reported'[s] = reported[s]
               /\ step'[s] = "SUCCEEDED" => step[s] = "SUCCEEDED"
    <3>1. reported' = reported
      BY <2>6, RowsFrame
         DEF Writes, ClaimExecution, RejectWrite, SkipStep, CompleteCondition, ClaimStep
    <3>2. CASE ClaimExecution(w) \/ RejectWrite(w)
      BY <3>2 DEF ClaimExecution, RejectWrite
    <3>3. ASSUME NEW t \in Step, SkipStep(w, t)
          PROVE  step'[s] = "SUCCEEDED" => step[s] = "SUCCEEDED"
      BY <1>0, <3>3 DEF SkipStep, Settle, Conclusion, NativeTypeOK
    <3>4. ASSUME NEW t \in Step, CompleteCondition(w, t)
          PROVE  step'[s] = "SUCCEEDED" => step[s] = "SUCCEEDED"
      BY <1>0, <3>4 DEF CompleteCondition, Settle, Conclusion, NativeTypeOK
    <3>5. ASSUME NEW t \in Step, ClaimStep(w, t)
          PROVE  step'[s] = "SUCCEEDED" => step[s] = "SUCCEEDED"
      BY <1>0, <3>5 DEF ClaimStep, NativeTypeOK
    <3>6. CASE ~Writes(w)
      BY <3>6, RowsFrame
    <3> QED
      BY <2>6, <3>1, <3>2, <3>3, <3>4, <3>5, <3>6 DEF Writes
  <2> QED
    BY <2>5, <2>6 DEF EffectOK
<1> QED
  BY <1>1, <1>2

LEMMA NativePath ==
    ASSUME TypedInv, RowLockOK, RunnerOK, CallOK, PathOK, engine = "NATIVE", NativeNext
    PROVE  PathOK'
<1>0. /\ TypeOK /\ CallsReady /\ EffectOK
      /\ ~Refused => QueuedOK /\ RowsOK /\ CopiesOK /\ VerdictOK
  BY DEF TypedInv, PathOK
<1>1. ASSUME NEW w \in Worker, WorkerStep(w)
      PROVE  PathOK'
  <2>1. EffectOK'
    BY <1>0, <1>1, EffectStep
  <2>2. ASSUME ~Refused'
        PROVE  QueuedOK' /\ RowsOK' /\ CopiesOK' /\ VerdictOK'
    <3>1. ~RejectWrite(w)
      BY <1>0, <2>2 DEF RejectWrite, At, CallsReady, Ready, Refused
    <3>2. ~Refused
      <4>1. CompleteExecution(w) => ~Refused
        BY <2>2 DEF CompleteExecution, StillOpen, Ended, TerminalStatus, Refused
      <4>2. ClaimExecution(w) => ~Refused
        BY DEF ClaimExecution, Refused
      <4> QED
        BY <1>1, <2>2, <3>1, <4>1, <4>2, WorkerFrame DEF Refused
    <3>3. RowsFollow
      BY <1>0, <1>1, <3>1, <3>2, RowsStep
    <3>4. CopiesOK' /\ VerdictOK'
      BY <1>0, <1>1, <3>1, <3>2, <3>3, CopiesStep, VerdictStep
    <3>5. QueuedOK'
      <4>1. ~(status' = "QUEUED" /\ Writes(w))
        <5>1. Writes(w) => ClaimExecution(w) \/ worker[w].pc \in Admitted
          BY <3>1 DEF Writes, RecordOutcome, SkipStep, CompleteCondition, ClaimStep, BeginAction,
                      Visit, At, Admitted
        <5>2. worker[w].pc \in Admitted => status # "QUEUED"
          BY DEF RunnerOK, TypedInv, DispatchOK
        <5>3. CompleteExecution(w) => status' = status \/ status' \in TerminalStatus
          BY DEF CompleteExecution, Storable
        <5> QED
          BY <1>1, <3>1, <5>1, <5>2, <5>3, WorkerFrame DEF ClaimExecution, TerminalStatus
      <4>2. status' = "QUEUED" => status = "QUEUED"
        BY <1>1, <3>1, WorkerFrame
           DEF CompleteExecution, Storable, TerminalStatus, ClaimExecution
      <4> QED
        BY <1>0, <1>1, <3>2, <4>1, <4>2, RowsFrame DEF QueuedOK
    <3> QED
      BY <3>3, <3>4, <3>5 DEF RowsFollow
  <2> QED
    BY <2>1, <2>2 DEF PathOK
<1>2. ASSUME LeaseLost \/ \E w \in Worker : Crash(w)
      PROVE  PathOK'
  <2>1. /\ \A v \in Worker : worker'[v] = worker[v] \/ worker'[v] = Idle
        /\ UNCHANGED <<engine, status, stepVars, effectVars>>
    <3>1. ASSUME NEW w \in Worker, Crash(w)
          PROVE  \A v \in Worker : worker'[v] = worker[v] \/ worker'[v] = Idle
      BY <1>0, <3>1, IdleType, BecomeCall DEF Crash, TypeOK, NativeTypeOK
    <3> QED
      BY <1>2, <3>1 DEF LeaseLost, Crash, executionVars
  <2>2. Idle.pc = "idle" /\ \A s \in Step : Idle.outcomes[s] = "NONE"
    BY DEF Idle, Nothing
  <2>3. EffectOK'
    BY <1>0, <2>1, <2>2 DEF EffectOK, stepVars, effectVars
  <2>4. /\ \A s \in Step : Persisted(s)' = Persisted(s)
        /\ RowOutcomes' = RowOutcomes
    BY <2>1 DEF Persisted, RowOutcomes, stepVars
  <2>5. CopiesOK => CopiesOK'
    BY <2>1, <2>2, <2>4 DEF CopiesOK
  <2>6. VerdictOK => VerdictOK'
    BY <2>1, <2>2, <2>4 DEF VerdictOK, Finished
  <2>7. RowsOK => RowsOK'
    <3>1. attempted \subseteq Step
      BY <1>0 DEF TypeOK, NativeTypeOK
    <3> QED
      BY <2>1, <2>4, <3>1, RowsKept DEF stepVars, RowsOK
  <2>8. QueuedOK => QueuedOK'
    BY <2>1 DEF QueuedOK, stepVars
  <2> QED
    BY <1>0, <2>1, <2>3, <2>5, <2>6, <2>7, <2>8 DEF PathOK, Refused
<1>3. ASSUME Cancel
      PROVE  PathOK'
  <2>1. Refused'
    BY <1>3 DEF Cancel, Refused
  <2>2. EffectOK'
    BY <1>0, <1>3 DEF Cancel, EffectOK, effectVars
  <2> QED
    BY <2>1, <2>2 DEF PathOK
<1> QED
  BY <1>1, <1>2, <1>3 DEF NativeNext

\* The rest of the system leaves the path alone.
LEMMA PathFrame ==
    ASSUME TypeOK, PathOK, UNCHANGED nativeVars, engine' = engine,
           \/ engine = "N8N"
           \/ status' = status
           \/ Refused'
    PROVE  PathOK'
<1>1. EffectOK'
  BY DEF PathOK, EffectOK, nativeVars
<1>2. ASSUME status' = status
      PROVE  PathOK'
  <2>1. /\ \A s \in Step : Persisted(s)' = Persisted(s)
        /\ RowOutcomes' = RowOutcomes
    BY DEF Persisted, RowOutcomes, nativeVars
  <2>2. CopiesOK => CopiesOK'
    BY <2>1 DEF CopiesOK, nativeVars
  <2>3. VerdictOK => VerdictOK'
    BY <1>2, <2>1 DEF VerdictOK, Finished, nativeVars
  <2>4. RowsOK => RowsOK'
    <3>1. attempted \subseteq Step
      BY DEF TypeOK, NativeTypeOK
    <3> QED
      BY <2>1, <3>1, RowsKept DEF nativeVars, RowsOK
  <2>5. QueuedOK => QueuedOK'
    BY <1>2 DEF QueuedOK, nativeVars
  <2> QED
    BY <1>1, <1>2, <2>2, <2>3, <2>4, <2>5 DEF PathOK, Refused
<1> QED
  BY <1>1, <1>2 DEF PathOK

LEMMA PathInit == Init => PathOK
<1> SUFFICES ASSUME Init
             PROVE  PathOK
  OBVIOUS
<1>1. /\ \A s \in Step : Persisted(s) = "NONE"
      /\ status = "QUEUED" /\ attempted = {} /\ matched = {}
      /\ \A s \in Step : step[s] = "ABSENT" /\ effect_by[s] = {}
      /\ \A w \in Worker : worker[w] = Idle
  BY DEF Init, ExecutionInit, NativeInit, Persisted
<1>2. Idle.pc = "idle" /\ \A s \in Step : Idle.outcomes[s] = "NONE"
  BY DEF Idle, Nothing
<1>3. EffectOK
  BY <1>1, <1>2 DEF EffectOK
<1>4. QueuedOK /\ RowsOK /\ CopiesOK /\ VerdictOK
  BY <1>1, <1>2 DEF QueuedOK, RowsOK, Decided, CopiesOK, VerdictOK
<1> QED
  BY <1>3, <1>4 DEF PathOK

LEMMA PathStep ==
    ASSUME TypedInv, RowLockOK, RunnerOK, CallOK, PathOK, [Next]_vars
    PROVE  PathOK'
<1>1. CASE engine = "N8N" /\ N8nNext /\ UNCHANGED nativeVars
  BY <1>1, N8nFrame, PathFrame DEF TypedInv
<1>2. CASE engine = "NATIVE" /\ NativeNext
  BY <1>2, NativePath
<1>3. CASE /\ DeadlinePasses \/ ReconcileTimeouts \/ SwitchSettings
           /\ UNCHANGED <<n8nVars, nativeVars>>
  BY <1>3, PathFrame DEF TypedInv, DeadlinePasses, ReconcileTimeouts, SwitchSettings, Refused
<1>4. CASE UNCHANGED vars
  BY <1>4, PathFrame DEF TypedInv, vars, executionVars
<1> QED
  BY <1>1, <1>2, <1>3, <1>4 DEF Next

Inv == TypedInv /\ RowLockOK /\ RunnerOK /\ CallOK /\ PathOK

LEMMA InitInv == Init => Inv
<1> SUFFICES ASSUME Init
             PROVE  RowLockOK /\ RunnerOK /\ CallOK
  BY TypedInvInit, PathInit DEF Inv
<1>1. \A w \in Worker : worker[w].pc = "idle"
  BY DEF Init, NativeInit, Idle
<1>2. adapter = 0 /\ \A s \in Step : effect[s] = 0
  BY DEF Init, ExecutionInit, NativeInit
<1> QED
  BY <1>1, <1>2 DEF RowLockOK, RunnerOK, Admitted, CallOK, ExternalEffectOnce

LEMMA InvStep == Inv /\ [Next]_vars => Inv'
<1> SUFFICES ASSUME Inv, [Next]_vars
             PROVE  Inv'
  OBVIOUS
<1>0. TypedInv' /\ PathOK'
  BY TypedInvStep, PathStep DEF Inv
<1>1. CASE engine = "N8N" /\ N8nNext /\ UNCHANGED nativeVars
  <2>1. /\ \A w \in Worker : worker'[w].pc = "idle"
        /\ attempted' = attempted /\ effect' = effect /\ engine' = "N8N"
    BY <1>1, N8nFrame DEF Inv, TypedInv, EngineOK, nativeVars
  <2> QED
    BY <1>0, <2>1 DEF Inv, RowLockOK, RunnerOK, Admitted, CallOK, ExternalEffectOnce
<1>2. CASE engine = "NATIVE" /\ NativeNext /\ UNCHANGED n8nVars
  BY <1>0, <1>2, RowLockStep, RunnerStep, CallStep DEF Inv, TypedInv
<1>3. CASE /\ DeadlinePasses \/ ReconcileTimeouts \/ SwitchSettings
           /\ UNCHANGED <<n8nVars, nativeVars>>
  BY <1>0, <1>3
     DEF Inv, RowLockOK, RunnerOK, CallOK, ExternalEffectOnce, DeadlinePasses, ReconcileTimeouts,
         SwitchSettings, nativeVars
<1>4. CASE UNCHANGED vars
  BY <1>0, <1>4
     DEF Inv, RowLockOK, RunnerOK, CallOK, ExternalEffectOnce, vars, executionVars, nativeVars
<1> QED
  BY <1>1, <1>2, <1>3, <1>4 DEF Next

LEMMA InvHolds == SafetySpec => []Inv
<1> QED
  BY InitInv, InvStep, PTL DEF SafetySpec

-----------------------------------------------------------------------------
(* The theorems.                                                           *)

\* The row, the tables and the calls in flight keep their shape, and no
\* eleventh attempt is ever needed (TypeOK).
THEOREM TypeCorrect == SafetySpec => []TypeOK
<1>1. Inv => TypeOK
  BY DEF Inv, TypedInv
<1> QED
  BY <1>1, InvHolds, PTL

\* Of all the workflow runs that repeated dispatches and lost answers leave
\* behind, only the one the execution names is told to act (OneRunActs).
THEOREM OneRunActsHolds == SafetySpec => []OneRunActs
<1>1. Inv => OneRunActs
  BY DEF Inv, TypedInv, DispatchOK
<1> QED
  BY <1>1, InvHolds, PTL

\* An execution waits in the queue only while an attempt is left for it
\* (QueuedHasAttemptLeft).
THEOREM QueuedHasAttemptLeftHolds == SafetySpec => []QueuedHasAttemptLeft
<1>1. Inv => QueuedHasAttemptLeft
  BY DEF Inv, TypedInv, DispatchOK
<1> QED
  BY <1>1, InvHolds, PTL

\* Whatever the number of workers, crashes and lost locks, an action that is
\* not retry-safe takes effect once at most (ExternalEffectOnce).
THEOREM ExternalEffectOnceHolds == SafetySpec => []ExternalEffectOnce
<1>1. Inv => ExternalEffectOnce
  BY DEF Inv, CallOK
<1> QED
  BY <1>1, InvHolds, PTL

\* A native execution that says SUCCEEDED tells the truth about every step of
\* its graph, for any graph: however many workers died, lost the lock and
\* went on beside the one that recovered it (SuccessIsTrue).
THEOREM SuccessIsTrueHolds == SafetySpec => []SuccessIsTrue
<1>1. Inv => SuccessIsTrue
  <2> SUFFICES ASSUME Inv, engine = "NATIVE", status = "SUCCEEDED", NEW s \in Step
               PROVE  IF Selected(s, RowOutcomes)
                        THEN /\ step[s] = "SUCCEEDED"
                             /\ s \notin Condition => effect[s] > 0 /\ reported[s] = "SUCCEEDED"
                        ELSE step[s] = "SKIPPED" /\ effect[s] = 0
    BY DEF SuccessIsTrue
  <2>1. EffectOK /\ RowsOK /\ Finished
    BY DEF Inv, PathOK, Refused, VerdictOK
  <2>2. Decided(s) /\ Persisted(s) # "FAILURE"
    BY <2>1 DEF Finished, Decided
  <2>3. CASE Selected(s, RowOutcomes)
    <3>1. Persisted(s) # "SKIPPED"
      BY <2>1, <2>2, <2>3 DEF RowsOK
    <3>2. step[s] = "SUCCEEDED"
      BY <2>2, <3>1 DEF Persisted, Decided
    <3> QED
      BY <2>1, <2>3, <3>2 DEF EffectOK
  <2>4. CASE ~Selected(s, RowOutcomes)
    <3>1. Persisted(s) = "SKIPPED" /\ s \notin attempted
      BY <2>1, <2>2, <2>4 DEF RowsOK
    <3>2. step[s] = "SKIPPED"
      BY <3>1 DEF Persisted
    <3> QED
      BY <2>4, <3>1, <3>2 DEF Inv, CallOK
  <2> QED
    BY <2>3, <2>4
<1> QED
  BY <1>1, InvHolds, PTL

LEMMA LifecycleInit == Init => Lifecycle!Init
BY DEF Init, ExecutionInit, Ended, TerminalStatus, Lifecycle!Init

LEMMA NativeLifecycle ==
    ASSUME Inv, engine = "NATIVE", NativeNext
    PROVE  [Lifecycle!Next]_Lifecycle!vars
<1> USE DEF Inv
<1>1. ASSUME NEW w \in Worker, ClaimExecution(w)
      PROVE  [Lifecycle!Next]_Lifecycle!vars
  <2>1. adapter' = 1 /\ adapter \in {0, 1}
    BY <1>1 DEF ClaimExecution, RunnerOK
  <2>2. ~Ended /\ ~Ended'
    BY <1>1 DEF ClaimExecution, Ended, TerminalStatus
  <2> QED
    BY <2>1, <2>2 DEF Lifecycle!Next, Lifecycle!Admit, Lifecycle!vars
<1>2. ASSUME NEW w \in Worker, RejectWrite(w)
      PROVE  [Lifecycle!Next]_Lifecycle!vars
  <2>1. status \in {"QUEUED", "RUNNING"} /\ status' \in {"FAILED", "TIMED_OUT"} /\ adapter' = adapter
    BY <1>2 DEF RejectWrite, At, RowLockOK, TypedInv, CallsReady, Ready
  <2>2. ~Ended /\ Ended'
    BY <2>1 DEF Ended, TerminalStatus
  <2> QED
    BY <2>1, <2>2 DEF Lifecycle!Next, Lifecycle!Conclude, TerminalStatus
<1>3. ASSUME NEW w \in Worker, CompleteExecution(w)
      PROVE  [Lifecycle!Next]_Lifecycle!vars
  <2>1. adapter # 0 /\ adapter' = adapter
    BY <1>3 DEF CompleteExecution, At, RunnerOK, Admitted
  <2>2. CASE status' = status
    BY <2>1, <2>2 DEF Ended, Lifecycle!vars
  <2>3. CASE status' # status
    <3>1. ~Ended /\ status' \in TerminalStatus
      BY <1>3, <2>3 DEF CompleteExecution, StillOpen, Storable
    <3> QED
      BY <2>1, <3>1 DEF Ended, Lifecycle!Next, Lifecycle!Conclude
  <2> QED
    BY <2>2, <2>3
<1>4. ASSUME NEW w \in Worker, WorkerStep(w),
             ~(ClaimExecution(w) \/ RejectWrite(w) \/ CompleteExecution(w))
      PROVE  [Lifecycle!Next]_Lifecycle!vars
  BY <1>4, WorkerFrame DEF Ended, Lifecycle!vars
<1>5. ASSUME Cancel
      PROVE  [Lifecycle!Next]_Lifecycle!vars
  <2>1. ~Ended /\ status' = "CANCELLED" /\ adapter' = adapter
    BY <1>5 DEF Cancel, ValidTransition, AllowedTransitions, ExecutionStatus, Ended, TerminalStatus,
                TypedInv, TypeOK, ExecutionTypeOK
  <2> QED
    BY <2>1 DEF Ended, TerminalStatus, Lifecycle!Next, Lifecycle!Conclude
<1>6. ASSUME LeaseLost \/ \E w \in Worker : Crash(w)
      PROVE  [Lifecycle!Next]_Lifecycle!vars
  BY <1>6, FaultFrame DEF TypedInv, Ended, Lifecycle!vars
<1> QED
  BY <1>1, <1>2, <1>3, <1>4, <1>5, <1>6 DEF NativeNext

LEMMA N8nLifecycle ==
    ASSUME Inv, N8nNext
    PROVE  [Lifecycle!Next]_Lifecycle!vars
<1> USE DEF Inv
<1>1. ASSUME NEW a \in Attempt, Claim(a)
      PROVE  [Lifecycle!Next]_Lifecycle!vars
  <2>1. adapter = 0 /\ adapter' \in Nat \ {0}
    BY <1>1, N8nAssumption DEF Claim, Claimable, TypedInv, DispatchOK, Attempt
  <2>2. ~Ended /\ ~Ended'
    BY <1>1 DEF Claim, Claimable, Ended, TerminalStatus
  <2> QED
    BY <2>1, <2>2 DEF Lifecycle!Next, Lifecycle!Admit
<1>2. ASSUME NEW a \in Attempt, NEW t \in CallbackStatus, Update(a, t)
      PROVE  [Lifecycle!Next]_Lifecycle!vars
  <2>1. ~Ended
    BY <1>2 DEF Update, ValidTransition, AllowedTransitions, ExecutionStatus, Ended, TerminalStatus,
                TypedInv, TypeOK, ExecutionTypeOK
  <2>2. adapter # 0 /\ adapter' = adapter
    BY <1>2, N8nAssumption DEF Update, TypedInv, DispatchOK, OneRunActs, Attempt
  <2>3. status' \in TerminalStatus
    BY <1>2 DEF Update, CallbackStatus, TerminalStatus
  <2> QED
    BY <2>1, <2>2, <2>3 DEF Ended, Lifecycle!Next, Lifecycle!Conclude
<1>3. ASSUME NEW p \in Process, FailDispatch(p)
      PROVE  [Lifecycle!Next]_Lifecycle!vars
  <2>1. adapter' = adapter /\ \/ status' = status
                              \/ status = "DISPATCHING" /\ status' \in {"FAILED", "QUEUED"}
    BY <1>3 DEF FailDispatch, AfterFailure
  <2> QED
    BY <2>1 DEF Ended, TerminalStatus, Lifecycle!Next, Lifecycle!Conclude, Lifecycle!vars
<1>4. ASSUME NEW p \in Process, Send(p) \/ FinishDispatch(p)
      PROVE  [Lifecycle!Next]_Lifecycle!vars
  BY <1>4 DEF Send, FinishDispatch, Ended, TerminalStatus, Lifecycle!vars
<1>5. ASSUME NEW p \in Process, PostAnswered(p) \/ ProcessCrash(p)
      PROVE  [Lifecycle!Next]_Lifecycle!vars
  BY <1>5 DEF PostAnswered, ProcessCrash, executionVars, Ended, Lifecycle!vars
<1>6. ASSUME NEW a \in Attempt, RunStarts(a) \/ ClaimAnswered(a) \/ UpdateAnswered(a)
      PROVE  [Lifecycle!Next]_Lifecycle!vars
  BY <1>6 DEF RunStarts, ClaimAnswered, UpdateAnswered, executionVars, Ended, Lifecycle!vars
<1> QED
  BY <1>1, <1>2, <1>3, <1>4, <1>5, <1>6 DEF N8nNext

\* Every step of the runtime is a step of an execution's lifecycle or none:
\* one runner, let in before the verdict, success of what ran, and a final
\* verdict, whichever engine has the execution (Lifecycle!SafetySpec).
THEOREM LifecycleSafety == SafetySpec => Lifecycle!SafetySpec
<1>1. Inv /\ [Next]_vars => [Lifecycle!Next]_Lifecycle!vars
  <2> SUFFICES ASSUME Inv, [Next]_vars
               PROVE  [Lifecycle!Next]_Lifecycle!vars
    OBVIOUS
  <2>1. CASE engine = "N8N" /\ N8nNext /\ UNCHANGED nativeVars
    BY <2>1, N8nLifecycle
  <2>2. CASE engine = "NATIVE" /\ NativeNext /\ UNCHANGED n8nVars
    BY <2>2, NativeLifecycle
  <2>3. CASE DeadlinePasses \/ SwitchSettings
    BY <2>3 DEF DeadlinePasses, SwitchSettings, Ended, Lifecycle!vars
  <2>4. CASE ReconcileTimeouts
    BY <2>4 DEF ReconcileTimeouts, Ended, TerminalStatus, Lifecycle!Next, Lifecycle!Conclude
  <2>5. CASE UNCHANGED vars
    BY <2>5 DEF vars, executionVars, Ended, Lifecycle!vars
  <2> QED
    BY <2>1, <2>2, <2>3, <2>4, <2>5 DEF Next
<1> QED
  BY <1>1, LifecycleInit, InvHolds, PTL DEF SafetySpec, Lifecycle!SafetySpec
=============================================================================
