--------------------------- MODULE EventBusProofs ----------------------------
(***************************************************************************)
(* Proofs about EventBus for any sets of events, dispatchers and delivery  *)
(* slots, any batch size, retry limit and number of faults.                *)
(***************************************************************************)
EXTENDS EventBus, TLAPS

-----------------------------------------------------------------------------
(* Type correctness.                                                       *)

\* Adding a copy to a queue keeps it a bag of copies.
LEMMA PutType ==
    ASSUME NEW queue \in [Event \X Attempt -> Nat], NEW e \in Event, NEW a \in Attempt
    PROVE  Put(queue, e, a) \in [Event \X Attempt -> Nat]
BY DEF Put

\* Taking a copy that is there keeps the queue a bag of copies.
LEMMA TakeType ==
    ASSUME NEW queue \in [Event \X Attempt -> Nat], NEW e \in Event, NEW a \in Attempt,
           queue[<<e, a>>] > 0
    PROVE  Take(queue, e, a) \in [Event \X Attempt -> Nat]
BY DEF Take

\* A task that is not idle carries a delivery of a real event.
LEMMA TaskDelivery ==
    ASSUME TypeOK, NEW c \in Consumer, task[c].pc # "idle"
    PROVE  /\ task[c] \in Task
           /\ task[c].event \in Event
           /\ task[c].attempt \in Attempt
BY DEF TypeOK, Task

\* Adding a copy takes none away.
LEMMA PutGrows ==
    ASSUME NEW queue \in [Event \X Attempt -> Nat], NEW e \in Event, NEW a \in Attempt,
           NEW m \in Event \X Attempt
    PROVE  Put(queue, e, a)[m] >= queue[m]
<1>1. CASE m = <<e, a>>
  BY <1>1 DEF Put
<1>2. CASE m # <<e, a>>
  BY <1>2 DEF Put
<1> QED
  BY <1>1, <1>2

\* What the three ways to move a task leave of it.
LEMMA BecomeTask ==
    ASSUME TypeOK, NEW c \in Consumer, NEW t, Become(c, t)
    PROVE  task'[c] = t
BY DEF TypeOK, Become

LEMMA GotoTask ==
    ASSUME TypeOK, NEW c \in Consumer, NEW pc, Goto(c, pc)
    PROVE  /\ task'[c].pc = pc
           /\ task'[c].event = task[c].event
           /\ task'[c].held = task[c].held
<1>1. task[c] \in Task
  BY DEF TypeOK
<1>2. task'[c] = [task[c] EXCEPT !.pc = pc]
  BY BecomeTask DEF Goto
<1> QED
  BY <1>1, <1>2 DEF Task

LEMMA RescueTask ==
    ASSUME TypeOK, NEW c \in Consumer, Rescue(c)
    PROVE  /\ task'[c].pc = "retry"
           /\ task'[c].event = task[c].event
           /\ task'[c].held = task[c].held
<1>1. task[c] \in Task
  BY DEF TypeOK
<1>2. task'[c] = [task[c] EXCEPT !.pc = "retry", !.rescue = TRUE]
  BY BecomeTask DEF Rescue
<1> QED
  BY <1>1, <1>2 DEF Task

\* Requeueing an unacknowledged delivery keeps the main queue well typed.
LEMMA RequeuedType ==
    ASSUME TypeOK, NEW c \in Consumer, task[c].pc # "idle"
    PROVE  Requeued(c) \in [Event \X Attempt -> Nat]
BY TaskDelivery, PutType DEF TypeOK, Requeued

\* The part of TypeOK that is about tasks, and how one task may change in it.
TaskOK == /\ task \in [Consumer -> Task]
          /\ \A c \in Consumer : task[c].pc # "idle" => task[c].event \in Event

LEMMA TaskUpdate ==
    ASSUME TypeOK, NEW c \in Consumer, NEW t \in Task,
           t.pc # "idle" => t.event \in Event,
           Become(c, t)
    PROVE  TaskOK'
BY DEF TypeOK, TaskOK, Become

\* An idle slot is a task.
LEMMA IdleType == Idle \in Task
BY BusAssumption DEF Idle, Task, TaskPc, Attempt

\* Every state the program starts in is well typed.
LEMMA InitType == Init => TypeOK
BY IdleType, BusAssumption
   DEF Init, TypeOK, OutboxStatus, InboxStatus, Idle

\* Every step of producers, dispatchers, broker, consumers and time keeps
\* rows, queues and tasks well typed.
LEMMA TypeStep == TypeOK /\ [Next]_vars => TypeOK'
<1> SUFFICES ASSUME TypeOK, [Next]_vars
             PROVE  TypeOK'
  OBVIOUS
<1> USE BusAssumption DEF OutboxStatus, InboxStatus, outboxVars, dispatcherVars,
                          brokerVars, inboxVars
<1>1. ASSUME NEW e \in Event, Record(e)
      PROVE  TypeOK'
  BY <1>1 DEF Record, TypeOK
<1>2. ASSUME NEW e \in Event, OutboxLeaseLapses(e)
      PROVE  TypeOK'
  BY <1>2 DEF OutboxLeaseLapses, SpendFault, TypeOK
<1>3. ASSUME NEW e \in Event, InboxLeaseLapses(e)
      PROVE  TypeOK'
  <2>1. ASSUME NEW c \in Consumer
        PROVE  /\ task'[c] \in Task
               /\ task'[c].pc = task[c].pc /\ task'[c].event = task[c].event
    <3>1. task[c] \in Task
      BY DEF TypeOK
    <3>2. task'[c] = IF c \in LeaseHolder(e) THEN [task[c] EXCEPT !.live = FALSE]
                                             ELSE task[c]
      BY <1>3 DEF InboxLeaseLapses
    <3> QED
      BY <3>1, <3>2 DEF Task
  <2>2. TaskOK'
    <3>1. task' \in [Consumer -> Task]
      BY <1>3, <2>1 DEF InboxLeaseLapses
    <3> QED
      BY <2>1, <3>1 DEF TypeOK, TaskOK
  <2> QED
    BY <1>3, <2>2 DEF InboxLeaseLapses, SpendFault, TypeOK, TaskOK
<1>4. ASSUME NEW e \in Event, NEW a \in Attempt, RetryExpires(e, a)
      PROVE  TypeOK'
  BY <1>4, PutType, TakeType DEF RetryExpires, TypeOK
<1>5. ASSUME NEW d \in Dispatcher, ClaimOutbox(d)
      PROVE  TypeOK'
  BY <1>5 DEF ClaimOutbox, Claimable, TypeOK
<1>6. ASSUME NEW d \in Dispatcher, NEW e \in Event, Publish(d, e)
      PROVE  TypeOK'
  <2>1. 0 \in Attempt
    BY DEF Attempt
  <2> QED
    <3>1. main' = main \/ main' = Put(main, e, 0)
      BY <1>6 DEF Publish
    <3> QED
      BY <1>6, <2>1, <3>1, PutType DEF Publish, TypeOK
<1>8. ASSUME NEW d \in Dispatcher, NEW e \in Event, PublishFails(d, e)
      PROVE  TypeOK'
  <2>1. 0 \in Attempt
    BY DEF Attempt
  <2>2. Put(main, e, 0) \in [Event \X Attempt -> Nat]
    BY <2>1, PutType DEF TypeOK
  <2>3. main' \in [Event \X Attempt -> Nat]
    BY <1>8, <2>2 DEF PublishFails, TypeOK
  <2>4. UNCHANGED <<retry, dlq, inbox, inbox_lapsed, effects, task>> /\ faults' \in 0..MaxFaults
    BY <1>8 DEF PublishFails, SpendFault, TypeOK
  <2>5. FailOutbox(d, e)
    BY <1>8 DEF PublishFails
  <2> QED
    BY <2>3, <2>4, <2>5 DEF FailOutbox, TypeOK
<1>9. ASSUME NEW d \in Dispatcher, ConfirmOutbox(d)
      PROVE  TypeOK'
  BY <1>9 DEF ConfirmOutbox, TypeOK
<1>10. ASSUME NEW d \in Dispatcher, DispatcherCrash(d)
       PROVE  TypeOK'
  BY <1>10 DEF DispatcherCrash, SpendFault, TypeOK
<1>11. ASSUME NEW c \in Consumer, NEW e \in Event, NEW a \in Attempt, Deliver(c, e, a)
       PROVE  TypeOK'
  <2> DEFINE t == [Idle EXCEPT !.pc = "received", !.event = e, !.attempt = a, !.held = TRUE]
  <2>1. t \in Task /\ t.event \in Event
    BY DEF Idle, Task, TaskPc
  <2>2. TaskOK'
    BY <1>11, <2>1, TaskUpdate DEF Deliver
  <2> QED
    BY <1>11, <2>2, TakeType DEF Deliver, TypeOK, TaskOK
<1>12. ASSUME NEW c \in Consumer, ConsumerStep(c), task[c].pc # "idle"
       PROVE  TypeOK'
  <2>1. /\ task[c] \in Task
        /\ task[c].event \in Event
        /\ task[c].attempt \in Attempt
    BY <1>12, TaskDelivery
  <2>2. \A pc \in TaskPc : [task[c] EXCEPT !.pc = pc] \in Task
                         /\ [task[c] EXCEPT !.pc = pc].event \in Event
    BY <2>1 DEF Task
  <2>3. ASSUME NEW pc \in TaskPc, Goto(c, pc)
        PROVE  TaskOK'
    BY <2>2, <2>3, TaskUpdate DEF Goto
  <2>4. ASSUME Rescue(c)
        PROVE  TaskOK'
    <3> DEFINE t == [task[c] EXCEPT !.pc = "retry", !.rescue = TRUE]
    <3>1. t \in Task /\ t.event \in Event
      BY <2>1 DEF Task, TaskPc
    <3> QED
      BY <2>4, <3>1, TaskUpdate DEF Rescue
  <2>5. \A pc \in TaskPc, l \in BOOLEAN :
            /\ [task[c] EXCEPT !.pc = pc, !.live = l] \in Task
            /\ [task[c] EXCEPT !.pc = pc, !.live = l].event \in Event
    BY <2>1 DEF Task
  <2>6. {"retry", "ack", "mark_failed", "handler"} \subseteq TaskPc
    BY DEF TaskPc
  <2> HIDE DEF OutboxStatus
  <2>7. CASE RejectPermanently(c)
    BY <2>4, <2>7 DEF RejectPermanently, TypeOK, TaskOK
  <2>8. CASE ClaimAcquired(c)
    <3>1. TaskOK'
      BY <2>5, <2>6, <2>8, TaskUpdate DEF ClaimAcquired
    <3> QED
      BY <2>1, <2>8, <3>1 DEF ClaimAcquired, TakeInbox, TypeOK, TaskOK
  <2>9. CASE ClaimDuplicate(c)
    BY <2>3, <2>6, <2>9 DEF ClaimDuplicate, TypeOK, TaskOK
  <2>10. CASE ClaimBusy(c)
    BY <2>3, <2>6, <2>10 DEF ClaimBusy, TypeOK, TaskOK
  <2>11. CASE ClaimRaises(c)
    BY <2>1, <2>4, <2>11 DEF ClaimRaises, TakeInbox, TypeOK, TaskOK
  <2>12. CASE HandlerCommits(c)
    <3>1. TaskOK'
      BY <2>3, <2>5, <2>6, <2>12, TaskUpdate DEF HandlerCommits
    <3> QED
      BY <2>1, <2>12, <3>1 DEF HandlerCommits, CompleteInbox, TypeOK, TaskOK
  <2>13. CASE HandlerFails(c)
    BY <2>3, <2>6, <2>13 DEF HandlerFails, TypeOK, TaskOK
  <2>14. CASE MarkFailed(c)
    <3> DEFINE t == [task[c] EXCEPT !.pc = "retry", !.live = FALSE, !.rescue = TRUE]
    <3>1. t \in Task /\ t.event \in Event
      BY <2>1, <2>6 DEF Task
    <3>2. TaskOK'
      BY <2>5, <2>6, <2>14, <3>1, TaskUpdate DEF MarkFailed
    <3>3. inbox' \in [Event -> InboxStatus] /\ inbox_lapsed' \subseteq Event
      BY <2>1, <2>14 DEF MarkFailed, FailedInbox, TypeOK
    <3> QED
      BY <2>14, <3>2, <3>3 DEF MarkFailed, TypeOK, TaskOK
  <2>15. CASE RetryOrDeadletter(c)
    <3>1. TaskOK'
      BY <2>3, <2>6, <2>15 DEF RetryOrDeadletter
    <3>2. CASE task[c].event \notin Unsupported /\ task[c].attempt < MaxRetries
      <4>1. task[c].attempt + 1 \in Attempt
        BY <2>1, <3>2 DEF Attempt
      <4>2. Put(retry, task[c].event, task[c].attempt + 1) \in [Event \X Attempt -> Nat]
        BY <2>1, <4>1, PutType DEF TypeOK
      <4> QED
        BY <2>15, <3>1, <3>2, <4>2 DEF RetryOrDeadletter, TypeOK, TaskOK
    <3>3. CASE ~(task[c].event \notin Unsupported /\ task[c].attempt < MaxRetries)
      BY <2>1, <2>15, <3>1, <3>3 DEF RetryOrDeadletter, TypeOK, TaskOK
    <3> QED
      BY <3>2, <3>3
  <2>16. CASE Ack(c)
    <3>1. Idle.pc = "idle"
      BY DEF Idle
    <3>2. TaskOK'
      BY <2>4, <2>16, <3>1, IdleType, TaskUpdate DEF Ack
    <3> QED
      BY <2>16, <3>2 DEF Ack, TypeOK, TaskOK
  <2>17. CASE \E e \in Event, a \in Attempt : Deliver(c, e, a)
    BY <1>12, <2>17 DEF Deliver
  <2> QED
    BY <1>12, <2>7, <2>8, <2>9, <2>10, <2>11, <2>12, <2>13, <2>14, <2>15, <2>16, <2>17
       DEF ConsumerStep
<1>13. ASSUME NEW c \in Consumer, ConsumerStep(c), task[c].pc = "idle"
       PROVE  \E e \in Event, a \in Attempt : Deliver(c, e, a)
  BY <1>13 DEF ConsumerStep, RejectPermanently, ClaimAcquired, ClaimDuplicate, ClaimBusy,
               ClaimRaises, Receiving, HandlerCommits, HandlerFails, MarkFailed,
               RetryOrDeadletter, Ack
<1>14. ASSUME NEW c \in Consumer, ConsumerCrash(c)
       PROVE  TypeOK'
  <2>1. main' \in [Event \X Attempt -> Nat]
    BY <1>14, RequeuedType DEF ConsumerCrash
  <2>2. TaskOK'
    BY <1>14, IdleType, TaskUpdate DEF ConsumerCrash, Idle
  <2> QED
    BY <1>14, <2>1, <2>2 DEF ConsumerCrash, SpendFault, TypeOK, TaskOK
<1>15. ASSUME NEW c \in Consumer, ChannelLost(c)
       PROVE  TypeOK'
  <2>1. main' \in [Event \X Attempt -> Nat]
    BY <1>15, RequeuedType DEF ChannelLost
  <2>2. task[c] \in Task /\ task[c].event \in Event
    BY <1>15, TaskDelivery DEF ChannelLost
  <2>3. /\ [task[c] EXCEPT !.held = FALSE] \in Task
        /\ [task[c] EXCEPT !.held = FALSE].event \in Event
    BY <2>2 DEF Task
  <2>4. TaskOK'
    BY <1>15, <2>3, TaskUpdate DEF ChannelLost
  <2> QED
    BY <1>15, <2>1, <2>4 DEF ChannelLost, SpendFault, TypeOK, TaskOK
<1>16. CASE UNCHANGED vars
  BY <1>16 DEF vars, TypeOK
<1> QED
  BY <1>1, <1>2, <1>3, <1>4, <1>5, <1>6, <1>8, <1>9, <1>10, <1>11, <1>12, <1>13,
     <1>14, <1>15, <1>16
     DEF Next, Time, DispatcherStep

\* Rows, queues and tasks always hold values of their types.
THEOREM TypeCorrect == SafetySpec => []TypeOK
BY InitType, TypeStep, PTL DEF SafetySpec

-----------------------------------------------------------------------------
(* The effect happens once.                                                *)

\* A step may change the inbox and the effects only by taking the row for a
\* handler, completing it with the effect, or failing it.
LEMMA InboxStep ==
    ASSUME TypeOK, [Next]_vars
    PROVE  \/ UNCHANGED <<inbox, effects>>
           \/ \E e \in Event : CanClaim(e) /\ TakeInbox(e)
           \/ \E e \in Event : CompleteInbox(e)
           \/ \E e \in Event : inbox' = FailedInbox(e) /\ UNCHANGED effects
<1> USE DEF outboxVars, dispatcherVars, brokerVars, inboxVars
<1>1. ASSUME NEW c \in Consumer, ConsumerStep(c)
      PROVE  \/ UNCHANGED <<inbox, effects>>
             \/ \E e \in Event : CanClaim(e) /\ TakeInbox(e)
             \/ \E e \in Event : CompleteInbox(e)
             \/ \E e \in Event : inbox' = FailedInbox(e) /\ UNCHANGED effects
  <2>1. CASE ClaimAcquired(c)
    BY <2>1, TaskDelivery DEF ClaimAcquired, Receiving
  <2>2. CASE ClaimRaises(c)
    BY <2>2, TaskDelivery DEF ClaimRaises, Receiving
  <2>3. CASE HandlerCommits(c)
    BY <2>3, TaskDelivery DEF HandlerCommits
  <2>4. CASE MarkFailed(c)
    BY <2>4, TaskDelivery DEF MarkFailed
  <2> QED
    BY <1>1, <2>1, <2>2, <2>3, <2>4
       DEF ConsumerStep, Deliver, RejectPermanently, ClaimDuplicate, ClaimBusy,
           HandlerFails, RetryOrDeadletter, Ack
<1>2. ASSUME NEW d \in Dispatcher, DispatcherStep(d) \/ DispatcherCrash(d)
      PROVE  UNCHANGED <<inbox, effects>>
  BY <1>2 DEF DispatcherStep, ClaimOutbox, Publish, PublishFails,
              ConfirmOutbox, DispatcherCrash
<1>3. ASSUME NEW e \in Event, Record(e) \/ Time(e)
      PROVE  UNCHANGED <<inbox, effects>>
  BY <1>3 DEF Record, Time, OutboxLeaseLapses, InboxLeaseLapses, RetryExpires
<1>4. ASSUME NEW c \in Consumer, ConsumerCrash(c) \/ ChannelLost(c)
      PROVE  UNCHANGED <<inbox, effects>>
  BY <1>4 DEF ConsumerCrash, ChannelLost
<1> QED
  BY <1>1, <1>2, <1>3, <1>4 DEF Next, vars

LEMMA EffectStep == TypeOK /\ EffectOnce /\ [Next]_vars => EffectOnce'
<1> SUFFICES ASSUME TypeOK, EffectOnce, [Next]_vars
             PROVE  EffectOnce'
  OBVIOUS
<1>1. CASE UNCHANGED <<inbox, effects>>
  BY <1>1 DEF EffectOnce
<1>2. ASSUME NEW e \in Event, CanClaim(e), TakeInbox(e)
      PROVE  EffectOnce'
  BY <1>2 DEF CanClaim, TakeInbox, EffectOnce, TypeOK
<1>3. ASSUME NEW e \in Event, CompleteInbox(e)
      PROVE  EffectOnce'
  BY <1>3 DEF CompleteInbox, CanComplete, EffectOnce, TypeOK
<1>4. ASSUME NEW e \in Event, inbox' = FailedInbox(e), UNCHANGED effects
      PROVE  EffectOnce'
  BY <1>4 DEF FailedInbox, EffectOnce, TypeOK
<1> QED
  BY <1>1, <1>2, <1>3, <1>4, InboxStep

\* However copies are duplicated, redelivered, retried and handled at once,
\* the handler transaction of an event commits exactly once or not yet.
THEOREM EffectOnceHolds == SafetySpec => []EffectOnce
<1>1. Init => EffectOnce
  BY DEF Init, EffectOnce
<1> QED
  BY <1>1, EffectStep, TypeCorrect, PTL DEF SafetySpec

-----------------------------------------------------------------------------
(* No event is lost.                                                       *)

\* The event has left the outbox's care: its row says "published", or a
\* dispatcher is about to write that, or a task is about to acknowledge a
\* copy of it.
Released(e) == \/ outbox[e] = "published"
               \/ \E d \in Dispatcher : sent[d] = e
               \/ \E c \in Consumer : task[c].pc = "ack" /\ task[c].event = e

\* The inductive strengthening of NoEventLost.
ReleasedAnchored == \A e \in Routed : Released(e) => Anchored(e)

\* Whoever holds on to an event, no step lets go of it.
LEMMA AnchorStable ==
    ASSUME TypeOK, [Next]_vars, NEW e \in Event, Anchored(e)
    PROVE  Anchored(e)'
<1> USE BusAssumption DEF outboxVars, dispatcherVars, brokerVars, inboxVars
<1>1. CASE inbox[e] = "completed"
  <2>1. inbox'[e] = "completed"
    BY <1>1, InboxStep
       DEF CanClaim, TakeInbox, CompleteInbox, CanComplete, FailedInbox, TypeOK
  <2> QED
    BY <2>1 DEF Anchored
<1>2. CASE e \in dlq
  <2>1. dlq \subseteq dlq'
    BY DEF Next, vars, Record, Time, OutboxLeaseLapses, InboxLeaseLapses, RetryExpires,
           DispatcherStep, ClaimOutbox, Publish, PublishFails,
           ConfirmOutbox, DispatcherCrash, ConsumerStep, Deliver, RejectPermanently,
           ClaimAcquired, ClaimDuplicate, ClaimBusy, ClaimRaises, HandlerCommits,
           HandlerFails, MarkFailed, RetryOrDeadletter, Ack, ConsumerCrash, ChannelLost
  <2> QED
    BY <1>2, <2>1 DEF Anchored
<1>3. ASSUME NEW a \in Attempt, main[<<e, a>>] > 0 \/ retry[<<e, a>>] > 0
      PROVE  Anchored(e)'
  <2> TypeOK'
    BY TypeStep
  <2>1. CASE /\ main'[<<e, a>>] >= main[<<e, a>>]
             /\ retry'[<<e, a>>] >= retry[<<e, a>>]
    <3>1. main'[<<e, a>>] > 0 \/ retry'[<<e, a>>] > 0
      BY <1>3, <2>1 DEF TypeOK
    <3> QED
      BY <3>1 DEF Anchored
  <2>2. ASSUME NEW f \in Event, NEW b \in Attempt, RetryExpires(f, b)
        PROVE  Anchored(e)'
    <3>1. CASE <<f, b>> = <<e, a>>
      <4>1. main'[<<e, a>>] > 0
        BY <2>2, <3>1 DEF RetryExpires, Put, Take, TypeOK
      <4> QED
        BY <4>1 DEF Anchored
    <3>2. CASE <<f, b>> # <<e, a>>
      <4>1. main'[<<e, a>>] = main[<<e, a>>] /\ retry'[<<e, a>>] = retry[<<e, a>>]
        BY <2>2, <3>2 DEF RetryExpires, Put, Take, TypeOK
      <4> QED
        BY <1>3, <4>1 DEF Anchored
    <3> QED
      BY <3>1, <3>2
  <2>3. ASSUME NEW c \in Consumer, NEW f \in Event, NEW b \in Attempt, Deliver(c, f, b)
        PROVE  Anchored(e)'
    <3>1. CASE <<f, b>> = <<e, a>>
      <4>1. task'[c].event = e /\ task'[c].held /\ task'[c].pc = "received"
        BY <2>3, <3>1 DEF Deliver, Become, Idle, TypeOK
      <4> QED
        BY <4>1 DEF Anchored
    <3>2. CASE <<f, b>> # <<e, a>>
      <4>1. main'[<<e, a>>] = main[<<e, a>>] /\ retry' = retry
        BY <2>3, <3>2 DEF Deliver, Take, TypeOK
      <4> QED
        BY <1>3, <4>1 DEF Anchored
    <3> QED
      BY <3>1, <3>2
  <2>4. \A f \in Event, b \in Attempt :
            /\ Put(main, f, b)[<<e, a>>] >= main[<<e, a>>]
            /\ Put(retry, f, b)[<<e, a>>] >= retry[<<e, a>>]
    BY PutGrows DEF TypeOK
  <2>5. 0 \in Attempt
    BY DEF Attempt
  <2>6. main[<<e, a>>] \in Nat /\ retry[<<e, a>>] \in Nat
    BY DEF TypeOK
  <2>7. ASSUME NEW d \in Dispatcher, DispatcherStep(d) \/ DispatcherCrash(d)
        PROVE  Anchored(e)'
    BY <2>1, <2>4, <2>5, <2>6, <2>7
       DEF DispatcherStep, ClaimOutbox, Publish, PublishFails,
           ConfirmOutbox, DispatcherCrash
  <2>8. ASSUME NEW c \in Consumer, RetryOrDeadletter(c)
        PROVE  Anchored(e)'
    <3>1. task[c].event \in Event /\ task[c].attempt \in Attempt
      BY <2>8, TaskDelivery DEF RetryOrDeadletter
    <3>2. task[c].attempt < MaxRetries => task[c].attempt + 1 \in Attempt
      BY <3>1 DEF Attempt
    <3>3. retry'[<<e, a>>] >= retry[<<e, a>>] /\ main' = main
      BY <2>4, <2>6, <2>8, <3>1, <3>2 DEF RetryOrDeadletter
    <3> QED
      BY <2>1, <2>6, <3>3
  <2>9. ASSUME NEW c \in Consumer, ConsumerCrash(c) \/ ChannelLost(c)
        PROVE  Anchored(e)'
    <3>1. task[c].event \in Event /\ task[c].attempt \in Attempt
      BY <2>9, TaskDelivery DEF ConsumerCrash, ChannelLost
    <3>2. main'[<<e, a>>] >= main[<<e, a>>] /\ retry' = retry
      BY <2>4, <2>6, <2>9, <3>1 DEF ConsumerCrash, ChannelLost, Requeued
    <3> QED
      BY <2>1, <2>6, <3>2
  <2>10. ASSUME NEW c \in Consumer, ConsumerStep(c), ~RetryOrDeadletter(c),
                ~\E f \in Event, b \in Attempt : Deliver(c, f, b)
         PROVE  Anchored(e)'
    BY <2>1, <2>6, <2>10
       DEF ConsumerStep, RejectPermanently, ClaimAcquired, ClaimDuplicate, ClaimBusy,
           ClaimRaises, HandlerCommits, HandlerFails, MarkFailed, Ack
  <2>11. ASSUME NEW f \in Event, Record(f) \/ OutboxLeaseLapses(f) \/ InboxLeaseLapses(f)
         PROVE  Anchored(e)'
    BY <2>1, <2>6, <2>11 DEF Record, OutboxLeaseLapses, InboxLeaseLapses
  <2>12. CASE UNCHANGED vars
    BY <2>1, <2>6, <2>12 DEF vars
  <2> QED
    BY <2>2, <2>3, <2>7, <2>8, <2>9, <2>10, <2>11, <2>12 DEF Next, Time
<1>4. ASSUME NEW c \in Consumer, task[c].event = e, task[c].held,
             task[c].pc \notin {"idle", "ack"}
      PROVE  Anchored(e)'
  <2>1. CASE /\ task'[c].event = task[c].event /\ task'[c].held = task[c].held
             /\ task'[c].pc \notin {"idle", "ack"}
    BY <1>4, <2>1 DEF Anchored
  <2>2. task[c].attempt \in Attempt /\ task[c] \in Task
    BY <1>4, TaskDelivery
  <2>3. \A pc \in TaskPc \ {"idle", "ack"} : Goto(c, pc) => Anchored(e)'
    BY <1>4, <2>1, GotoTask
  <2>4. Rescue(c) => Anchored(e)'
    BY <1>4, <2>1, RescueTask
  <2>5. {"retry", "mark_failed", "handler"} \subseteq TaskPc \ {"idle", "ack"}
    BY DEF TaskPc
  <2>6. inbox'[e] = "completed" => Anchored(e)'
    BY DEF Anchored
  <2>7. ASSUME NEW b \in Attempt, NEW q \in [Event \X Attempt -> Nat],
               main' = Put(q, e, b) \/ retry' = Put(q, e, b)
        PROVE  Anchored(e)'
    <3>1. Put(q, e, b)[<<e, b>>] > 0
      BY DEF Put
    <3> QED
      BY <2>7, <3>1 DEF Anchored
  <2>8. ASSUME ConsumerStep(c)
        PROVE  Anchored(e)'
    <3>1. CASE RejectPermanently(c)
      BY <2>4, <3>1 DEF RejectPermanently
    <3>2. CASE ClaimAcquired(c)
      <4>1. task'[c] = [task[c] EXCEPT !.pc = "handler", !.live = TRUE]
        BY <3>2, BecomeTask DEF ClaimAcquired
      <4> QED
        BY <1>4, <2>1, <2>2, <4>1 DEF Task
    <3>3. CASE ClaimDuplicate(c)
      BY <1>4, <2>6, <3>3 DEF ClaimDuplicate
    <3>4. CASE ClaimBusy(c)
      BY <2>3, <2>5, <3>4 DEF ClaimBusy
    <3>5. CASE ClaimRaises(c)
      BY <2>4, <3>5 DEF ClaimRaises
    <3>6. CASE HandlerCommits(c)
      BY <1>4, <2>6, <3>6 DEF HandlerCommits, CompleteInbox, TypeOK
    <3>7. CASE HandlerFails(c)
      BY <2>3, <2>5, <3>7 DEF HandlerFails
    <3>8. CASE MarkFailed(c)
      <4>1. \/ task'[c] = [task[c] EXCEPT !.pc = "retry", !.live = FALSE]
            \/ task'[c] = [task[c] EXCEPT !.pc = "retry", !.live = FALSE, !.rescue = TRUE]
        BY <3>8, BecomeTask DEF MarkFailed
      <4>2. /\ task'[c].event = task[c].event /\ task'[c].held = task[c].held
            /\ task'[c].pc = "retry"
        BY <2>2, <4>1 DEF Task
      <4> QED
        BY <2>1, <4>2
    <3>9. CASE RetryOrDeadletter(c)
      <4>1. CASE e \notin Unsupported /\ task[c].attempt < MaxRetries
        <5>1. task[c].attempt + 1 \in Attempt
          BY <2>2, <4>1 DEF Attempt
        <5>2. retry' = Put(retry, e, task[c].attempt + 1)
          BY <1>4, <3>9, <4>1 DEF RetryOrDeadletter
        <5> QED
          BY <2>7, <5>1, <5>2 DEF TypeOK
      <4>2. CASE ~(e \notin Unsupported /\ task[c].attempt < MaxRetries)
        BY <1>4, <3>9, <4>2 DEF RetryOrDeadletter, Anchored
      <4> QED
        BY <4>1, <4>2
    <3>10. ~Ack(c) /\ ~\E f \in Event, b \in Attempt : Deliver(c, f, b)
      BY <1>4 DEF Ack, Deliver
    <3> QED
      BY <2>8, <3>1, <3>2, <3>3, <3>4, <3>5, <3>6, <3>7, <3>8, <3>9, <3>10
         DEF ConsumerStep
  <2>9. ASSUME ConsumerCrash(c) \/ ChannelLost(c)
        PROVE  Anchored(e)'
    <3>1. main' = Put(main, e, task[c].attempt)
      BY <1>4, <2>9 DEF ConsumerCrash, ChannelLost, Requeued
    <3> QED
      BY <2>2, <2>7, <3>1 DEF TypeOK
  <2>10. ASSUME NEW b \in Consumer, b # c,
                ConsumerStep(b) \/ ConsumerCrash(b) \/ ChannelLost(b)
         PROVE  Anchored(e)'
    <3>1. task'[c] = task[c]
      BY <2>10 DEF ConsumerStep, Deliver, RejectPermanently, ClaimAcquired,
           ClaimDuplicate, ClaimBusy, ClaimRaises, HandlerCommits, HandlerFails,
           MarkFailed, RetryOrDeadletter, Ack, ConsumerCrash, ChannelLost, Goto, Rescue,
           Become, TypeOK
    <3> QED
      BY <1>4, <2>1, <3>1
  <2>11. ASSUME NEW f \in Event, InboxLeaseLapses(f)
         PROVE  Anchored(e)'
    <3>1. task'[c] = IF c \in LeaseHolder(f) THEN [task[c] EXCEPT !.live = FALSE]
                                             ELSE task[c]
      BY <2>11 DEF InboxLeaseLapses
    <3> QED
      BY <1>4, <2>1, <2>2, <3>1 DEF Task
  <2>12. ASSUME UNCHANGED task
         PROVE  Anchored(e)'
    BY <1>4, <2>1, <2>12
  <2>13. ASSUME NEW f \in Event, Record(f) \/ Time(f), ~InboxLeaseLapses(f)
         PROVE  UNCHANGED task
    BY <2>13 DEF Record, Time, OutboxLeaseLapses, RetryExpires
  <2>14. ASSUME NEW d \in Dispatcher, DispatcherStep(d) \/ DispatcherCrash(d)
         PROVE  UNCHANGED task
    BY <2>14 DEF DispatcherStep, ClaimOutbox, Publish, PublishFails,
                 ConfirmOutbox, DispatcherCrash
  <2> QED
    BY <2>8, <2>9, <2>10, <2>11, <2>12, <2>13, <2>14 DEF Next, Time, vars
<1> QED
  BY <1>1, <1>2, <1>3, <1>4 DEF Anchored

\* A step that releases an event anchors it first.
LEMMA ReleaseAnchors ==
    ASSUME TypeOK, ReleasedAnchored, [Next]_vars, NEW e \in Routed, Released(e)'
    PROVE  Anchored(e)'
<1> USE BusAssumption DEF outboxVars, dispatcherVars, brokerVars, inboxVars
<1>1. CASE Released(e)
  BY <1>1, AnchorStable DEF ReleasedAnchored
<1>2. CASE ~Released(e)
  <2>1. ASSUME NEW d \in Dispatcher, NEW f \in Event, Publish(d, f)
        PROVE  Anchored(e)'
    <3>1. f = e
      BY <1>2, <2>1 DEF Publish, Released, TypeOK
    <3>2. 0 \in Attempt
      BY DEF Attempt
    <3>3. main'[<<e, 0>>] > 0
      BY <2>1, <3>1, <3>2 DEF Publish, Put, TypeOK
    <3> QED
      BY <3>2, <3>3 DEF Anchored
  <2>2. ASSUME NEW d \in Dispatcher, ConfirmOutbox(d)
        PROVE  FALSE
    BY <1>2, <2>2 DEF ConfirmOutbox, Released, TypeOK
  <2>3. ASSUME NEW d \in Dispatcher, DispatcherStep(d) \/ DispatcherCrash(d),
               ~\E f \in Event : Publish(d, f)
        PROVE  FALSE
    BY <1>2, <2>2, <2>3
       DEF DispatcherStep, ClaimOutbox, PublishFails, FailOutbox,
           DispatcherCrash, Released, TypeOK
  <2>4. ASSUME NEW f \in Event, Record(f) \/ Time(f)
        PROVE  FALSE
    <3>1. ASSUME InboxLeaseLapses(f)
          PROVE  \A c \in Consumer : task'[c].pc = task[c].pc /\ task'[c].event = task[c].event
      BY <3>1 DEF InboxLeaseLapses, TypeOK, Task
    <3>2. CASE InboxLeaseLapses(f)
      BY <1>2, <3>1, <3>2 DEF InboxLeaseLapses, Released
    <3>3. CASE ~InboxLeaseLapses(f)
      BY <1>2, <2>4, <3>3
         DEF Record, Time, OutboxLeaseLapses, RetryExpires, Released, TypeOK
    <3> QED
      BY <3>2, <3>3
  <2>5. ASSUME NEW c \in Consumer, ConsumerStep(c) \/ ConsumerCrash(c) \/ ChannelLost(c)
        PROVE  Anchored(e)'
    <3>1. PICK b \in Consumer : task'[b].pc = "ack" /\ task'[b].event = e
      BY <1>2, <2>5
         DEF Released, ConsumerStep, Deliver, RejectPermanently, ClaimAcquired,
             ClaimDuplicate, ClaimBusy, ClaimRaises, HandlerCommits, HandlerFails,
             MarkFailed, RetryOrDeadletter, Ack, ConsumerCrash, ChannelLost
    <3>2. ~(task[b].pc = "ack" /\ task[b].event = e)
      BY <1>2 DEF Released
    <3>3. b = c
      BY <2>5, <3>1, <3>2
         DEF ConsumerStep, Deliver, RejectPermanently, ClaimAcquired,
             ClaimDuplicate, ClaimBusy, ClaimRaises, HandlerCommits, HandlerFails,
             MarkFailed, RetryOrDeadletter, Ack, ConsumerCrash, ChannelLost, Goto, Rescue,
             Become, TypeOK
    <3>4. task[c] \in Task
      BY DEF TypeOK
    <3>5. CASE ClaimDuplicate(c)
      BY <3>1, <3>3, <3>5, GotoTask DEF ClaimDuplicate, Anchored, inboxVars
    <3>6. CASE HandlerCommits(c)
      <4>1. task[c].event = e
        <5>1. \/ task'[c] = [task[c] EXCEPT !.pc = "ack", !.live = FALSE]
              \/ Goto(c, "mark_failed")
          BY <3>6, BecomeTask DEF HandlerCommits
        <5> QED
          BY <3>1, <3>3, <3>4, <5>1, GotoTask DEF Task
      <4> QED
        BY <3>6, <4>1 DEF HandlerCommits, CompleteInbox, TypeOK, Anchored
    <3>7. CASE RetryOrDeadletter(c)
      <4>1. task[c].event = e
        BY <3>1, <3>3, <3>7, GotoTask DEF RetryOrDeadletter
      <4>2. CASE e \notin Unsupported /\ task[c].attempt < MaxRetries
        <5>1. task[c].attempt + 1 \in Attempt
          BY <3>4, <4>2 DEF Attempt, Task
        <5>2. retry'[<<e, task[c].attempt + 1>>] > 0
          BY <3>7, <4>1, <4>2, <5>1 DEF RetryOrDeadletter, Put, TypeOK
        <5> QED
          BY <5>1, <5>2 DEF Anchored
      <4>3. CASE ~(e \notin Unsupported /\ task[c].attempt < MaxRetries)
        BY <3>7, <4>1, <4>3 DEF RetryOrDeadletter, Anchored
      <4> QED
        BY <4>2, <4>3
    <3>8. ~(RejectPermanently(c) \/ ClaimRaises(c))
      BY <3>1, <3>3, RescueTask DEF RejectPermanently, ClaimRaises
    <3>9. ~(ClaimBusy(c) \/ HandlerFails(c))
      BY <3>1, <3>3, GotoTask DEF ClaimBusy, HandlerFails
    <3>10. ~(ClaimAcquired(c) \/ MarkFailed(c))
      <4>1. ASSUME ClaimAcquired(c) \/ MarkFailed(c)
            PROVE  \/ task'[c] = [task[c] EXCEPT !.pc = "handler", !.live = TRUE]
                   \/ task'[c] = [task[c] EXCEPT !.pc = "retry", !.live = FALSE]
                   \/ task'[c] = [task[c] EXCEPT !.pc = "retry", !.live = FALSE, !.rescue = TRUE]
        BY <4>1, BecomeTask DEF ClaimAcquired, MarkFailed
      <4> QED
        BY <3>1, <3>3, <3>4, <4>1 DEF Task
    <3>11. ~(Ack(c) \/ ConsumerCrash(c) \/ \E f \in Event, a \in Attempt : Deliver(c, f, a))
      <4>1. ~(Ack(c) \/ ConsumerCrash(c))
        BY <3>1, <3>3, BecomeTask, RescueTask DEF Ack, ConsumerCrash, Idle
      <4>2. ASSUME NEW f \in Event, NEW a \in Attempt, Deliver(c, f, a)
            PROVE  FALSE
        <5>1. task'[c] = [Idle EXCEPT !.pc = "received", !.event = f,
                                      !.attempt = a, !.held = TRUE]
          BY <4>2, BecomeTask DEF Deliver
        <5> QED
          BY <3>1, <3>3, <5>1 DEF Idle
      <4> QED
        BY <4>1, <4>2
    <3>12. ~ChannelLost(c)
      <4>1. ASSUME ChannelLost(c)
            PROVE  task'[c] = [task[c] EXCEPT !.held = FALSE]
        BY <4>1, BecomeTask DEF ChannelLost
      <4> QED
        BY <3>1, <3>2, <3>3, <3>4, <4>1 DEF Task
    <3> QED
      BY <2>5, <3>5, <3>6, <3>7, <3>8, <3>9, <3>10, <3>11, <3>12 DEF ConsumerStep
  <2>6. CASE UNCHANGED vars
    BY <1>2, <2>6 DEF vars, Released
  <2> QED
    BY <2>1, <2>3, <2>4, <2>5, <2>6 DEF Next
<1> QED
  BY <1>1, <1>2

\* After "published" is written for an event some queue is bound to, and
\* whatever crashes or is lost, the event is applied, queued, in hand, or in
\* the dead-letter queue.
THEOREM NoEventLostHolds == SafetySpec => []NoEventLost
<1>1. Init => ReleasedAnchored
  BY BusAssumption DEF Init, ReleasedAnchored, Released, Idle
<1>2. TypeOK /\ ReleasedAnchored /\ [Next]_vars => ReleasedAnchored'
  BY ReleaseAnchors DEF ReleasedAnchored
<1>3. ReleasedAnchored => NoEventLost
  BY DEF ReleasedAnchored, Released, NoEventLost
<1> QED
  BY <1>1, <1>2, <1>3, TypeCorrect, PTL DEF SafetySpec

-----------------------------------------------------------------------------
(* The outbox lease.                                                       *)

\* A row is "publishing" exactly while it carries a lease token.
RowShape == \A e \in Event : outbox[e] = "publishing" <=> lease_token[e] \in Dispatcher

\* Only the dispatchers' operations and Record touch an outbox row.
LEMMA OutboxStep ==
    ASSUME [Next]_vars
    PROVE  \/ UNCHANGED <<outbox, lease_token, batch>>
           \/ \E e \in Event : Record(e)
           \/ \E d \in Dispatcher : ClaimOutbox(d) \/ ConfirmOutbox(d) \/ DispatcherCrash(d)
           \/ \E d \in Dispatcher, e \in Event : e \in batch[d] /\ FailOutbox(d, e)
<1> USE DEF outboxVars, dispatcherVars, brokerVars, inboxVars
<1>1. ASSUME NEW c \in Consumer, ConsumerStep(c) \/ ConsumerCrash(c) \/ ChannelLost(c)
      PROVE  UNCHANGED <<outbox, lease_token, batch>>
  BY <1>1 DEF ConsumerStep, Deliver, RejectPermanently, ClaimAcquired, ClaimDuplicate,
              ClaimBusy, ClaimRaises, HandlerCommits, HandlerFails, MarkFailed,
              RetryOrDeadletter, Ack, ConsumerCrash, ChannelLost
<1>2. ASSUME NEW e \in Event, Time(e)
      PROVE  UNCHANGED <<outbox, lease_token, batch>>
  BY <1>2 DEF Time, OutboxLeaseLapses, InboxLeaseLapses, RetryExpires
<1>3. ASSUME NEW d \in Dispatcher, NEW e \in Event,
             Publish(d, e) \/ PublishFails(d, e)
      PROVE  \/ UNCHANGED <<outbox, lease_token, batch>>
             \/ e \in batch[d] /\ FailOutbox(d, e)
  BY <1>3 DEF Publish, PublishFails
<1> QED
  BY <1>1, <1>2, <1>3 DEF Next, DispatcherStep, vars

LEMMA RowShapeStep == TypeOK /\ RowShape /\ [Next]_vars => RowShape'
<1> SUFFICES ASSUME TypeOK, RowShape, [Next]_vars
             PROVE  RowShape'
  OBVIOUS
<1> USE BusAssumption DEF outboxVars
<1>1. ASSUME NEW e \in Event, Record(e)
      PROVE  RowShape'
  BY <1>1 DEF Record, RowShape, TypeOK
<1>2. ASSUME NEW d \in Dispatcher, ClaimOutbox(d)
      PROVE  RowShape'
  BY <1>2 DEF ClaimOutbox, RowShape, TypeOK
<1>3. ASSUME NEW d \in Dispatcher, ConfirmOutbox(d)
      PROVE  RowShape'
  BY <1>3 DEF ConfirmOutbox, RowShape, TypeOK
<1>4. ASSUME NEW d \in Dispatcher, DispatcherCrash(d)
      PROVE  RowShape'
  BY <1>4 DEF DispatcherCrash, RowShape
<1>5. ASSUME NEW d \in Dispatcher, NEW e \in Event, FailOutbox(d, e)
      PROVE  RowShape'
  BY <1>5 DEF FailOutbox, RowShape, TypeOK
<1> QED
  BY <1>1, <1>2, <1>3, <1>4, <1>5, OutboxStep DEF RowShape

\* While its lease runs, a dispatcher's claim ends by its own hand only.
THEOREM LeaseHolderUndisturbedHolds == SafetySpec => LeaseHolderUndisturbed
<1>1. Init => RowShape
  BY BusAssumption DEF Init, RowShape
<1>2. ASSUME TypeOK, RowShape, [Next]_vars, NEW d \in Dispatcher, NEW e \in Event,
             e \in batch[d], lease_token[e] = d, e \notin lapsed, e \in batch'[d]
      PROVE  OwnsRow(d, e)'
  <2> USE BusAssumption DEF outboxVars
  <2>1. outbox[e] = "publishing"
    BY <1>2 DEF RowShape
  <2>2. ASSUME NEW f \in Event, Record(f)
        PROVE  OwnsRow(d, e)'
    BY <1>2, <2>1, <2>2 DEF Record, OwnsRow, TypeOK
  <2>3. ASSUME NEW b \in Dispatcher, ClaimOutbox(b)
        PROVE  OwnsRow(d, e)'
    BY <1>2, <2>1, <2>3 DEF ClaimOutbox, Claimable, OwnsRow, TypeOK
  <2>4. ASSUME NEW b \in Dispatcher, ConfirmOutbox(b)
        PROVE  OwnsRow(d, e)'
    BY <1>2, <2>1, <2>4 DEF ConfirmOutbox, OwnsRow, TypeOK
  <2>5. ASSUME NEW b \in Dispatcher, DispatcherCrash(b)
        PROVE  OwnsRow(d, e)'
    BY <1>2, <2>1, <2>5 DEF DispatcherCrash, OwnsRow
  <2>6. ASSUME NEW b \in Dispatcher, NEW f \in Event, FailOutbox(b, f)
        PROVE  OwnsRow(d, e)'
    BY <1>2, <2>1, <2>6 DEF FailOutbox, OwnsRow, TypeOK
  <2>7. CASE UNCHANGED <<outbox, lease_token, batch>>
    BY <1>2, <2>1, <2>7 DEF OwnsRow
  <2> QED
    BY <1>2, <2>2, <2>3, <2>4, <2>5, <2>6, <2>7, OutboxStep
<1> DEFINE Undisturbed ==
      \A d \in Dispatcher, e \in Event :
          (e \in batch[d] /\ lease_token[e] = d /\ e \notin lapsed)
            => (e \in batch'[d] => OwnsRow(d, e)')
<1>3. TypeOK /\ RowShape /\ [Next]_vars => Undisturbed
  BY <1>2
<1>4. SafetySpec => []RowShape
  BY <1>1, RowShapeStep, TypeCorrect, PTL DEF SafetySpec
<1>5. SafetySpec => [][Undisturbed]_vars
  <2> HIDE DEF Undisturbed
  <2> QED
    BY <1>3, <1>4, TypeCorrect, PTL DEF SafetySpec
<1> QED
  BY <1>5 DEF LeaseHolderUndisturbed

-----------------------------------------------------------------------------
(* Refinement of EventDelivery, its safety part.                           *)

\* Nothing of the bus knows of an event before its outbox row is committed.
OnlyRecorded ==
    \A e \in Event : outbox[e] = "absent" =>
        /\ \A d \in Dispatcher : e \notin batch[d]
        /\ \A a \in Attempt : main[<<e, a>>] = 0 /\ retry[<<e, a>>] = 0
        /\ \A c \in Consumer : task[c].pc # "idle" => task[c].event # e

\* A step records at most the events of Record.
LEMMA AbsentStep ==
    ASSUME TypeOK, RowShape, OnlyRecorded, [Next]_vars, NEW e \in Event
    PROVE  outbox'[e] = "absent" <=> (outbox[e] = "absent" /\ ~Record(e))
<1> USE BusAssumption DEF outboxVars
<1>1. ASSUME NEW f \in Event, Record(f)
      PROVE  outbox'[e] = "absent" <=> (outbox[e] = "absent" /\ ~Record(e))
  BY <1>1 DEF Record, TypeOK
<1>2. ASSUME ~Record(e), outbox'[e] # "absent" \/ outbox[e] # "absent"
      PROVE  outbox'[e] # "absent" /\ outbox[e] # "absent"
  <2>1. ASSUME NEW d \in Dispatcher, ClaimOutbox(d)
        PROVE  outbox'[e] # "absent" /\ outbox[e] # "absent"
    BY <1>2, <2>1 DEF ClaimOutbox, Claimable, TypeOK
  <2>2. ASSUME NEW d \in Dispatcher, ConfirmOutbox(d)
        PROVE  outbox'[e] # "absent" /\ outbox[e] # "absent"
    BY <1>2, <2>2 DEF ConfirmOutbox, OwnsRow, TypeOK
  <2>3. ASSUME NEW d \in Dispatcher, NEW f \in Event, FailOutbox(d, f)
        PROVE  outbox'[e] # "absent" /\ outbox[e] # "absent"
    BY <1>2, <2>3 DEF FailOutbox, OwnsRow, TypeOK
  <2>4. ASSUME NEW f \in Event, Record(f)
        PROVE  outbox'[e] # "absent" /\ outbox[e] # "absent"
    BY <1>2, <2>4 DEF Record, TypeOK
  <2> QED
    BY <1>2, <2>1, <2>2, <2>3, <2>4, OutboxStep DEF DispatcherCrash
<1> QED
  BY <1>1, <1>2

LEMMA OnlyRecordedStep ==
    TypeOK /\ RowShape /\ OnlyRecorded /\ [Next]_vars => OnlyRecorded'
<1> SUFFICES ASSUME TypeOK, RowShape, OnlyRecorded, [Next]_vars,
                    NEW e \in Event, outbox'[e] = "absent"
             PROVE  /\ \A d \in Dispatcher : e \notin batch'[d]
                    /\ \A a \in Attempt : main'[<<e, a>>] = 0 /\ retry'[<<e, a>>] = 0
                    /\ \A c \in Consumer : task'[c].pc # "idle" => task'[c].event # e
  BY DEF OnlyRecorded
<1> USE BusAssumption DEF outboxVars, dispatcherVars, brokerVars, inboxVars
<1> outbox[e] = "absent"
  BY AbsentStep
<1>1. /\ \A d \in Dispatcher : e \notin batch[d]
      /\ \A a \in Attempt : main[<<e, a>>] = 0 /\ retry[<<e, a>>] = 0
      /\ \A c \in Consumer : task[c].pc # "idle" => task[c].event # e
  BY DEF OnlyRecorded
<1>2. \A d \in Dispatcher : e \notin batch'[d]
  <2>1. ASSUME NEW d \in Dispatcher, ClaimOutbox(d)
        PROVE  \A b \in Dispatcher : e \notin batch'[b]
    BY <1>1, <2>1 DEF ClaimOutbox, Claimable, TypeOK
  <2>2. ASSUME NEW d \in Dispatcher, ConfirmOutbox(d) \/ DispatcherCrash(d)
        PROVE  \A b \in Dispatcher : e \notin batch'[b]
    BY <1>1, <2>2 DEF ConfirmOutbox, DispatcherCrash, TypeOK
  <2>3. ASSUME NEW d \in Dispatcher, NEW f \in Event, FailOutbox(d, f)
        PROVE  \A b \in Dispatcher : e \notin batch'[b]
    BY <1>1, <2>3 DEF FailOutbox, TypeOK
  <2> QED
    BY <1>1, <2>1, <2>2, <2>3, OutboxStep DEF Record
<1>3. ASSUME NEW f \in Event, f # e, NEW b \in Attempt, NEW a \in Attempt
      PROVE  /\ Put(main, f, b)[<<e, a>>] = 0 /\ Take(main, f, b)[<<e, a>>] = 0
             /\ Put(retry, f, b)[<<e, a>>] = 0 /\ Take(retry, f, b)[<<e, a>>] = 0
  BY <1>1, <1>3 DEF Put, Take, TypeOK
<1>4. ASSUME NEW c \in Consumer, task[c].pc # "idle"
      PROVE  /\ task[c].event \in Event /\ task[c].event # e
             /\ task[c].attempt \in Attempt
  BY <1>1, <1>4, TaskDelivery
<1>5. \A a \in Attempt : main'[<<e, a>>] = 0 /\ retry'[<<e, a>>] = 0
  <2>1. CASE UNCHANGED <<main, retry>>
    BY <1>1, <2>1
  <2>2. ASSUME NEW c \in Consumer, NEW f \in Event, NEW a \in Attempt, Deliver(c, f, a)
        PROVE  \A b \in Attempt : main'[<<e, b>>] = 0 /\ retry'[<<e, b>>] = 0
    <3>1. f # e /\ main' = Take(main, f, a) /\ retry' = retry
      BY <1>1, <2>2 DEF Deliver
    <3> QED
      BY <1>1, <1>3, <3>1
  <2>3. ASSUME NEW c \in Consumer, RetryOrDeadletter(c)
        PROVE  \A b \in Attempt : main'[<<e, b>>] = 0 /\ retry'[<<e, b>>] = 0
    <3>1. task[c].attempt < MaxRetries => task[c].attempt + 1 \in Attempt
      BY <1>4, <2>3 DEF RetryOrDeadletter, Attempt
    <3>2. task[c].event \in Event /\ task[c].event # e
      BY <1>4, <2>3 DEF RetryOrDeadletter
    <3>3. /\ main' = main
          /\ \/ retry' = retry
             \/ /\ task[c].attempt + 1 \in Attempt
                /\ retry' = Put(retry, task[c].event, task[c].attempt + 1)
      BY <2>3, <3>1 DEF RetryOrDeadletter
    <3> QED
      BY <1>1, <1>3, <3>2, <3>3
  <2>4. ASSUME NEW c \in Consumer, ConsumerCrash(c) \/ ChannelLost(c)
        PROVE  \A b \in Attempt : main'[<<e, b>>] = 0 /\ retry'[<<e, b>>] = 0
    <3>1. /\ task[c].event \in Event /\ task[c].event # e
          /\ task[c].attempt \in Attempt
      BY <1>4, <2>4 DEF ConsumerCrash, ChannelLost
    <3>2. /\ retry' = retry
          /\ main' = main \/ main' = Put(main, task[c].event, task[c].attempt)
      BY <2>4 DEF ConsumerCrash, ChannelLost, Requeued
    <3> QED
      BY <1>1, <1>3, <3>1, <3>2
  <2>5. ASSUME NEW c \in Consumer, ConsumerStep(c), ~RetryOrDeadletter(c),
               ~\E f \in Event, a \in Attempt : Deliver(c, f, a)
        PROVE  UNCHANGED <<main, retry>>
    BY <2>5 DEF ConsumerStep, RejectPermanently, ClaimAcquired, ClaimDuplicate, ClaimBusy,
                ClaimRaises, HandlerCommits, HandlerFails, MarkFailed, Ack
  <2>6. ASSUME NEW d \in Dispatcher, DispatcherStep(d) \/ DispatcherCrash(d)
        PROVE  \A b \in Attempt : main'[<<e, b>>] = 0 /\ retry'[<<e, b>>] = 0
    <3>1. 0 \in Attempt
      BY DEF Attempt
    <3>2. ASSUME NEW f \in Event, Publish(d, f) \/ PublishFails(d, f)
          PROVE  f # e /\ retry' = retry /\ (main' = main \/ main' = Put(main, f, 0))
      BY <1>1, <3>2 DEF Publish, PublishFails
    <3>3. ASSUME ~\E f \in Event : Publish(d, f) \/ PublishFails(d, f)
          PROVE  UNCHANGED <<main, retry>>
      BY <2>6, <3>3
         DEF DispatcherStep, ClaimOutbox, ConfirmOutbox, DispatcherCrash
    <3> QED
      BY <1>1, <1>3, <2>1, <3>1, <3>2, <3>3
  <2>7. ASSUME NEW f \in Event, NEW a \in Attempt, RetryExpires(f, a)
        PROVE  \A b \in Attempt : main'[<<e, b>>] = 0 /\ retry'[<<e, b>>] = 0
    <3>1. f # e /\ main' = Put(main, f, a) /\ retry' = Take(retry, f, a)
      BY <1>1, <2>7 DEF RetryExpires
    <3> QED
      BY <1>3, <3>1
  <2>8. ASSUME NEW f \in Event, Record(f) \/ OutboxLeaseLapses(f) \/ InboxLeaseLapses(f)
        PROVE  UNCHANGED <<main, retry>>
    BY <2>8 DEF Record, OutboxLeaseLapses, InboxLeaseLapses
  <2> QED
    BY <2>1, <2>2, <2>3, <2>4, <2>5, <2>6, <2>7, <2>8 DEF Next, Time, vars
<1>6. ASSUME NEW c \in Consumer, task'[c].pc # "idle"
      PROVE  task'[c].event # e
  <2>1. CASE task'[c].event = task[c].event /\ task[c].pc # "idle"
    BY <1>1, <2>1
  <2>2. task[c] \in Task
    BY DEF TypeOK
  <2>3. ASSUME NEW f \in Event, NEW a \in Attempt, Deliver(c, f, a)
        PROVE  task'[c].event # e
    <3>1. task'[c].event = f
      BY <2>3, BecomeTask DEF Deliver, Idle
    <3> QED
      BY <1>1, <2>3, <3>1 DEF Deliver
  <2>4. ASSUME NEW b \in Consumer, b # c, ConsumerStep(b) \/ ConsumerCrash(b) \/ ChannelLost(b)
        PROVE  task'[c] = task[c]
    BY <2>4 DEF ConsumerStep, Deliver, RejectPermanently, ClaimAcquired, ClaimDuplicate,
         ClaimBusy, ClaimRaises, HandlerCommits, HandlerFails, MarkFailed,
         RetryOrDeadletter, Ack, ConsumerCrash, ChannelLost, Goto, Rescue, Become, TypeOK
  <2>5. CASE RejectPermanently(c) \/ ClaimRaises(c)
    BY <2>1, <2>5, RescueTask DEF RejectPermanently, ClaimRaises, Receiving
  <2>6. CASE ClaimDuplicate(c) \/ ClaimBusy(c) \/ HandlerFails(c) \/ RetryOrDeadletter(c)
    BY <2>1, <2>6, GotoTask
       DEF ClaimDuplicate, ClaimBusy, HandlerFails, RetryOrDeadletter, Receiving
  <2>7. CASE ClaimAcquired(c)
    <3>1. task'[c] = [task[c] EXCEPT !.pc = "handler", !.live = TRUE]
      BY <2>7, BecomeTask DEF ClaimAcquired
    <3> QED
      BY <2>1, <2>2, <2>7, <3>1 DEF ClaimAcquired, Receiving, Task
  <2>8. CASE HandlerCommits(c)
    <3>1. \/ task'[c] = [task[c] EXCEPT !.pc = "ack", !.live = FALSE]
          \/ Goto(c, "mark_failed")
      BY <2>8, BecomeTask DEF HandlerCommits
    <3> QED
      BY <2>1, <2>2, <2>8, <3>1, GotoTask DEF HandlerCommits, Task
  <2>9. CASE MarkFailed(c)
    <3>1. \/ task'[c] = [task[c] EXCEPT !.pc = "retry", !.live = FALSE]
          \/ task'[c] = [task[c] EXCEPT !.pc = "retry", !.live = FALSE, !.rescue = TRUE]
      BY <2>9, BecomeTask DEF MarkFailed
    <3> QED
      BY <2>1, <2>2, <2>9, <3>1 DEF MarkFailed, Task
  <2>10. CASE Ack(c)
    BY <1>6, <2>1, <2>10, BecomeTask, RescueTask DEF Ack, Idle
  <2>11. CASE ConsumerCrash(c)
    BY <1>6, <2>11, BecomeTask DEF ConsumerCrash, Idle
  <2>12. CASE ChannelLost(c)
    <3>1. task'[c] = [task[c] EXCEPT !.held = FALSE]
      BY <2>12, BecomeTask DEF ChannelLost
    <3> QED
      BY <2>1, <2>2, <2>12, <3>1 DEF ChannelLost, Task
  <2>13. ASSUME NEW f \in Event, InboxLeaseLapses(f)
         PROVE  task'[c].event = task[c].event /\ task'[c].pc = task[c].pc
    BY <2>2, <2>13 DEF InboxLeaseLapses, Task
  <2>14. ASSUME UNCHANGED task
         PROVE  task'[c].event # e
    BY <1>1, <1>6, <2>14
  <2>15. ASSUME NEW f \in Event, Record(f) \/ Time(f), ~InboxLeaseLapses(f)
         PROVE  UNCHANGED task
    BY <2>15 DEF Record, Time, OutboxLeaseLapses, RetryExpires
  <2>16. ASSUME NEW d \in Dispatcher, DispatcherStep(d) \/ DispatcherCrash(d)
         PROVE  UNCHANGED task
    BY <2>16 DEF DispatcherStep, ClaimOutbox, Publish, PublishFails,
                 ConfirmOutbox, DispatcherCrash
  <2> QED
    BY <1>1, <1>6, <2>3, <2>4, <2>5, <2>6, <2>7, <2>8, <2>9, <2>10, <2>11, <2>12, <2>13,
       <2>14, <2>15, <2>16
       DEF Next, ConsumerStep, Time, vars
<1> QED
  BY <1>2, <1>5, <1>6

\* Every step of the bus is a step of the abstract delivery or invisible to it:
\* it records, applies once, or parks, and does nothing else to an event.
THEOREM DeliverySafety == SafetySpec => Delivery!SafetySpec
<1> DEFINE recordedEvents == {e \in Event : outbox[e] # "absent"}
<1>1. Init => Delivery!Init
  BY DEF Init, Delivery!Init
<1>2. Init => RowShape /\ OnlyRecorded /\ EffectOnce
  BY BusAssumption DEF Init, RowShape, OnlyRecorded, EffectOnce, Idle
<1>3. ASSUME TypeOK, RowShape, OnlyRecorded, EffectOnce, [Next]_vars
      PROVE  [Delivery!Next]_(Delivery!deliveryVars)
  <2> USE BusAssumption DEF outboxVars, dispatcherVars, brokerVars, inboxVars
  <2>1. ASSUME NEW e \in Event, Record(e)
        PROVE  Delivery!Record(e)
    BY <1>3, <2>1 DEF Record, Delivery!Record, TypeOK
  <2>2. ASSUME \A e \in Event : ~Record(e)
        PROVE  recordedEvents' = recordedEvents
    BY <1>3, <2>2, AbsentStep
  <2>3. ASSUME NEW c \in Consumer, HandlerCommits(c)
        PROVE  Delivery!Apply(task[c].event)
    <3>1. /\ task[c].event \in Event
          /\ task[c].event \in recordedEvents
      BY <1>3, <2>3, TaskDelivery DEF HandlerCommits, OnlyRecorded
    <3>2. CompleteInbox(task[c].event)
      BY <2>3 DEF HandlerCommits
    <3>3. effects[task[c].event] = 0
      BY <1>3, <3>1, <3>2 DEF CompleteInbox, CanComplete, EffectOnce
    <3>4. effects' = [effects EXCEPT ![task[c].event] = 1]
      BY <3>2, <3>3 DEF CompleteInbox
    <3>5. UNCHANGED <<outbox, dlq>>
      BY <2>3 DEF HandlerCommits
    <3> QED
      BY <3>1, <3>3, <3>4, <3>5 DEF Delivery!Apply
  <2>4. ASSUME NEW c \in Consumer, RetryOrDeadletter(c)
        PROVE  \/ Delivery!Park(task[c].event)
               \/ UNCHANGED <<outbox, effects, dlq>>
    <3>1. /\ task[c].event \in Event
          /\ task[c].event \in recordedEvents
      BY <1>3, <2>4, TaskDelivery DEF RetryOrDeadletter, OnlyRecorded
    <3> QED
      BY <2>4, <3>1 DEF RetryOrDeadletter, Delivery!Park
  <2>5. ASSUME NEW c \in Consumer, ConsumerStep(c) \/ ConsumerCrash(c) \/ ChannelLost(c),
               ~HandlerCommits(c), ~RetryOrDeadletter(c)
        PROVE  UNCHANGED <<outbox, effects, dlq>>
    BY <2>5 DEF ConsumerStep, Deliver, RejectPermanently, ClaimAcquired, ClaimDuplicate,
         ClaimBusy, ClaimRaises, TakeInbox, HandlerFails, MarkFailed, Ack,
         ConsumerCrash, ChannelLost
  <2>6. ASSUME NEW d \in Dispatcher, DispatcherStep(d) \/ DispatcherCrash(d)
        PROVE  UNCHANGED <<effects, dlq>>
    BY <2>6 DEF DispatcherStep, ClaimOutbox, Publish, PublishFails,
                ConfirmOutbox, DispatcherCrash
  <2>7. ASSUME NEW e \in Event, Time(e)
        PROVE  UNCHANGED <<outbox, effects, dlq>>
    BY <2>7 DEF Time, OutboxLeaseLapses, InboxLeaseLapses, RetryExpires
  <2>8. CASE \E e \in Event : Record(e)
    BY <2>1, <2>8 DEF Delivery!Next
  <2>9. CASE \A e \in Event : ~Record(e)
    <3>1. ASSUME NEW c \in Consumer, HandlerCommits(c) \/ RetryOrDeadletter(c)
          PROVE  task[c].event \in Event
      BY <1>3, <3>1, TaskDelivery DEF HandlerCommits, RetryOrDeadletter
    <3>2. ASSUME UNCHANGED <<effects, dlq>>
          PROVE  UNCHANGED Delivery!deliveryVars
      BY <2>2, <2>9, <3>2 DEF Delivery!deliveryVars
    <3>3. ASSUME NEW c \in Consumer, ConsumerStep(c) \/ ConsumerCrash(c) \/ ChannelLost(c)
          PROVE  [Delivery!Next]_(Delivery!deliveryVars)
      BY <2>3, <2>4, <2>5, <3>1, <3>2, <3>3 DEF Delivery!Next
    <3>4. CASE UNCHANGED vars
      BY <3>2, <3>4 DEF vars
    <3> QED
      BY <1>3, <2>6, <2>7, <2>9, <3>2, <3>3, <3>4 DEF Next
  <2> QED
    BY <2>8, <2>9
<1>4. TypeOK /\ RowShape /\ OnlyRecorded /\ EffectOnce /\ [Next]_vars
        => [Delivery!Next]_(Delivery!deliveryVars)
  BY <1>3
<1> QED
  BY <1>1, <1>2, <1>4, RowShapeStep, OnlyRecordedStep, EffectStep, TypeCorrect, PTL
     DEF SafetySpec, Delivery!SafetySpec
=============================================================================
