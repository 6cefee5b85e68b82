------------------------------ MODULE EventBus -------------------------------
(***************************************************************************)
(* The asynchronous backbone: the transactional outbox, its dispatchers,   *)
(* RabbitMQ's main, retry and dead-letter queues, the consumers, and the   *)
(* inbox that makes a redelivered event harmless.                          *)
(*                                                                         *)
(* Sources: shared/infrastructure/event_store.py, rabbitmq.py, the SQL     *)
(* functions of migration 0008 and the wiring in worker.py.  One variable  *)
(* stands for one column or one piece of process memory:                   *)
(*   outbox, lease_token, lapsed        a row of event_outbox              *)
(*   batch, sent                        the locals of run_forever          *)
(*   main, retry, dlq                   copies in RabbitMQ                 *)
(*   inbox, inbox_lapsed                a row of event_inbox               *)
(*   task                               one running _on_message            *)
(*   effects                            commits of the handler transaction *)
(* Clocks are abstracted to "the lease has run out".  What is not ordinary *)
(* progress (a crash, a lost channel, a broker error, a process too slow   *)
(* for its own lease) spends one of MaxFaults faults.                      *)
(***************************************************************************)
EXTENDS Naturals, FiniteSets

CONSTANTS Event,        \* domain events of one tenant
          Routed,       \* events whose name has a binding to the main queue
          Unsupported,  \* events with no handler for their schema version
          Dispatcher,   \* OutboxDispatcher loops (one per worker process)
          Consumer,     \* delivery slots: prefetch times worker processes
          BatchSize,    \* OUTBOX_BATCH_SIZE
          MaxRetries,   \* len(retry_delays_seconds)
          MaxFaults,    \* bound on the faults of one behaviour
          NoEvent, NoToken

ASSUME BusAssumption ==
    /\ Routed \subseteq Event
    /\ Unsupported \subseteq Event
    /\ BatchSize \in Nat \ {0}
    /\ MaxRetries \in Nat
    /\ MaxFaults \in Nat
    /\ NoEvent \notin Event
    /\ NoToken \notin Dispatcher

VARIABLES outbox, lease_token, lapsed, batch, sent,
          main, retry, dlq, inbox, inbox_lapsed, task, effects, faults

outboxVars == <<outbox, lease_token, lapsed>>
dispatcherVars == <<batch, sent>>
brokerVars == <<main, retry, dlq>>
inboxVars == <<inbox, inbox_lapsed, effects>>

vars == <<outboxVars, dispatcherVars, brokerVars, inboxVars, task, faults>>

Attempt == 0..MaxRetries

OutboxStatus == {"absent", "pending", "publishing", "published"}
InboxStatus == {"none", "processing", "completed", "failed"}

\* Where a running _on_message stands: received, inside the handler
\* transaction, about to call _mark_failed, about to call
\* _retry_or_deadletter, or about to acknowledge.
TaskPc == {"idle", "received", "handler", "mark_failed", "retry", "ack"}

Task == [pc : TaskPc,
         event : Event \cup {NoEvent},
         attempt : Attempt,
         held : BOOLEAN,    \* the delivery is still unacknowledged on its channel
         rescue : BOOLEAN,  \* already inside the outer "except Exception"
         live : BOOLEAN]    \* the lease its claim_inbox obtained is running

Idle == [pc |-> "idle", event |-> NoEvent, attempt |-> 0,
         held |-> FALSE, rescue |-> FALSE, live |-> FALSE]

\* Every row, queue, batch and task has the shape its columns allow, and a
\* task that is at work is at work on an event.
TypeOK ==
    /\ outbox \in [Event -> OutboxStatus]
    /\ lease_token \in [Event -> Dispatcher \cup {NoToken}]
    /\ lapsed \subseteq Event
    /\ batch \in [Dispatcher -> SUBSET Event]
    /\ sent \in [Dispatcher -> Event \cup {NoEvent}]
    /\ main \in [Event \X Attempt -> Nat]
    /\ retry \in [Event \X Attempt -> Nat]
    /\ dlq \subseteq Event
    /\ inbox \in [Event -> InboxStatus]
    /\ inbox_lapsed \subseteq Event
    /\ effects \in [Event -> Nat]
    /\ task \in [Consumer -> Task]
    /\ \A c \in Consumer : task[c].pc # "idle" => task[c].event \in Event
    /\ faults \in 0..MaxFaults

Init ==
    /\ outbox = [e \in Event |-> "absent"]
    /\ lease_token = [e \in Event |-> NoToken]
    /\ lapsed = {}
    /\ batch = [d \in Dispatcher |-> {}]
    /\ sent = [d \in Dispatcher |-> NoEvent]
    /\ main = [m \in Event \X Attempt |-> 0]
    /\ retry = [m \in Event \X Attempt |-> 0]
    /\ dlq = {}
    /\ inbox = [e \in Event |-> "none"]
    /\ inbox_lapsed = {}
    /\ effects = [e \in Event |-> 0]
    /\ task = [c \in Consumer |-> Idle]
    /\ faults = 0

SpendFault == /\ faults < MaxFaults
              /\ faults' = faults + 1

Put(queue, e, a) == [queue EXCEPT ![<<e, a>>] = @ + 1]
Take(queue, e, a) == [queue EXCEPT ![<<e, a>>] = @ - 1]

-----------------------------------------------------------------------------
(* The producer and the outbox dispatcher.                                 *)

\* SqlEventStore.add inside the producer's own transaction.
Record(e) ==
    /\ outbox[e] = "absent"
    /\ outbox' = [outbox EXCEPT ![e] = "pending"]
    /\ UNCHANGED <<lease_token, lapsed, dispatcherVars, brokerVars, inboxVars,
                   task, faults>>

\* Mutant: rows whose dispatcher died are never picked up again.
Claimable_NoRecovery == {e \in Event : outbox[e] = "pending"}

Claimable == {e \in Event : \/ outbox[e] = "pending"
                            \/ outbox[e] = "publishing" /\ e \in lapsed}

\* claim_event_outbox: as many rows as the batch allows, each under a new
\* token.  A dispatcher claims only when its previous batch is done, so its
\* own name is a token no earlier claim of the row shares.
ClaimOutbox(d) ==
    /\ batch[d] = {}
    /\ \E rows \in SUBSET Claimable :
        /\ rows # {}
        /\ Cardinality(rows) <= BatchSize
        /\ rows = Claimable \/ Cardinality(rows) = BatchSize
        /\ outbox' = [e \in Event |-> IF e \in rows THEN "publishing" ELSE outbox[e]]
        /\ lease_token' = [e \in Event |-> IF e \in rows THEN d ELSE lease_token[e]]
        /\ lapsed' = lapsed \ rows
        /\ batch' = [batch EXCEPT ![d] = rows]
    /\ UNCHANGED <<sent, brokerVars, inboxVars, task, faults>>

\* events.publish(mandatory=True) ends when the broker confirms.  A message no
\* queue is bound to is returned, but the channel is opened with
\* on_return_raises left False: that counts as confirmed too.
Publish(d, e) ==
    /\ e \in batch[d] /\ sent[d] = NoEvent
    /\ main' = IF e \in Routed THEN Put(main, e, 0) ELSE main
    /\ sent' = [sent EXCEPT ![d] = e]
    /\ UNCHANGED <<outboxVars, batch, retry, dlq, inboxVars, task, faults>>

\* Mutant: the UPDATE forgets to compare the lease token.
OwnsRow_AnyToken(d, e) == outbox[e] = "publishing"

OwnsRow(d, e) == outbox[e] = "publishing" /\ lease_token[e] = d

\* confirm_event_outbox: only under the token of the claim; a lost lease is
\* logged and the item is dropped.
ConfirmOutbox(d) ==
    /\ sent[d] # NoEvent
    /\ LET e == sent[d] IN
        /\ IF OwnsRow(d, e)
             THEN /\ outbox' = [outbox EXCEPT ![e] = "published"]
                  /\ lease_token' = [lease_token EXCEPT ![e] = NoToken]
                  /\ lapsed' = lapsed \ {e}
             ELSE UNCHANGED outboxVars
        /\ batch' = [batch EXCEPT ![d] = @ \ {e}]
    /\ sent' = [sent EXCEPT ![d] = NoEvent]
    /\ UNCHANGED <<brokerVars, inboxVars, task, faults>>

\* The "except Exception" of run_forever: fail_event_outbox under the token.
FailOutbox(d, e) ==
    /\ IF OwnsRow(d, e)
         THEN /\ outbox' = [outbox EXCEPT ![e] = "pending"]
              /\ lease_token' = [lease_token EXCEPT ![e] = NoToken]
              /\ lapsed' = lapsed \ {e}
         ELSE UNCHANGED outboxVars
    /\ batch' = [batch EXCEPT ![d] = @ \ {e}]
    /\ sent' = [sent EXCEPT ![d] = NoEvent]

\* The broker did not confirm (it may or may not have the copy), or the
\* confirmation could not be written after a successful publish.
PublishFails(d, e) ==
    /\ e \in batch[d] /\ sent[d] \in {NoEvent, e}
    /\ \/ UNCHANGED main
       \/ sent[d] = NoEvent /\ e \in Routed /\ main' = Put(main, e, 0)
    /\ SpendFault
    /\ FailOutbox(d, e)
    /\ UNCHANGED <<retry, dlq, inboxVars, task>>

\* The worker dies: its claimed rows stay "publishing" until the lease ends.
DispatcherCrash(d) ==
    /\ batch[d] # {}
    /\ batch' = [batch EXCEPT ![d] = {}]
    /\ sent' = [sent EXCEPT ![d] = NoEvent]
    /\ SpendFault
    /\ UNCHANGED <<outboxVars, brokerVars, inboxVars, task>>

\* lease_expires_at passes.  That is mere time when the claimer is gone, and
\* a fault when it is still working through its batch.
OutboxLeaseLapses(e) ==
    /\ outbox[e] = "publishing" /\ e \notin lapsed
    /\ lapsed' = lapsed \cup {e}
    /\ IF \E d \in Dispatcher : lease_token[e] = d /\ e \in batch[d]
         THEN SpendFault
         ELSE UNCHANGED faults
    /\ UNCHANGED <<outbox, lease_token, dispatcherVars, brokerVars, inboxVars, task>>

-----------------------------------------------------------------------------
(* RabbitMQ and the consumer.                                              *)

Become(c, t) == task' = [task EXCEPT ![c] = t]

Goto(c, pc) == Become(c, [task[c] EXCEPT !.pc = pc])

Deliver(c, e, a) ==
    /\ task[c].pc = "idle"
    /\ main[<<e, a>>] > 0
    /\ main' = Take(main, e, a)
    /\ Become(c, [Idle EXCEPT !.pc = "received", !.event = e,
                              !.attempt = a, !.held = TRUE])
    /\ UNCHANGED <<outboxVars, dispatcherVars, retry, dlq, inboxVars, faults>>

\* The TTL of a retry queue ends and its dead-letter exchange is the main one.
RetryExpires(e, a) ==
    /\ retry[<<e, a>>] > 0
    /\ retry' = Take(retry, e, a)
    /\ main' = Put(main, e, a)
    /\ UNCHANGED <<outboxVars, dispatcherVars, dlq, inboxVars, task, faults>>

\* An exception that reaches the outer "except Exception" of _on_message.
Rescue(c) == Become(c, [task[c] EXCEPT !.pc = "retry", !.rescue = TRUE])

\* _validate_message or the handler registry rejects the message for good.
RejectPermanently(c) ==
    /\ task[c].pc = "received"
    /\ task[c].event \in Unsupported
    /\ Rescue(c)
    /\ UNCHANGED <<outboxVars, dispatcherVars, brokerVars, inboxVars, faults>>

CanClaim(e) == \/ inbox[e] \in {"none", "failed"}
               \/ inbox[e] = "processing" /\ e \in inbox_lapsed

TakeInbox(e) == /\ inbox' = [inbox EXCEPT ![e] = "processing"]
                /\ inbox_lapsed' = inbox_lapsed \ {e}
                /\ UNCHANGED effects

Receiving(c) == task[c].pc = "received" /\ task[c].event \notin Unsupported

ClaimAcquired(c) ==
    /\ Receiving(c)
    /\ CanClaim(task[c].event)
    /\ TakeInbox(task[c].event)
    /\ Become(c, [task[c] EXCEPT !.pc = "handler", !.live = TRUE])
    /\ UNCHANGED <<outboxVars, dispatcherVars, brokerVars, faults>>

ClaimDuplicate(c) ==
    /\ Receiving(c)
    /\ inbox[task[c].event] = "completed"
    /\ Goto(c, "ack")
    /\ UNCHANGED <<outboxVars, dispatcherVars, brokerVars, inboxVars, faults>>

\* Mutant: a busy inbox is acknowledged like a duplicate.
ClaimBusy_Acked(c) ==
    /\ Receiving(c)
    /\ ~CanClaim(task[c].event)
    /\ Goto(c, "ack")
    /\ UNCHANGED <<outboxVars, dispatcherVars, brokerVars, inboxVars, faults>>

\* The reclaiming UPDATE matched no row; the handler that held it may have
\* completed after the SELECT that looked for "completed".
ClaimBusy(c) ==
    /\ Receiving(c)
    /\ ~CanClaim(task[c].event)
    /\ Goto(c, "retry")
    /\ UNCHANGED <<outboxVars, dispatcherVars, brokerVars, inboxVars, faults>>

\* The claim transaction raised; its commit may or may not have happened.
ClaimRaises(c) ==
    /\ Receiving(c)
    /\ Rescue(c)
    /\ \/ UNCHANGED inboxVars
       \/ CanClaim(task[c].event) /\ TakeInbox(task[c].event)
    /\ UNCHANGED <<outboxVars, dispatcherVars, brokerVars, faults>>

\* Mutant: complete_inbox without its status condition.
CanComplete_Any(e) == TRUE

CanComplete(e) == inbox[e] = "processing"

CompleteInbox(e) ==
    /\ CanComplete(e)
    /\ inbox' = [inbox EXCEPT ![e] = "completed"]
    /\ inbox_lapsed' = inbox_lapsed \ {e}
    /\ effects' = [effects EXCEPT ![e] = @ + 1]

\* Handler and complete_inbox commit in one transaction.  The commit may
\* also happen and its answer be lost to the handler's own timeout.
HandlerCommits(c) ==
    /\ task[c].pc = "handler"
    /\ CompleteInbox(task[c].event)
    /\ \/ Become(c, [task[c] EXCEPT !.pc = "ack", !.live = FALSE])
       \/ Goto(c, "mark_failed")
    /\ UNCHANGED <<outboxVars, dispatcherVars, brokerVars, faults>>

\* The handler raised, timed out, or complete_inbox found no processing row:
\* the transaction rolled back.
HandlerFails(c) ==
    /\ task[c].pc = "handler"
    /\ Goto(c, "mark_failed")
    /\ UNCHANGED <<outboxVars, dispatcherVars, brokerVars, inboxVars, faults>>

\* Mutant: a status the table's CHECK does not know.
FailedInbox_Pending(e) == [inbox EXCEPT ![e] = IF @ = "processing" THEN "pending" ELSE @]

\* fail_inbox: any processing row, whoever claimed it.
FailedInbox(e) == [inbox EXCEPT ![e] = IF @ = "processing" THEN "failed" ELSE @]

\* The UPDATE of fail_inbox happens, or it raises and the outer handler
\* retries the message with the inbox row left as it was.
MarkFailed(c) ==
    /\ task[c].pc = "mark_failed"
    /\ LET e == task[c].event IN
         \/ /\ inbox' = FailedInbox(e)
            /\ inbox_lapsed' = IF inbox[e] = "processing" THEN inbox_lapsed \ {e}
                                                          ELSE inbox_lapsed
            /\ Become(c, [task[c] EXCEPT !.pc = "retry", !.live = FALSE])
         \/ /\ UNCHANGED <<inbox, inbox_lapsed>>
            /\ Become(c, [task[c] EXCEPT !.pc = "retry", !.live = FALSE,
                                          !.rescue = TRUE])
    /\ UNCHANGED <<outboxVars, dispatcherVars, brokerVars, effects, faults>>

\* _retry_or_deadletter up to its ack: the next copy first, the ack later.
RetryOrDeadletter(c) ==
    /\ task[c].pc = "retry"
    /\ LET e == task[c].event
           a == task[c].attempt
       IN  IF e \notin Unsupported /\ a < MaxRetries
             THEN retry' = Put(retry, e, a + 1) /\ UNCHANGED dlq
             ELSE dlq' = dlq \cup {e} /\ UNCHANGED retry
    /\ Goto(c, "ack")
    /\ UNCHANGED <<outboxVars, dispatcherVars, main, inboxVars, faults>>

\* message.ack() on a live channel ends the task and drops the copy.  On a
\* channel lost meanwhile it may raise; the outer handler then retries once.
Ack(c) ==
    /\ task[c].pc = "ack"
    /\ \/ Become(c, Idle)
       \/ ~task[c].held /\ ~task[c].rescue /\ Rescue(c)
    /\ UNCHANGED <<outboxVars, dispatcherVars, brokerVars, inboxVars, faults>>

Requeued(c) == IF task[c].held THEN Put(main, task[c].event, task[c].attempt)
                               ELSE main

\* The worker dies, or _retry_or_deadletter itself cannot publish: the
\* unacknowledged delivery goes back to the queue with the same headers.
ConsumerCrash(c) ==
    /\ task[c].pc # "idle"
    /\ main' = Requeued(c)
    /\ Become(c, Idle)
    /\ SpendFault
    /\ UNCHANGED <<outboxVars, dispatcherVars, retry, dlq, inboxVars>>

\* The channel is lost while the task keeps running.
ChannelLost(c) ==
    /\ task[c].pc # "idle" /\ task[c].held
    /\ main' = Requeued(c)
    /\ Become(c, [task[c] EXCEPT !.held = FALSE])
    /\ SpendFault
    /\ UNCHANGED <<outboxVars, dispatcherVars, retry, dlq, inboxVars>>

LeaseHolder(e) == {c \in Consumer : task[c].event = e /\ task[c].live}

\* The inbox lease (twice the handler timeout) passes; a fault if the task
\* that claimed it has not finished.
InboxLeaseLapses(e) ==
    /\ inbox[e] = "processing" /\ e \notin inbox_lapsed
    /\ inbox_lapsed' = inbox_lapsed \cup {e}
    /\ task' = [c \in Consumer |->
                  IF c \in LeaseHolder(e) THEN [task[c] EXCEPT !.live = FALSE]
                                          ELSE task[c]]
    /\ IF LeaseHolder(e) # {} THEN SpendFault ELSE UNCHANGED faults
    /\ UNCHANGED <<outboxVars, dispatcherVars, brokerVars, inbox, effects>>

-----------------------------------------------------------------------------
ConsumerStep(c) ==
    \/ \E e \in Event, a \in Attempt : Deliver(c, e, a)
    \/ RejectPermanently(c)
    \/ ClaimAcquired(c) \/ ClaimDuplicate(c) \/ ClaimBusy(c) \/ ClaimRaises(c)
    \/ HandlerCommits(c) \/ HandlerFails(c)
    \/ MarkFailed(c) \/ RetryOrDeadletter(c) \/ Ack(c)

DispatcherStep(d) ==
    \/ ClaimOutbox(d)
    \/ \E e \in Event : Publish(d, e) \/ PublishFails(d, e)
    \/ ConfirmOutbox(d)

Time(e) == \/ OutboxLeaseLapses(e)
           \/ InboxLeaseLapses(e)
           \/ \E a \in Attempt : RetryExpires(e, a)

Next ==
    \/ \E e \in Event : Record(e) \/ Time(e)
    \/ \E d \in Dispatcher : DispatcherStep(d) \/ DispatcherCrash(d)
    \/ \E c \in Consumer : ConsumerStep(c) \/ ConsumerCrash(c) \/ ChannelLost(c)

SafetySpec == Init /\ [][Next]_vars

\* A worker that is up keeps taking steps, and time passes.  Nothing makes
\* the outcome of a step good, and nothing makes a producer record an event.
Fairness == /\ \A d \in Dispatcher : WF_vars(DispatcherStep(d))
            /\ \A c \in Consumer : WF_vars(ConsumerStep(c))
            /\ \A e \in Event : WF_vars(OutboxLeaseLapses(e))
                             /\ WF_vars(InboxLeaseLapses(e))
                             /\ \A a \in Attempt : WF_vars(RetryExpires(e, a))

Spec == SafetySpec /\ Fairness
-----------------------------------------------------------------------------
(* Properties.                                                             *)

\* Something still answers for event e: its effect is committed, a dead
\* letter or a queued copy exists, or a task has yet to dispose of its copy.
Anchored(e) ==
    \/ inbox[e] = "completed"
    \/ e \in dlq
    \/ \E a \in Attempt : main[<<e, a>>] > 0 \/ retry[<<e, a>>] > 0
    \/ \E c \in Consumer : /\ task[c].event = e /\ task[c].held
                          /\ task[c].pc \notin {"idle", "ack"}

\* No event that some queue is bound to is lost once its outbox row says
\* "published": whatever crashes, lost channels and lapsed leases follow, the
\* event was applied, is in a queue, is being worked on, or lies in the
\* dead-letter queue.
NoEventLost == \A e \in Routed : outbox[e] = "published" => Anchored(e)

\* The handler's transaction commits at most once per event, although copies
\* are published twice, redelivered, retried and handled concurrently: it
\* has committed exactly when the inbox row is completed.
EffectOnce ==
    \A e \in Event : effects[e] = IF inbox[e] = "completed" THEN 1 ELSE 0

\* A dispatcher whose outbox lease is running loses the row to nobody: only
\* its own confirm, fail or crash ends its claim.  (The lease token does it;
\* a dispatcher that overslept its lease cannot touch the next claim.)
LeaseHolderUndisturbed ==
    [][\A d \in Dispatcher, e \in Event :
          (e \in batch[d] /\ lease_token[e] = d /\ e \notin lapsed)
            => (e \in batch'[d] => OwnsRow(d, e)')]_vars

\* The bus implements the abstract delivery promise: its steps are recording,
\* applying and parking or invisible, and under the fairness above every
\* recorded event that some queue is bound to is applied or parked.
Delivery == INSTANCE EventDelivery WITH
                Deliverable <- Routed,
                recorded <- {e \in Event : outbox[e] # "absent"},
                applied <- effects,
                parked <- dlq

DeliveryImplemented == Delivery!Spec

\* PHASE_15 section 9: "Si tiene lease activo, no ejecuta concurrentemente".
\* Two handlers whose inbox leases are both running never overlap on an
\* event.  fail_inbox carries no token, so a task that overslept its lease
\* fails the claim of the task that recovered it, and a third may start.
ActiveLeaseExcludesOthers ==
    \A c1, c2 \in Consumer :
        /\ task[c1].pc = "handler" /\ task[c1].live
        /\ task[c2].pc = "handler" /\ task[c2].live
        /\ task[c1].event = task[c2].event
        => c1 = c2

\* PHASE_24_IMPLEMENTATION_HANDOFF.md: every production event name is bound
\* by the worker, so that nothing is published for which no consumer can
\* answer: a row that says "published" stands for an event somebody has.
PublishedHasReceiver == \A e \in Event : outbox[e] = "published" => Anchored(e)
=============================================================================
