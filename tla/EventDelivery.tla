---------------------------- MODULE EventDelivery ----------------------------
(***************************************************************************)
(* What the platform's event bus promises to the code that records domain  *)
(* events (PHASE_15 section 3): a recorded event is handed to its consumer *)
(* at least once, its observable effect happens at most once, and when it  *)
(* cannot be handled it is parked in the dead-letter queue and not lost.   *)
(* The module knows nothing of tables, leases or queues: EventBus is shown *)
(* to implement it.                                                        *)
(***************************************************************************)
EXTENDS Naturals

CONSTANTS Event,        \* the domain events of one tenant
          Deliverable   \* those some queue is bound to

VARIABLES recorded,  \* events committed together with the business change
          applied,   \* how often the consumer's effect on the event committed
          parked     \* events with a copy in the dead-letter queue

deliveryVars == <<recorded, applied, parked>>

Settled(e) == applied[e] > 0 \/ e \in parked

Init == /\ recorded = {}
        /\ applied = [e \in Event |-> 0]
        /\ parked = {}

Record(e) == /\ e \notin recorded
             /\ recorded' = recorded \cup {e}
             /\ UNCHANGED <<applied, parked>>

Apply(e) == /\ e \in recorded
            /\ applied[e] = 0
            /\ applied' = [applied EXCEPT ![e] = 1]
            /\ UNCHANGED <<recorded, parked>>

\* A copy may be parked although another copy was, or will be, applied.
Park(e) == /\ e \in recorded
           /\ parked' = parked \cup {e}
           /\ UNCHANGED <<recorded, applied>>

Settle(e) == ~Settled(e) /\ (Apply(e) \/ Park(e))

Next == \E e \in Event : Record(e) \/ Apply(e) \/ Park(e)

SafetySpec == Init /\ [][Next]_deliveryVars

Spec == SafetySpec /\ \A e \in Deliverable : WF_deliveryVars(Settle(e))
=============================================================================
