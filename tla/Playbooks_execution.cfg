SPECIFICATION Spec
CONSTANTS
  check = check  contain = contain  notify = notify  verify = verify
  Process = {worker, scheduler}
  MaxAttempts = 2
  Order <- ContainOrder
  Condition = {check, verify}
  RetrySafe = {contain}
  Edge <- ContainEdge
  Worker = {worker, scheduler}
  Scheduler = scheduler
  MaxFaults = 2
  NoWorker = NoWorker  NoStep = NoStep
INVARIANTS TypeOK OneRunActs QueuedHasAttemptLeft SuccessIsTrue ExternalEffectOnce
PROPERTY LifecycleImplemented
