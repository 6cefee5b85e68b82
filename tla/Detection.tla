------------------------------- MODULE Detection -------------------------------
(***************************************************************************)
(* From the indexer to an incident that is understood: ingestion,          *)
(* correlation, enrichment and the memory of earlier incidents, side by    *)
(* side.  What one hands to the next goes through the event bus, which     *)
(* EventBus models; here each has the inputs that can reach it, and one of *)
(* them, the focus, moves.  Where the others rest nothing is enabled that  *)
(* they are obliged to do.  GovernedMemory is extended for its theorems to *)
(* name what is checked here.                                              *)
(***************************************************************************)
EXTENDS GovernedMemory

\* What the instances below give to the constants of the services; a name
\* is the service's own unless two of them mean different things by it.
CONSTANTS Document, Payload, Stamp, Malformed, Limit, Scheduler, Operator,
          Hidden, MaxFailures,
          Alert, At, Source, Gravity, Entity, Rule, Definition, Initial,
          Handler, Nothing, MaxCase, MaxActs,
          Match, Evidence, Severity, Release, Installed, Request, MaxRequests

VARIABLES focus,
          index, cursor, page, mark, revision, failures,
          rule, activating, onFile, waiting, refused, run, case, task, sweep, acts,
          severity, release, matches, mapping, assessments, explanation, enriching,
          enriched

Intake == INSTANCE Ingestion

Engine == INSTANCE Correlation WITH Finding <- Alert, Severity <- Gravity

Enriching == INSTANCE Enrichment WITH
    request <- enriching, opened <- enriched

ASSUME DetectionAssumption ==
    /\ Intake!IngestionAssumption
    /\ Engine!CorrelationAssumption
    /\ Enriching!EnrichmentAssumption
    /\ MemoryAssumption

intakeVars == <<index, cursor, page, mark, revision, failures>>
engineVars == <<rule, activating, onFile, waiting, refused, run, case, task,
                sweep, acts>>
enrichingVars == <<severity, release, matches, mapping, assessments,
                   explanation, enriching, enriched>>
vars == <<focus, intakeVars, engineVars, enrichingVars, memoryVars>>

DetectionInit ==
    /\ focus \in {"intake", "engine", "enriching", "lessons"}
    /\ Intake!Init /\ Engine!Init /\ Enriching!Init /\ Init

IntakeMoves ==
    /\ focus = "intake" /\ Intake!Next
    /\ UNCHANGED <<focus, engineVars, enrichingVars, memoryVars>>
EngineMoves ==
    /\ focus = "engine" /\ Engine!Next
    /\ UNCHANGED <<focus, intakeVars, enrichingVars, memoryVars>>
EnrichingMoves ==
    /\ focus = "enriching" /\ Enriching!Next
    /\ UNCHANGED <<focus, intakeVars, engineVars, memoryVars>>
LessonsMove ==
    /\ focus = "lessons" /\ Next
    /\ UNCHANGED <<focus, intakeVars, engineVars, enrichingVars>>

DetectionNext == IntakeMoves \/ EngineMoves \/ EnrichingMoves \/ LessonsMove

DetectionSpec == DetectionInit /\ [][DetectionNext]_vars
                 /\ Intake!Fairness /\ Engine!Fairness /\ Fairness

TypesOK == /\ Intake!TypeOK /\ Engine!TypeOK
           /\ Enriching!TypeOK /\ TypeOK
EveryFindingIsTaken == Intake!EveryFindingIsTaken
EvidenceOnlyToLiveCases == Engine!EvidenceOnlyToLiveCases
PatternIsNoticed == Engine!PatternIsNoticed
ExplanationsAreGrounded == Enriching!ExplanationsAreGrounded
RiskCountsItsMappings == Enriching!RiskCountsItsMappings
=============================================================================
