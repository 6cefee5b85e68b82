SPECIFICATION DetectionSpec
CONSTANTS User = {"ana", "sol"}
          Memory = {"note"}
          Feedback = {"f1"}
          Suggestible = {"note"}
          Shows <- ShowsOf
          Facts = {"i1"}
          Conditions = {{"i1"}}
          Validity = {1}
          MinimumOccurrences = 1
          SampleSize = 1
          Machine = "machine"
          MaxVersion = 2
          MaxTime = 1
          Document = {"d1", "d2", "d3"}
          Payload = {"good", "bad"}
          Stamp <- StampOf
          Malformed = {"bad"}
          Limit = 2
          Scheduler = "scheduler"
          Operator = {"cli"}
          Hidden = "hidden"
          MaxFailures = 1
          Alert = {"f1", "f2", "f3"}
          At <- AtOf
          Source <- SourceOf
          Gravity <- GravityOf
          Entity <- EntityOf
          Rule = {"v1", "v2"}
          Definition <- DefinitionOf
          Initial = {"v1"}
          Handler = {"h1", "h2"}
          Nothing = Nothing
          MaxCase = 4
          MaxActs = 2
          Match = {"m1", "m2"}
          Evidence <- EvidenceOf
          Severity = {"medium", "critical"}
          Release = {"19.0", "19.1"}
          Installed = "19.0"
          Request = {"r1", "r2"}
          MaxRequests = 3
INVARIANTS TypesOK ExplanationsAreGrounded RiskCountsItsMappings ActiveWasJudged
PROPERTIES EveryFindingIsTaken EvidenceOnlyToLiveCases PatternIsNoticed
           JudgementsStand DueVersionsExpire
CHECK_DEADLOCK FALSE
