SPECIFICATION ServicesSpec
CONSTANTS Request = {r1, r2}
          Account = {"account"}
          Host = {"host"}
          Execution = {"e1", "e2"}
          Target <- TargetOf
          Correlation = {"c1", "c2"}
          MaxRollbacks = 2
          None = "none"
          Publisher = {"ana"}
          Procedure = {"old", "new"}
          Action = {"host"}
          Instance = {"runner", "local"}
          Uses <- UsesOf
          ZeroConfig = {}
          Wazuh = {"host"}
          HighImpact = {"new"}
          Minimum <- MinimumOf
          TopMode = 1
          First = "old"
          Runner = "runner"
          Local = "local"
          MaxVersion = 2
          MaxRemaps = 1
          MaxReleases = 2
          NoUser = "nobody"
          NoProcedure = "gone"
          Analyst = {"ana", "sol"}
          Claim = {"c1", "c2"}
          Finding = {"f1"}
          Relater = {"r"}
          Machine = "machine"
          NoOne = "nobody"
          MaxAssessments = 2
          MaxRelations = 1
          MaxTexts = 1
          Holds <- HoldsOf
          Invited = {"ana"}
          Slot = {"diagnosis", "root_cause", "resolution"}
          MaxEdits = 5
          Member = {"sol"}
          Admins = {}
          MaxTokens = 3
          MaxGeneration = 1
INVARIANT ResolverNeverCloses
CHECK_DEADLOCK FALSE
SYMMETRY Symmetry
