SPECIFICATION AgentSpec
CONSTANTS
  Requests = {agent, q1}
  Agent = agent
  MaxProposals = 1
  Locales = {fr, en}
  Contents = {c1}
  Kinds = {"create", "update", "addLocale", "dropLocale", "delete"}
  MaxId = 1
  MaxRevision = 3
  MaxSnapshots = 3
  AllowCrash = TRUE
  Other = Other
  None = None
INVARIANTS AgentTypeOK AppliedAtMostOnce AcceptedMeansApplied InvalidIsNeverApplied
