SPECIFICATION AgentSpec
CONSTANTS
  Requests = {agent, q1}
  Agent = agent
  MaxProposals = 1
  Locales = {fr, en}
  Contents = {c1, c2}
  Kinds = {"create", "update"}
  MaxId = 1
  MaxRevision = 3
  MaxSnapshots = 3
  AllowCrash = TRUE
  Other = Other
  None = None
PROPERTY AgentNeverOverwrites
