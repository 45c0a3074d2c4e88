CONSTANTS
  TaskCount = 2
  DependsOn <- PairDependsOn
  AllowedFiles <- PairFiles
  UiTasks = {}
  Workers = {w1}
  gemini = gemini
  groq = groq
  mistral = mistral
  Providers = {gemini, groq, mistral}
  Candidates = {gemini}
  Digests = {d1}
  Messages = {"plain", "integration"}
  Panels <- PassOnly
  Approvals = {}
  LeaseTicks = 1
  ImplementationLimit = 1
  ValidationLimit = 3
  ArchiveLimit = 1
  AttemptLimit = 2
  HealingBudget = 1
  Nobody = Nobody
  EditLimit = 1
SPECIFICATION FairIntegrationSpec
INVARIANTS
  CompletedWorkIsInEffect
  PrerequisitesPrecede
PROPERTIES
  RunsEnd
  UsesTheServiceAsModelled
CHECK_DEADLOCK FALSE
