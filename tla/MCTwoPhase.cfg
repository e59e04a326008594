SPECIFICATION Spec
CONSTANTS
  Unit = 2
  Sentence = 2
  Pipelines <- MCPipelines
  Providers <- MCProviders
  Requests <- MCRequests
  Grants <- MCGrants
  Multipliers = {2, 3}
  Answers <- MCAnswers
  MaxRounds = 2
  MaxReports = 2
  MaxHeld = 2
  None = None
INVARIANTS
  CompressionContract
  AnswersAsAsked
  QuietCommitAccepted
CHECK_DEADLOCK FALSE
