SPECIFICATION Spec
CONSTANTS
  DefaultInitial = 2
  DefaultMax = 4
  DefaultFactor = 2
  DefaultReset = 2
  DefaultPushAttempts = 3
  Omitted = Omitted
  Malformed = Malformed
  Secret = Secret
  Redacted = Redacted
  Ids = {1, 2}
  Documents <- MCDocuments
  Pipelines <- MCPipelines
  Legacy <- MCLegacy
  Atoi <- MCAtoi
  Itoa <- MCItoa
  WebhookPort = "8081"
  GrpcPort = "50051"
  DefaultPoll = 5
  MinPoll = 2
  DefaultTime = 1
  DefaultCount = 1
  Limit = 5
INVARIANT HonouredAsWritten
INVARIANT RunsWhatIsValid
INVARIANT ConflictIsNamed
PROPERTY DescribedAsRun
