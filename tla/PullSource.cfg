SPECIFICATION FairSpec
CONSTANTS
  MaxRuns = 3
  Names = {"a"}
  Texts = {"x"}
  Default = "sse_message"
  MaxLines = 5
INVARIANT SessionContract
INVARIANT OneEventPerFrame
PROPERTY CancelledReturns
PROPERTY WatchersLeave
