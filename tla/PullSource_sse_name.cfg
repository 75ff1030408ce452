SPECIFICATION Spec
CONSTANTS
  MaxRuns = 1
  Names = {"a"}
  Texts = {"x"}
  Default = "sse_message"
  MaxLines = 5
INVARIANT FramesNamed
