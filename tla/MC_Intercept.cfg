SPECIFICATION Spec
CONSTANTS
  MaxLine = 4
  MaxOutput = 6
  MaxChunk = 3
INVARIANTS BufferIsBounded PromptsFound NoPromptTwice
