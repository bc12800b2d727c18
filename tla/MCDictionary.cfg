CONSTANTS
  NewLine = 10
  Searches <- SomeSearches
  Equal <- EqualLine
  Greater <- GreaterLine
  Stop <- StopLine
  ChunkSize = 3
  EncoderSize = 2
  SourceSize = 5
  DecoderSize = 2
  PublicContents <- SomeContents
  Registrations <- SomeRegistrations
  Questions <- SomeQuestions
  MaxRegistered = 2
SPECIFICATION Spec
INVARIANTS
  Finds
  Answers
PROPERTIES
  Terminates
CHECK_DEADLOCK FALSE
