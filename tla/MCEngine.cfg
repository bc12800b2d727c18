CONSTANTS
  Findings <- SomeFindings
  MaxBuffer = 4
  MaxStates = 3
SPECIFICATION Spec
INVARIANTS
  StateOK
  ViewOK
PROPERTIES
  LearnsWhatWasAsked
  CommitsWhatIsShown
CHECK_DEADLOCK FALSE
