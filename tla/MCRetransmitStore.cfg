CONSTANTS
  Cap = 2
  Last = 4
  NoBytes = NoBytes
SPECIFICATION Spec
INVARIANTS AnswersAreGenuine
CHECK_DEADLOCK FALSE
