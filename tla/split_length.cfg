SPECIFICATION Spec
CONSTANTS
  Base = 4
  LenBytes = 2
  Commands <- ShortAndLong
  Replies <- TwoReplies
  MaxCalls = 2
  Faults = {"split"}
INVARIANTS
  SentIsExecuted
CHECK_DEADLOCK FALSE
