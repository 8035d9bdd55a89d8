SPECIFICATION Spec
CONSTANTS
  Base = 4
  LenBytes = 2
  Commands <- OneAndThree
  Replies <- TwoReplies
  MaxCalls = 3
  Faults = {"split", "cmdNull", "replyNull", "noReply", "short"}
INVARIANTS
  TypeOK
  CommandsIntact
  RepliesIntact
  NoStall
  WireInv
CHECK_DEADLOCK FALSE
