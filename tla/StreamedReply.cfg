SPECIFICATION ReplySpec
CONSTANTS
  MaxCalls = 2
  MaxPieces = 2
  MaxUnread = 8
INVARIANTS ReplyWhole ShownIsReply TornRefused
CHECK_DEADLOCK FALSE
