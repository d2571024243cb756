CONSTANTS
  a = a
  b = b
  loop = loop
  other = other
  NoConn = NoConn
  Conns = {a, b}
  Services <- MCServices
  Loops = {loop, other}
  LoopOf <- TwoLoops
  Inboxes <- InlineInboxes
  Pooled = {}
SPECIFICATION Spec
INVARIANT TypeOK
INVARIANT ResponsesGoHome
INVARIANT BatchRepliesAreComplete
INVARIANT RepliesInOrder
CHECK_DEADLOCK FALSE
