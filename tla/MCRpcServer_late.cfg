CONSTANTS
  a = a
  b = b
  loop = loop
  other = other
  NoConn = NoConn
  Conns = {a, b}
  Services <- MCServices
  Loops = {loop}
  LoopOf <- OneLoop
  Inboxes <- PooledInboxes
  Pooled <- LaterPooled
SPECIFICATION Spec
INVARIANT BatchReplyWaits
CHECK_DEADLOCK FALSE
