CONSTANTS
  a = a
  b = b
  loop = loop
  other = other
  NoConn = NoConn
  Conns = {a, b}
  Services <- MCServices
  Loops = {loop}
  LoopOf <- OneLoop
  Inboxes <- PooledInboxes
  Pooled <- LaterPooled
SPECIFICATION Spec
INVARIANT NotificationsAreHarmless
CHECK_DEADLOCK FALSE
