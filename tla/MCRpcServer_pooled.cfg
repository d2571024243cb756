CONSTANTS
  a = a
  b = b
  loop = loop
  other = other
  NoConn = NoConn
  Conns = {a, b}
  Services <- MCServices
  Loops = {loop}
  LoopOf <- OneLoop
  Inboxes <- PooledInboxes
  Pooled <- LaterPooled
SPECIFICATION FairSpec
INVARIANT RespondedOnce
INVARIANT RefusalIsTheLastReply
INVARIANT NoCallIsLost
PROPERTY EveryMessageIsReplied
CHECK_DEADLOCK FALSE
