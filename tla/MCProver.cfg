SPECIFICATION Spec
CONSTANTS
  p1 = p1 p2 = p2 p3 = p3
  s1 = s1 s2 = s2 s3 = s3 list = list get = get bad = bad quoted = quoted
  Posts <- MCPosts
  Calls <- MCCalls
  CallsOf <- MCCallsOf
  Method <- MCMethod
  Params <- MCParams
  Handlers <- MCHandlers
  Fallbacks <- MCFallbacks
  BlocksOf <- MCBlocksOf
  BatchOf <- MCBatchOf
  Wanted <- MCWanted
  QueueCapacity = 1
  MayPanic = TRUE
INVARIANTS PublishedOnce AcceptedIsVisible PendingHasRecord AnswersAreComplete
PROPERTIES LateDuplicateIsRefused AcceptedIsProved
CHECK_DEADLOCK FALSE
