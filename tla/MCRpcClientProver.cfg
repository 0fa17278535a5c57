SPECIFICATION Spec
CONSTANTS
  u1 = u1 u2 = u2
  Posts <- MCPosts
  Calls <- MCPosts
  CallsOf <- MCCallsOf
  Method <- MCMethod
  Params <- MCParams
  Handlers <- MCProverHandlers
  Fallbacks = {}
  UrlLists <- MCUrlLists
  MaxRetries = {0, 1, 2}
INVARIANTS RegisteredIsServed
CHECK_DEADLOCK FALSE
