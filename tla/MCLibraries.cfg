SPECIFICATION AllSpec
CONSTANTS
  u1 = u1 u2 = u2 c1 = c1 c2 = c2
  Posts <- MCPosts
  Calls <- MCPosts
  CallsOf <- MCCallsOf
  Method <- MCMethod
  Params <- MCParams
  Handlers = {}
  Fallbacks = {"moj"}
  UrlLists <- MCUrlLists
  MaxRetries = {0, 1, 2}
  Numbers = {1, 2}
  Hashes = {"a", "b"}
  ConsumerSets <- MCConsumerSets
  ItemTypes = {"Block", "Sequence", "Multi"}
  Notifications <- MCNotifications
  Receivers = {"r1", "r2"}
  Capacity = 1
  MaxReceived = 3
  Builders = {"b1", "b2"}
  Coins = {"k1", "k2"}
  PayloadLists <- MCPayloadLists
  MaxPush = 3
  Amount = 10
  FeeRate = 2
  BaseSize = 100
  ProofBatches = {1, 2}
  ProverTypes = {"sp1", "exec"}
  ProofIds = {"a", "b"}
  NoProof = NoProof
  EntryLists <- MCEntryLists
  Literals <- MCLiterals
INVARIANTS
  AtMostOncePerUrl FailedCallStaysFailed NoSilentGap CoinsAreAccounted RevealIsValid
  AttributeReadBack
PROPERTIES IsBlockQueue LoneConsumerIsServed FirstProofStays
CHECK_DEADLOCK FALSE
