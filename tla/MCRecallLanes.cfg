SPECIFICATION Spec
CONSTANTS
  Requests <- MCRequests
  Libraries <- MCLibraries
  Features <- MCFeatures
  Times = {6, 8}
  Validity = 4
  Interests <- MCInterests
  Indexes <- MCIndexes
  RedisLists <- MCRedisLists
  ShareCap = 2
INVARIANTS SharesAreFair RedisNeverFails
PROPERTIES HeaviestIsServed NewestFirst
