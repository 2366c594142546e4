SPECIFICATION Spec
CONSTANTS
  Requests <- NewTagUser
  Libraries <- MCLibraries
  Features <- MCFeatures
  Times = {6, 8}
  Validity = 4
  Interests <- MCInterests
  Indexes <- MCIndexes
  RedisLists <- MCRedisLists
  ShareCap = 2
PROPERTY TagLaneIsEmpty
