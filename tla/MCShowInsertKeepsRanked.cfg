SPECIFICATION FairSpec
CONSTANTS
  ItemIds <- MCItemIds
  RecallTypes <- MCRecallTypes
  MainLists <- MCMainLists
  Pools <- MCPools
  Exchanges <- MCExchanges
  Chains <- PagedChains
PROPERTY InsertKeepsRanked
