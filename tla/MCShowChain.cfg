SPECIFICATION Spec
CONSTANTS
  ItemIds <- MCItemIds
  RecallTypes <- MCRecallTypes
  MainLists <- MCMainLists
  Pools <- MCPools
  Exchanges <- MCExchanges
  Chains <- MCChains
INVARIANT ShownOnce
PROPERTIES HomogenReplaces InsertsOnTop PagesKeepOrder MMRRearranges
