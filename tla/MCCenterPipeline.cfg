SPECIFICATION FairSpec
CONSTANTS
  ItemIds <- MCItemIds
  RecallTypes <- MCRecallTypes
  Files <- MCFiles
  Configs <- MCConfigs
  Environments <- MCEnvironments
  Requests <- MCRequests
  LaneLists <- MCLaneLists
  UnknownTypes <- MCUnknown
  PortraitSets <- MCPortraits
  Exposures <- MCExposures
  Exchanges <- MCExchanges
  RankCuts = {0, 2}
  RankScores <- MCRankScores
  StubItems <- MCStub
  LogCap = 2
INVARIANTS ShownAreEligible MergeFills ScoredComeFirst ScoresSurvive OneGroupServes ForcedShown
PROPERTY IsRequestLife
