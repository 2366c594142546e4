SPECIFICATION Spec
CONSTANTS
  Configs <- MCConfigs
  Requests <- MCRequests
  Documents <- MCDocuments
  TFAnswers <- MCTFAnswers
  Lo = 8
  Fields = 8
  Sigmoid <- MCSigmoid
  Hash <- MCHash
  Half = 65536
  UserID = 1
  BlockSize = 3
  Cipher <- MCCipher
INVARIANTS AnswersAll CutsTheWorst ReRankIsMarginal BaselineUntouched TransIsWhole ScoreIsPairwise
  PasswordSurvives
