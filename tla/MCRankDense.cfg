SPECIFICATION Spec
CONSTANTS
  Configs <- OneFull
  Requests <- DenseRequests
  Documents <- MCDocuments
  TFAnswers <- MCTFAnswers
  Lo = 8
  Fields = 8
  Sigmoid <- MCSigmoid
  Hash <- MCHash
  Half = 65536
  UserID = 1
  BlockSize = 3
  Cipher <- MCCipher
INVARIANT DenseReachesTF
