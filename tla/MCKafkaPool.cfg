SPECIFICATION FairSpec
CONSTANTS
  Senders <- Requests
  Closers <- Shutdowns
  QueueSize = 2
  MaxPush = 2
INVARIANTS TypeOK FifoOnce CloseDrains PushesAccounted
PROPERTIES IsLossyFifo CloseCompletes AcceptedAreWritten
