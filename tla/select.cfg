CONSTANTS
  Fds <- OneFd
  SharedExecutor = TRUE
  MaxReqs = 2
  MaxChunks = 2
SPECIFICATION FairSpec
INVARIANTS AtMostOnce NothingLost EraseOwn
PROPERTIES ChunksInOrder ImplementsProactor Answered
