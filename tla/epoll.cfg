CONSTANTS
  Fds <- OneFd
  Sorts <- AllSorts
  MaxReqs = 3
  MaxChunks = 1
SPECIFICATION FairSpec
INVARIANTS InFlight OwnOperation
PROPERTIES ImplementsProactor Answered
