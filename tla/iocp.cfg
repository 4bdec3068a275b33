CONSTANT MaxReqs = 3
SPECIFICATION FairSpec
INVARIANTS LiveOverlaps DrainsBeforeExit
PROPERTIES ImplementsProactor Answered
