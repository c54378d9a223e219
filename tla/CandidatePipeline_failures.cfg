\* Two candidates, two network slots; fetches, compression, writes and dedup
\* may fail.
CONSTANTS
    Candidates <- TwoCandidates
    Seeds <- TwoSeeds
    Points <- NftPoints
    Base <- TwoBase
    Exact <- TwoExact
    Bm25 <- TwoBm25
    BatchCapacity = 2
    ChannelCapacity = 1
    NetworkQueueCapacity = 2
    NetworkLimit = 2
    AnalysisQueueCapacity = 2
    CompressionConcurrency = 1
    WriterThreads = 1
    Sizes = {1, 2}
    WriterQueueBytes = 2
    MayFail = TRUE
SPECIFICATION FairSpec
INVARIANTS TypeOK NoStateError EvidenceCoversFrozen FrozenNeverLost DoneIsComplete StagesBounded
PROPERTIES AnalysedOnce Terminates
