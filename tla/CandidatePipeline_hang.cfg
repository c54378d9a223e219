\* Fewer network slots than plans, and dedup may fail.
CONSTANTS
    Candidates <- TwoCandidates
    Seeds <- TwoSeeds
    Points <- NftPoints
    Base <- TwoBase
    Exact <- TwoExact
    Bm25 <- TwoBm25
    BatchCapacity = 2
    ChannelCapacity = 1
    NetworkQueueCapacity = 2
    NetworkLimit = 1
    AnalysisQueueCapacity = 2
    CompressionConcurrency = 1
    WriterThreads = 1
    Sizes = {1, 2}
    WriterQueueBytes = 2
    MayFail = TRUE
SPECIFICATION FairSpec
PROPERTIES Terminates
