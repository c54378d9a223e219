\* Three hinted candidates compete for two plans and two network slots.
CONSTANTS
    Candidates <- HintedCandidates
    Seeds <- HintSeeds
    Points <- HintPoints
    Base <- HintBase
    Exact <- HintExact
    Bm25 <- HintBm25
    NetworkQueueCapacity = 2
    NetworkLimit = 2
SPECIFICATION PrefetchSpec
INVARIANTS CountersMatchEntries QueuedIsReachable PrefetchBounded FetchesMatchActive CompleteCoversHints
