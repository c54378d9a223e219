\* Two slots per family, one permit per client and a gate of one token.
CONSTANTS
    Candidates <- ThreeCandidates
    Family <- SomeFamily
    Chain <- SomeChain
    Days <- SomeDays
    Slots = 2
    Concurrency = 1
    Retries = 1
    Span = 2
SPECIFICATION FairSpec
INVARIANTS GateBounded PricesFetchedOnce WindowsAreFewest
PROPERTIES EveryFetchReturns
