\* Three callers share one permit and a bucket of two tokens, one per two ticks.
CONSTANTS
    Requests <- ThreeRequests
    Identity <- SomeIdentity
    File <- SomeFile
    Cacheable = {1, 2, 3}
    Retries = 1
    Concurrency = 1
    Burst = 2
    Refill = 2
    Initial = 1
    Delays = {1, 3}
SPECIFICATION FairSpec
INVARIANTS PausesKept NoBurstAfterPause AnswersAreOwn
PROPERTIES EveryRequestEnds
