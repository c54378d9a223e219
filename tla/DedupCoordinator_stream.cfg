\* Two owner shards with two seed batches each, a window of two batches and
\* messages of one candidate through a channel of one message.
CONSTANTS
    Candidates <- ThreeCandidates
    Seeds <- TwoSeeds
    Points <- NftPoints
    Base <- SomeBase
    Exact <- SomeExact
    Bm25 <- SomeBm25
    ShardCount = 2
    NoShard = 0
    Owner <- SomeOwners
    BatchCount = 2
    ExactOf <- SomeExactOf
    Bm25Of <- SomeBm25Of
    Workers = 2
    Window = 2
    BatchCapacity = 1
    ChannelCapacity = 1
SPECIFICATION FairSpec
INVARIANTS NoStateError IncompleteMarked WindowBounded
PROPERTIES ImplementsStream DedupEnds
