\* Two lanes share four permits; every kind of task waits somewhere.
CONSTANTS
    Tasks <- FourTasks
    Async <- OneAsync
    Kind <- EveryKind
    Lanes <- TwoLanes
    LaneWorkers <- TwoLaneWorkers
    Workers = 2
    QueueCapacity = 2
SPECIFICATION Spec
INVARIANTS WorkersBounded WorkConserving
PROPERTIES WaitingKindGetsNearer
