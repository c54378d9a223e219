\* One worker and one queue slot, so two permits for four submitters.
CONSTANTS
    Tasks <- FourTasks
    Async <- TwoAsync
    Kind <- MixedKinds
    Lanes <- OneLane
    LaneWorkers <- OneLaneWorkers
    Workers = 1
    QueueCapacity = 1
SPECIFICATION FairSpec
INVARIANTS NeverPanics NoLostWakeup
PROPERTIES SubmittedTasksFinish
