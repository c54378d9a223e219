\* Three runs over two days with two registries, two limits and batches of two.
CONSTANTS
    Contracts <- TwoContracts
    Seeds <- TwoSeeds
    Registries <- TwoRegistries
    Legit <- SomeLegit
    Limits = {1, 2}
    BatchSize = 2
    Outcomes <- SomeFailures
    MaxDay = 2
    MaxRuns = 3
SPECIFICATION Spec
INVARIANTS MixesOnlyAfterFailedRemoval FinishedIsResumable RetriedWhenFailed
PROPERTIES KillLosesOneBatchUnlessCut
CHECK_DEADLOCK FALSE
