\* Three runs over two days: are the prices and relations of a completed run current?
CONSTANTS
    Contracts <- TwoContracts
    Seeds <- TwoSeeds
    Registries <- TwoRegistries
    Legit <- SomeLegit
    Limits = {1, 2}
    BatchSize = 2
    Outcomes <- NoFailures
    MaxDay = 2
    MaxRuns = 3
SPECIFICATION Spec
INVARIANTS RefreshedWhenStale
CHECK_DEADLOCK FALSE
