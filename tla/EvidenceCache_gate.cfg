\* Two runs: who is left out of full enrichment?
CONSTANTS
    Contracts <- TwoContracts
    Seeds <- TwoSeeds
    Registries <- TwoRegistries
    Legit <- SomeLegit
    Limits = {1, 2}
    BatchSize = 2
    Outcomes <- NoFailures
    MaxDay = 2
    MaxRuns = 2
SPECIFICATION Spec
INVARIANTS ExcludedOnlyWhenLegit
CHECK_DEADLOCK FALSE
