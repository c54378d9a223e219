\* Two artifacts, two final reports, three attempts and three processes; the last
\* process may be the one that stays down.
CONSTANTS
    Artifacts <- TwoArtifacts
    Reports <- TwoReports
    Attempts = 3
    MaxRuns = 3
SPECIFICATION Spec
INVARIANTS SuccessMeansAll DoneIsDurable OneRunPerDirectory NothingLeftStaged
CHECK_DEADLOCK FALSE
