\* As many concurrent tasks as stale samples: two samples a version, three
\* allowed.
CONSTANTS
    EpochLength = 5
    TotalEpochs = 1
    TotalRolloutSteps = 5
    RequiredSamples = 1
    TriggerStep = 2
    MaxRequiredSamples = 3
    MaxConcurrentSamples = 3
    PendingSize = 1
    TestFreq = 2
    SaveFreq = 1
    MaxFaults = 0
SPECIFICATION Spec
CHECK_DEADLOCK FALSE
INVARIANTS NeverBothWait
