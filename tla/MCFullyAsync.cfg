\* Four samples a version and a staleness threshold of a quarter: one task is
\* as many as fit beside the samples of one version.  Two epochs of six
\* samples: the epoch changes in mid-version, and a restart can run out of data.
CONSTANTS
    EpochLength = 6
    TotalEpochs = 2
    TotalRolloutSteps = 12
    RequiredSamples = 2
    TriggerStep = 2
    MaxRequiredSamples = 5
    MaxConcurrentSamples = 1
    PendingSize = 1
    TestFreq = 2
    SaveFreq = 1
    MaxFaults = 1
SPECIFICATION Spec
CHECK_DEADLOCK FALSE
INVARIANTS TypeOK OutstandingBounded NeverBothWait EndSignalIsLast FedSamplesTrained
PROPERTIES TrainingFinishes
