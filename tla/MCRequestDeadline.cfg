SPECIFICATION FairSpec
CONSTANTS
    Pages = 2
    MaxRetry = 5
    Durations <- MCDurations
    WriteTimeout = 120
PROPERTY PersistentServed
