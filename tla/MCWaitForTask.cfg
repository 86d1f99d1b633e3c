CONSTANTS
    MaxTimeout = 4
    Timeouts <- TimeoutsAsked
    Intervals <- IntervalsAsked
    MaxTime = 7
SPECIFICATION FairSpec
INVARIANTS
    TypeOK
    TimeoutNotEarly
    TimeoutSawRunning
    SuccessSound
    PollsBounded
PROPERTIES
    PollsSpaced
    Answered
CHECK_DEADLOCK FALSE
