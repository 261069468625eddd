SPECIFICATION ClientFairSpec
CONSTANTS
    None = None
    DefaultInterval = 2
    LearnedIntervals <- MCLearned
    MaxInterval = 3
INVARIANTS
    OneLoop
PROPERTIES
    PollsOn
