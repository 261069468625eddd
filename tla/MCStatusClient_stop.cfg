SPECIFICATION VisibleSpec
CONSTANTS
    None = None
    DefaultInterval = 2
    LearnedIntervals <- MCLearned
    MaxInterval = 3
PROPERTIES
    StopStops
