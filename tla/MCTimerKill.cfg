SPECIFICATION TimerFairSpec
CONSTANTS
    MaxInt = 5
    Timeout = 3

PROPERTY KillReturns
