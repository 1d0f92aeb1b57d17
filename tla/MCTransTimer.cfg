SPECIFICATION TimerFairSpec
CONSTANTS
    MaxInt = 5
    Timeout = 3
INVARIANTS TimerTypeOK FreeOnTime
PROPERTIES EveryWaitCanEnd KillReturnsOnceRunning
