SPECIFICATION LinkSpec
CONSTANTS
    Nodes = {n1, n2}
    Tags = {t1}
    NoTag = NoTag
    MaxCalls = 3
SYMMETRY Perms
INVARIANTS LinkTypeOK InSync OkMeansExecuted OnlyFreshAnswers TagIsConnected
PROPERTIES OneSyncLostInARow
CHECK_DEADLOCK FALSE
