SPECIFICATION Spec
CONSTANTS
    Nodes = {n1}
    Tags = {h}
    NoTag = NoTag
    MaxCalls = 9
    Uids = {t1, t2}
    MaxBack = 2
    MaxErrors = 3
INVARIANTS InvLinkTypeOK AccessHitsTag
PROPERTY ImplementsInventory
SYMMETRY Perms
CHECK_DEADLOCK FALSE
