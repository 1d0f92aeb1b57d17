SPECIFICATION Spec
CONSTANTS
    Procs = {p, q}
    NoProc = NoProc
    Sections = {"s1", "s2"}
    Keys = {"k0", "k1"}
    Calls <- MCCalls
    MaxWrites = 3
    MaxFaults = 1
    Values = {"u", "v"}
    Absent = Absent
    Damaged = Damaged
    Found = Found
    Formats = {"text"}
    Texts <- MCTexts
INVARIANTS IniTypeOK NoUpdateLost
PROPERTIES ImplementsStore ReadsFile
SYMMETRY Perms
