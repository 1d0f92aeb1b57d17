SPECIFICATION SerialSpec
CONSTANTS
    Want = 3
    Lens = {1, 3}
    MaxTry = 3
    MaxBytes = 4
    MaxReadErrors = 2
    MaxFds = 2
INVARIANTS SerialTypeOK ReadInOrder
PROPERTIES FullReportSendsAll CallsReturn
CHECK_DEADLOCK FALSE
