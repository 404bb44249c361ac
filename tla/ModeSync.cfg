SPECIFICATION Spec
CONSTANTS
    Modes = {0, 1}
    Configured = 0
    FreqPairs <- Simplex
    MaxFaults = 2
    QueueCap = 1
    ReportCap = 2
PROPERTIES
    ModeFollows
    
    NoRequestStorm
