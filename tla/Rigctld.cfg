SPECIFICATION Spec
CONSTANTS
    Pids = {1, 2}
    Modes = {"CW"}
    NumCommands = 2
    RespawnInitial = 1
    RespawnMax = 1
    InfoTimeout = 1
    MaxFaults = 2
INVARIANTS
    NoOrphans
    InStep
PROPERTIES
    Restored
    
