SPECIFICATION Spec
CONSTANTS
    Program = {"first"}
    Project = {"alpha", "beta"}
    WithDocuments = {"alpha", "beta"}
    MaxChats = 3
    MaxEntries = 2
    MaxCleanUps = 1
    MaxActs = 7
    Faults = {}
    None = None
PROPERTIES
    DeletedStaysDeleted
CHECK_DEADLOCK FALSE
