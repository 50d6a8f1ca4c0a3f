SPECIFICATION Spec
CONSTANTS
    Program = {"first", "second"}
    Project = {"alpha", "beta"}
    WithDocuments = {"alpha", "beta"}
    MaxChats = 3
    MaxEntries = 2
    MaxCleanUps = 1
    MaxActs = 6
    Faults = {}
    None = None
PROPERTIES
    StoredIsKept
CHECK_DEADLOCK FALSE
