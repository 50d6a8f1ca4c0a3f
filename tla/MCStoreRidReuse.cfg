SPECIFICATION Spec
CONSTANTS
    Prefix = {"P", "C"}
    MaxId = 2
    Text = {"a", "b"}
    MaxCalls = 5
    Editors = {1}
    NotLoaded = NotLoaded
    InitialDocs <- OneBelowTheOther
    InitialItems <- OneLink
    Uses = {"delete", "clone", "edit", "new"}
INVARIANTS
    TraceTruth
CHECK_DEADLOCK FALSE
