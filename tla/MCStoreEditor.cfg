SPECIFICATION Spec
CONSTANTS
    Prefix = {"P", "C"}
    MaxId = 2
    Text = {"a", "b"}
    MaxCalls = 4
    Editors = {1}
    NotLoaded = NotLoaded
    InitialDocs <- OneBelowTheOther
    InitialItems <- OneLink
    Uses = {"edit", "new", "clone", "delete"}
PROPERTIES
    StatementRaisesRevision
CHECK_DEADLOCK FALSE
