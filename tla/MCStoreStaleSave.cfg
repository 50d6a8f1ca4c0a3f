SPECIFICATION Spec
CONSTANTS
    Prefix = {"P", "C"}
    MaxId = 2
    Text = {"a", "b", "c"}
    MaxCalls = 4
    Editors = {1}
    NotLoaded = NotLoaded
    InitialDocs <- OneBelowTheOther
    InitialItems <- OneLink
    Uses = {"tool_update", "edit"}
PROPERTIES
    StatementRaisesRevision
CHECK_DEADLOCK FALSE
