SPECIFICATION Spec
CONSTANTS
    Prefix = {"P", "C"}
    MaxId = 2
    Text = {"a", "b"}
    MaxCalls = 4
    Editors = {}
    NotLoaded = NotLoaded
    InitialDocs <- OneBelowTheOther
    InitialItems <- OneLink
    Uses = {"tool_create", "tool_update", "tool_set_links", "tool_link", "tool_delete", "tool_list"}
INVARIANTS
    TypeOK
    TraceTruth
CHECK_DEADLOCK FALSE
