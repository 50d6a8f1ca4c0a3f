SPECIFICATION Spec
CONSTANTS
    Prefix = {"P", "C"}
    MaxId = 2
    Text = {"a", "b"}
    MaxCalls = 3
    Editors = {}
    NotLoaded = NotLoaded
    InitialDocs <- OneBelowTheOther
    InitialItems <- OneLink
    Uses = {"tool_create", "tool_update", "tool_link", "delete", "delete_document", "reparent"}
INVARIANTS
    RequirementKept
CHECK_DEADLOCK FALSE
