SPECIFICATION Spec
CONSTANTS
    Prefix = {"P", "C"}
    MaxId = 2
    Text = {"a", "b"}
    MaxCalls = 4
    Editors = {}
    NotLoaded = NotLoaded
    InitialDocs <- OneBelowTheOther
    InitialItems <- OneLink
    Uses = {"tool_create", "tool_list", "delete_document"}
PROPERTIES
    DeletedDocumentStaysDeleted
CHECK_DEADLOCK FALSE
