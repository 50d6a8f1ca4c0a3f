SPECIFICATION Spec
CONSTANTS
    Prefix = {"P", "C"}
    MaxId = 3
    Text = {"a", "b"}
    MaxCalls = 4
    Editors = {}
    NotLoaded = NotLoaded
    InitialDocs <- OneBelowTheOther
    InitialItems <- TwoLinks
    Uses = {"clone", "copy", "move", "delete", "create_document", "delete_document"}
INVARIANTS
    LinksResolve
    DocRevisionCounts
    RequirementKept
CHECK_DEADLOCK FALSE
