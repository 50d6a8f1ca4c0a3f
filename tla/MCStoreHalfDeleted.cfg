SPECIFICATION Spec
CONSTANTS
    Prefix = {"P", "C"}
    MaxId = 2
    Text = {"a", "b"}
    MaxCalls = 4
    Editors = {}
    NotLoaded = NotLoaded
    InitialDocs <- OneBelowTheOther
    InitialItems <- TwoLinks
    Uses = {"reparent", "delete"}
INVARIANTS
    LinksResolve
CHECK_DEADLOCK FALSE
