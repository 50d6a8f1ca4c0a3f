SPECIFICATION Spec
CONSTANTS
    Prefix = {"P", "C"}
    MaxId = 3
    Text = {"a", "b"}
    MaxCalls = 4
    Editors = {1}
    NotLoaded = NotLoaded
    InitialDocs <- OneBelowTheOther
    InitialItems <- OneLink
    Uses = {"new", "edit", "move"}
INVARIANTS
    RequirementKept
CHECK_DEADLOCK FALSE
