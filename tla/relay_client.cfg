SPECIFICATION Spec
CONSTANTS
    Users <- ThreeRequests
    Peers = {"A", "B"}
    Trusted = {"A"}
    Overlap = FALSE
    MaxInvitations = 0
    MayCancel = TRUE
    MayBreak = FALSE
    MayClose = TRUE
INVARIANTS AssertionsHold EntriesAreLive
CHECK_DEADLOCK FALSE
