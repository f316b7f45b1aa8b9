SPECIFICATION Spec
CONSTANTS
    Users <- TwoRequests
    Peers = {"A", "B"}
    Trusted = {"A"}
    Overlap = TRUE
    MaxInvitations = 0
    MayCancel = FALSE
    MayBreak = FALSE
    MayClose = FALSE
INVARIANT RequestExists
CHECK_DEADLOCK FALSE
