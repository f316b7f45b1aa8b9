SPECIFICATION FairSpec
CONSTANTS
    Users <- RequestAndTwoAccepts
    Peers = {"A", "B"}
    Trusted = {"A"}
    Overlap = FALSE
    MaxInvitations = 2
    MayCancel = FALSE
    MayBreak = TRUE
    MayClose = FALSE
INVARIANTS ResultAssertionHolds ResultIsOwn
PROPERTIES SessionHandlerIsFreed LostConnectionReleases
CHECK_DEADLOCK FALSE
