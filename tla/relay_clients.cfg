SPECIFICATION Spec
CONSTANTS
    Devices = {"A", "B"}
    Conns = {"a", "a2", "b"}
    Joins = {}
    Owner <- Reconnecting
    Requesters = {"a", "a2"}
    Strays = {"a2"}
    MaxAsks <- TwoByB
    MaxSessions = 2
    Leavers = {"a"}
    MayExpire = FALSE
    MayClose = TRUE
    MayMix = TRUE
INVARIANTS HandledIsRegistered ServerNeverPanics AskedIsAnswered KeysReachTheirOwners AnnouncedOnce
CHECK_DEADLOCK FALSE
