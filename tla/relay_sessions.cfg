SPECIFICATION FairSpec
CONSTANTS
    Devices = {"A", "B"}
    Conns = {"a", "b"}
    Joins = {"j1", "j2"}
    Owner <- TwoConns
    Requesters = {"a"}
    Strays = {}
    MaxAsks <- TwiceByA
    MaxSessions = 2
    Leavers = {"j1"}
    MayExpire = TRUE
    MayClose = TRUE
    MayMix = FALSE
INVARIANTS SessionKeepsItsEntry KeyAdmitsOnce RelayOnlyAccepted
PROPERTIES AnswerArrives BrokenSessionEnds CloseDisconnects
CHECK_DEADLOCK FALSE
