SPECIFICATION FairSpec
CONSTANTS
    Calls <- OneChannel
    MaxWrites <- TwoOneWay
    Closers = {"initiator", "responder"}
    ClosableCalls <- OneChannel
    Breakable = {"responder"}
INVARIANTS ReadsInOrder
PROPERTIES WaitedOpenIsEstablished RegisteredDelivers WaitersReleased
CHECK_DEADLOCK FALSE
