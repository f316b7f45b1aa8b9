SPECIFICATION Spec
CONSTANTS
    Calls <- ThreeOpens
    MaxWrites <- TwoAndBack
    Closers = {}
    ClosableCalls = {}
    Breakable = {}
INVARIANTS IdsUnique OpenMeansAccepted BrokerNeverPanics StreamIntact
PROPERTIES RegisteredLosesNothing
CHECK_DEADLOCK FALSE
