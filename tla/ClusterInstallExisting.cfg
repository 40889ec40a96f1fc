SPECIFICATION LiveSpec
CONSTANTS
    Hosts = {h1, h2}
    Builtin = {console}
    Olm = {odf}
    MaxFallbacks = 2
    NodesCount = 2
    Retries = 1
    FallOnPending = FALSE
    TestTeardown = TRUE
    Existing = TRUE
    CanTimeOut = TRUE
    MaxFaults = 2
CHECK_DEADLOCK FALSE
PROPERTY TestEnds
