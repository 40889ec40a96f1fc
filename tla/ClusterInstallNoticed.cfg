SPECIFICATION LiveSpec
CONSTANTS
    Hosts = {h1, h2}
    Builtin = {console}
    Olm = {odf}
    MaxFallbacks = 2
    NodesCount = 2
    Retries = 1
    FallOnPending = TRUE
    TestTeardown = TRUE
    Existing = FALSE
    CanTimeOut = FALSE
    MaxFaults = 0
CHECK_DEADLOCK FALSE
PROPERTY InstalledIsNoticed
