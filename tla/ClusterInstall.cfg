SPECIFICATION Spec
CONSTANTS
    Hosts = {h1, h2, h3}
    Builtin = {console}
    Olm = {odf, cnv}
    MaxFallbacks = 2
    NodesCount = 2
    Retries = 1
    FallOnPending = TRUE
    TestTeardown = TRUE
    Existing = FALSE
    CanTimeOut = TRUE
    MaxFaults = 2
SYMMETRY SymmetricHosts
CHECK_DEADLOCK FALSE
INVARIANTS InstallTypeOK IsInstalledIsTrue PassedIsComplete RetriesAreDue
           NoOrphanInfraEnv NothingLeft
