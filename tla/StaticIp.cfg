SPECIFICATION AddrSpec
CONSTANTS
    Layouts <- MCLayouts
    MaxPrepares = 1
CHECK_DEADLOCK FALSE
INVARIANT StaticIpValidated
