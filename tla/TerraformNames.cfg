SPECIFICATION Spec
CONSTANTS
    NoOne = NoOne
    Sessions = {s1, s2}
    SkipList = {minikube}
    Contains <- PrefixNames
    Local = {s1, s2, minikube}
    Attempts = 2
    MaxFaults = 2
CHECK_DEADLOCK FALSE
INVARIANT ReadyNodesStay
