SPECIFICATION LiveSpec
CONSTANTS
    Nodes = {1, 2, 3}
    MaxWorkers = 2
    MaxOps = 2
CHECK_DEADLOCK FALSE
INVARIANTS NodesTypeOK OperationTookEffect ResetStartsBlank
PROPERTIES QuietBetweenOperations OperationEnds
