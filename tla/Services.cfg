SPECIFICATION ServicesSpec
CONSTANTS
    KubeNodes = {"n1", "n2"}
    MaxKubeFaults = 1
    HostedAgentNames = {a1, a2}
    Counts <- MCCounts
    MaxAgentWrites = 3
    EnvKeys = {"requirements", "upgrade_agent"}
    RequirementsKey = "requirements"
    PolicyKey = "log_level"
    EnvValues = {"dflt"}
    DefaultOf <- MCDefaultOf
    MaxCmChanges = 2
    Day1Nodes = {d1, d2}
    Day2Hosts = {h1, h2}
    MaxDay1Changes = 1
    UserEnvs <- MCUserEnvs
    Parameters <- MCParameters
    LogClusters <- MCLogClusters
    LogRetries = 3
    MaxEvents = 2
    Layouts <- MCLayouts
    MaxPrepares = 2
    PrepConfigs <- MCPrepConfigs
CHECK_DEADLOCK FALSE
INVARIANTS ServicesTypeOK GoesOnWithReason KubeLeftIsExplained TriggersAreIdempotent AddressingIsSound
PROPERTIES UnbindKeepsUpdates SkippedIsComplete
