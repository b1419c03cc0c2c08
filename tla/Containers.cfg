SPECIFICATION ContainersSpec
CONSTANTS
    c1 = c1
    c2 = c2
    sender = sender
    main = main
    Requests <- MCRequests
    NameOf <- MCNameOf
    LabelsOf <- MCLabelsOf
    ContainerIDs = {c1, c2}
    Plain = {c2}
    Keys = {k1, k2}
    NoKey = NoKey
    None = None
    Policies <- MCPolicies
    Visibilities = {"a", "b"}
    Off = "off"
    Default = "default"
    HostSetting = "host"
    MaxPolicies = 1
    MaxRestarts = 1
INVARIANTS  VisibilityKept PresetsInSync NothingForStopped 
     RulesInForce
CHECK_DEADLOCK FALSE
