SPECIFICATION FairSpec
CONSTANTS
    p1 = p1
    r1 = r1
    Profiles = {p1}
    AdapterKinds = {"wireguard", "tailscale"}
    Platforms = {"linux"}
    Requests = {r1}
    NoProfile = NoProfile
    Priority <- MCPriority
    MaxRequests = 0
    MaxChanges = 0
CHECK_DEADLOCK FALSE
PROPERTIES DropIsRetried StopReturns
