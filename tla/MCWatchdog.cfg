SPECIFICATION Spec
CONSTANTS
    p1 = p1
    p2 = p2
    r1 = r1
    Profiles = {p1, p2}
    AdapterKinds = {"wireguard"}
    Platforms = {"linux"}
    Requests = {r1}
    NoProfile = NoProfile
    Priority <- MCPriority
    MaxRequests = 2
    MaxChanges = 1
CHECK_DEADLOCK FALSE
INVARIANTS OneWatcher StoppedMeansNoWatcher AtMostOneOverrun
