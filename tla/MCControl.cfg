SPECIFICATION Spec
CONSTANTS
    p1 = p1
    p2 = p2
    Profiles = {p1, p2}
    AdapterKinds = {"openvpn", "wireguard"}
    Platforms = {"linux"}
    Requests = {h1, h2, a1, a2, sched}
    Handlers = {h1, h2}
    Attempts = {a1, a2}
    Scheduler = sched
    NoProfile = NoProfile
    NoAttempt = NoAttempt
    Targets <- MCTargets
    Rules <- MCRules
    DayLength = 3
    Week = 2
    MaxEvents = 3
SYMMETRY Symmetry
CHECK_DEADLOCK FALSE
INVARIANTS
    PendingIsRunning
    ConnectsCanBeCancelled
    DisconnectSticks
    WindowIsAnInterval
