SPECIFICATION Spec
CONSTANTS
    d = d
    c = c
    e = e
    q = q
    r = r
    NoFile = NoFile
    Invalid = Invalid
    NoToken = NoToken
    Unset = Unset
    Unlocked = Unlocked
    Missing = Missing
    Closed = Closed
    Daemon = d
    Procs = {d, c, e}
    Writers = {d, c}
    Commands = {c, e}
    Requests = {q, r}
    Typed = {"Work", "home"}
    NameOf <- MCNameOf
    PolicyNames = {"intranet", "saas"}
    Types = {"openvpn"}
    Features = {"kill_switch"}
    Files <- MCFiles
    MaxEntries = 3
    MaxTries = 2
    LastDay = 2
    MaxEvents = 2
CHECK_DEADLOCK FALSE
INVARIANTS OneToken RequestsKeepEdits ConfirmedIsKept FollowedInOrder SavedLoads ReviewShowsAll
