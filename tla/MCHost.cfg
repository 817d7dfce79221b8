SPECIFICATION HostSpec
CONSTANTS
    wg = wg
    n1 = n1
    n6 = n6
    srv = srv
    sub = sub
    Daemons = {u1}
    Downs = {d1}
    Profiles = {p1, p2}
    Protected = {p1, p2}
    Guarded = {p1}
    Nobody = Nobody
    MaxEvents = 1
    WireGuards = {wg}
    Callers = {c1}
    Loop = Loop
    Objects = {s1, s2}
    NoObject = NoObject
    Domains <- MCDomains
    Answers <- MCAnswers
    V6 = {n6}
    Endpoint = srv
    Essential <- MCEssential
    Conf <- MCConf
    Bounds <- MCBounds
SYMMETRY Symmetry
CHECK_DEADLOCK FALSE
INVARIANTS
    ExitCleansUp
    RoutesGoWithProfile
    NothingForgotten
