SPECIFICATION Spec
CONSTANTS
    Daemons = {u1, u2}
    Downs = {d1}
    Profiles = {p1}
    Protected = {p1}
    Guarded = {p1}
    Nobody = Nobody
    MaxEvents = 1
SYMMETRY Symmetry
CHECK_DEADLOCK FALSE
INVARIANTS
    NewestIsKnown
    DownStopsTheDaemon
