SPECIFICATION Spec
CONSTANTS
    p1 = p1
    p2 = p2
    s1 = s1
    s2 = s2
    home = home
    cafe = cafe
    NoFile = NoFile
    Profiles = {p1, p2}
    Servers = {s1, s2}
    Foreign <- MCForeign
    Faults = {"io", "crash", "foreign"}
INVARIANTS GuardHasBackup OneApplyLosesNothing ActiveServersInForce
