SPECIFICATION Spec
CONSTANTS
    wg = wg
    ovpn = ovpn
    plain = plain
    r1 = r1
    r2 = r2
    Nobody = Nobody
    Profiles = {wg, ovpn}
    Protected = {wg, ovpn}
    Named = {wg}
    Requests = {r1, r2}
    Faults = {"iptables"}
    MaxRules = 3
INVARIANTS EnabledTellsTheTruth SteadyTunnelsCount NeverCutOff
