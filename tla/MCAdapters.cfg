SPECIFICATION ContractSpec
CONSTANTS
    p1 = p1
    Nothing = Nothing
    Profiles = {p1}
    AdapterKinds = {"openvpn", "ciscoanyconnect", "protonvpn", "globalprotect", "cloudflarewarp", "tailscale", "wireguard", "forticlient"}
    Platforms = {"linux", "darwin", "windows"}
INVARIANTS LiveStatusIsTrue WireGuardReconciles ConnectingIsTransient ConnectedIsHeld
