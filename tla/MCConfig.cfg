SPECIFICATION Spec
CONSTANTS
    Width = 2
    NoMatch = NoMatch
    NoApp = NoApp
    Normal <- MCNormal
    Fold <- MCFold
    RulesWithVars <- MCRulesWithVars
    ModesWithVars <- MCModesWithVars
    Refused = Refused
    Operations <- MCOperations
    HandEdits <- MCHandEdits
    Initial <- MCInitial
    Requests = {r1, r2}
    Nobody = Nobody
    Secrets = {"s1", "s2"}
    Missing = Missing
    Hosts <- MCHosts
    Snapshots <- MCSnapshots
    Apps = {"git", "ssh"}
    MaxEvents = 3
SYMMETRY Symmetry
CHECK_DEADLOCK FALSE
INVARIANTS
    MemoryFollowsFile
    RunningIsValid
    CredentialsBacked
    RejectedLeavesNoTrace
    AnswersAgree
PROPERTIES
    Atomic
