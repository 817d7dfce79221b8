SPECIFICATION Spec
CONSTANTS
    Launches = {1, 2}
    MaxAnswers = 4
    Actions = {"reconnect"}
    Nobody = Nobody
    NoMetrics = NoMetrics
CHECK_DEADLOCK FALSE
INVARIANTS NoInvention HeldOrUnsent NoLostChange ViewerNeverDials
