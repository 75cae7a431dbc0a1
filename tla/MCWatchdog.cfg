CONSTANTS
    Rules = {"server_unreachable", "worker_dead", "timeout_rate", "restart_detected"}
    For <- MCFor
    RepeatTicks <- MCRepeatTicks
    None = None
    Epoch = 3
    MaxTime = 7
    MaxGap = 2
    MaxRestarts = 1
SPECIFICATION Spec
CHECK_DEADLOCK FALSE
INVARIANTS
    TypeOK
    FireIsSustained
    RepeatsAreSpaced
    NoMissedAlert
    DeadmanAlwaysRuns
    NoRestartInvented
PROPERTIES
    ResolvesMatchFires
