CONSTANTS
    Rules = {"worker_dead", "crash_loop", "model_stalled", "timeout_rate"}
    For <- MCFor
    RepeatTicks <- MCRepeatTicks
    None = None
    Epoch = 2
    MaxTime = 5
    MaxGap = 1
    MaxRestarts = 2
    Window = 1
    MaxLen = 2
    StalledMin = 2
    TimeoutMin = 2
    RatePercent = 50
    MaxEvents = 3
SPECIFICATION SystemSpec
CHECK_DEADLOCK FALSE
INVARIANTS
    SystemTypeOK
    DeadEngineAnnounced
    OkPingMeansAlive
    HungIsSeen
    MetricAlertsAreRecent
    CrashLoopIsReal
PROPERTIES
    ImplementsWatchdog
