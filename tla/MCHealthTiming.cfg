SPECIFICATION TimedFairSpec
CONSTANTS
    Backends = {b1, b2}
    Watched = {b1}
    CONNECT_TIMEOUT = 1
    RESPONSE_TIMEOUT = 1
    HEALTH_CHECK_INTERVAL = 4
    MaxHeld = 1
    FailureCap = 2
    MaxStale = 1
INVARIANTS
    HealthyBelowThreshold
    RoundsDoNotOverlap
    SteadyBackendStaysHealthy
    OutageBounded
    ReturnBounded
PROPERTIES
    ChangesDetected
