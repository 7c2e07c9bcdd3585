\* Two shells and three tokens, half seconds, one tick killed.
SPECIFICATION Spec
CONSTANTS
    ShareBps = 5000  MinBidCpm = 1000  GspIncrement = 10  Skew = 2
    MaxPerSurface = 2  MaxPerPublisher = 2
    SoftPerSurface = 1  SoftPerPublisher = 1  SivtThreshold = 1
    Tokens = {t1, t2, t3}  Ticks = {k1, k2}  None = None
    PerSecond = 2  MinDwell = 1  MaxAge = 1  Ttl = 2
    Attempts = 2  MaxClock = 5  MaxCrashes = 1
INVARIANTS
    TypeOK NeverTooEarly CreativeIsOfSession
PROPERTY
    RotatesOnlySettled
SYMMETRY Symmetric
