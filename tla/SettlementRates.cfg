\* Two devices of one publisher, money to spare, the clock moving.
SPECIFICATION Spec
CONSTANTS
    p1 = p1  p2 = p2  d1 = d1  d2 = d2  v1 = v1  a1 = a1  a2 = a2  big = big
    ShareBps = 5000  MinBidCpm = 1000  GspIncrement = 10  Skew = 1
    MaxPerSurface = 2  MaxPerPublisher = 2
    SoftPerSurface = 1  SoftPerPublisher = 1  SivtThreshold = 1
    Publishers = {p1}  Devices = {d1, d2}  Surfaces = {big}
    Advertisers = {v1}  Ads = {a1}
    Owner <- OwnerShared  AdvertiserOf <- OneAdvertiser
    MaxCpm <- FloorCpm  Budget <- AmpleBudget  DailyCap <- NoCaps
    NoCap = NoCap  None = None
    Tokens = {t1, t2, t3}  Workers = {w1, w2}
    MinDwell = 2  JitterMax = 0  TokenTtl = 1
    Hour = 1  Day = 2  SivtWindow = 2
    FraudIncrement = 1
    Claims = {2}  Amounts = {9}  MaxMoved = 9  MaxClock = 3
INVARIANTS
    CeilingHolds BilledWithinSoftBand DwellIsReal
PROPERTY
    FlaggedPublisherIsHeld
SYMMETRY SymmetricTokens
