\* Two publishers redeem for one ad that has a daily cap, the clock moving, each
\* request to its end.
SPECIFICATION FairSpec
CONSTANTS
    p1 = p1  p2 = p2  d1 = d1  d2 = d2  v1 = v1  a1 = a1  a2 = a2  big = big
    ShareBps = 5000  MinBidCpm = 1000  GspIncrement = 10  Skew = 1
    MaxPerSurface = 9  MaxPerPublisher = 9
    SoftPerSurface = 9  SoftPerPublisher = 9  SivtThreshold = 9
    Publishers = {p1, p2}  Devices = {d1, d2}  Surfaces = {big}
    Advertisers = {v1}  Ads = {a1}
    Owner <- OwnerApart  AdvertiserOf <- OneAdvertiser
    MaxCpm <- FloorCpm  Budget <- AmpleBudget  DailyCap <- DayCaps
    NoCap = NoCap  None = None
    Tokens = {t1, t2}  Workers = {w1, w2}
    MinDwell = 2  JitterMax = 0  TokenTtl = 2
    Hour = 1  Day = 1  SivtWindow = 2
    FraudIncrement = 1
    Claims = {3}  Amounts = {9}  MaxMoved = 9  MaxClock = 2
INVARIANTS
    DailyCapHolds
PROPERTY RequestsEnd
