\* Two publishers, one advertiser with one ad or two, money short.
SPECIFICATION Spec
CONSTANTS
    p1 = p1  p2 = p2  d1 = d1  d2 = d2  v1 = v1  a1 = a1  a2 = a2  big = big
    ShareBps = 5000  MinBidCpm = 1000  GspIncrement = 10  Skew = 1
    MaxPerSurface = 9  MaxPerPublisher = 9
    SoftPerSurface = 9  SoftPerPublisher = 1  SivtThreshold = 9
    Publishers = {p1, p2}  Devices = {d1, d2}  Surfaces = {big}
    Advertisers = {v1}  Ads = {a1, a2}
    Owner <- OwnerApart  AdvertiserOf <- OneAdvertiser
    MaxCpm <- MoneyCpm  Budget <- MoneyBudget  DailyCap <- NoCaps
    NoCap = NoCap  None = None
    Tokens = {t1, t2, t3}  Workers = {w1, w2}
    MinDwell = 1  JitterMax = 0  TokenTtl = 0
    Hour = 1  Day = 2  SivtWindow = 2
    FraudIncrement = 1
    Claims = {1}  Amounts = {3}  MaxMoved = 3  MaxClock = 0
INVARIANTS
    TypeOK ChecksStayTrue BudgetNeverExceeded SumsMatchRows DepletedWhenSpent
SYMMETRY SymmetricTokens
PROPERTY
    ImplementsBilling NothingBilledOnDepleted
