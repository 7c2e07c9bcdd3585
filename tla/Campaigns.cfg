\* Three submissions by two users, one moderation page, one begin request.
SPECIFICATION Spec
CONSTANTS
    ShareBps = 5000  MinBidCpm = 1000  GspIncrement = 10  Skew = 1
    MaxPerSurface = 2  MaxPerPublisher = 2
    SoftPerSurface = 1  SoftPerPublisher = 1  SivtThreshold = 1
    u1 = u1  u2 = u2  f1 = f1  f2 = f2  f3 = f3
    Users = {u1, u2}  Forms = {f1, f2, f3}
    UserOf <- Owners  MaxCpm <- Bids  Budget <- Tops
    Moderators = {m1}  None = None
    Begins = {b1}
INVARIANTS
    TypeOK BidsAreFundable SoldWasReviewedAndPaid
SYMMETRY SameUser
