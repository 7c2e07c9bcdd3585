\* Two requests at once, two changes of an account in one second or two, while the
\* payout job goes on running.
SPECIFICATION FairSpec
CONSTANTS
    Accounts = {a1, a2}  Requests = {r1, r2}  None = None
    MaxChanges = 2  MaxClock = 1
INVARIANTS
    TypeOK OneAccount FlagFollowsEvents
PROPERTY RevocationIsSeen
