\* Two ticks, a command, two requests at the server, one process killed or one timeout.
SPECIFICATION FairSpec
CONSTANTS
    Ticks = {t1, t2}  Commands = {c1}  Handlers = {h1, h2}
    Limit = 1  Window = 1  MaxFaults = 1
    None = None  Corrupt = Corrupt
INVARIANTS
    TypeOK AnswersStayTrue IdentityCanSign
PROPERTY GetsRegistered
