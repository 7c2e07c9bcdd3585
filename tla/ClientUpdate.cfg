\* Two self-updates at once, a prompt, two commits to follow, one thing killed, an
\* interval of two slots and a notice of two prompts.
SPECIFICATION FairSpec
CONSTANTS
    Updaters = {s1, s2}  Renders = {r1}
    Interval = 2  NoticeRenders = 2  LastCommit = 2  MaxFaults = 1
    None = None
INVARIANT TypeOK
PROPERTIES
    CatchesUp NeverBackwards FailingUpdateCannotSpin
