SPECIFICATION FairSpec
CONSTANTS
    Testers = {t1, t2}
    t1 = t1
    t2 = t2
    None = None
    Sources = {1, 2}
    MaxFrames = 3
    MaxWrites = 1
INVARIANTS TypeOK ConnectionsCounted AliveNamesLatestGrant
PROPERTY TestersServed
