CONSTANTS
    Setters = {s1, s2}
    Waiters = {w1, w2, w3}
    TimedWaiters = {w3}
    Nobody = Nobody
SPECIFICATION FairEventSpec
INVARIANTS EventTypeOK NoLostWakeup
PROPERTY FlagSpec
