CONSTANTS
    Modes = {m1, m2}
    NoMode = NoMode
    Tiles = {t1, t2}
    EventSpace = 1
    MaxEvents = 1
    Width = 2
    Height = 2
    MaxDirts = 3
SPECIFICATION FairSpec
INVARIANTS PainterConsistent DamageIsTracked BuffersFollowMode RectsKeepDamage
PROPERTIES FrameReachesClient
