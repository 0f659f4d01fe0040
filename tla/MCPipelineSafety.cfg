CONSTANTS
    Images = {i1, i2}
    Modes = {m1, m2}
    NoMode = NoMode
    NoImage = NoImage
    Tasks = {t1, t2, t3, t4}
    NoTask = NoTask
    ControlCanFail = FALSE
    WriteCanFail = TRUE
SPECIFICATION Spec
INVARIANTS TypeOK HandoverTokens TaskOwnership PendingIsAnnounced SyncIsComing StreamShowsFrame RecoveryPending
PROPERTIES FlowSafe
SYMMETRY Sym
