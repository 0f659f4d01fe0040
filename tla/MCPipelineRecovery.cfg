CONSTANTS
    Images = {i1}
    Modes = {m1}
    NoMode = NoMode
    NoImage = NoImage
    Tasks = {t1, t2, t3, t4}
    NoTask = NoTask
    ControlCanFail = FALSE
    WriteCanFail = TRUE
SPECIFICATION FirstFitSpec
PROPERTIES DisplayCatchesUp
