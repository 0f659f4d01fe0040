CONSTANTS
    Images = {i1, i2}
    Modes = {m1}
    NoMode = NoMode
    NoImage = NoImage
    Tasks = {t1, t2, t3, t4}
    NoTask = NoTask
    ControlCanFail = TRUE
    WriteCanFail = FALSE
SPECIFICATION FirstFitSpec
PROPERTIES CallReturns FlowSpec
