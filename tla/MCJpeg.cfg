SPECIFICATION Spec
CONSTANTS
    Qualities = {90, 95}
    BufBits = 32
    Mcus = 2
    Inputs <- MCInputs
INVARIANTS StreamDecodes SameOnBothBuilds PictureIsClose
CHECK_DEADLOCK FALSE
