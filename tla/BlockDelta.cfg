CONSTANTS
    Blocks = {b1, b2}
    Geometries = {{b1}, {b1, b2}}
    Pixels = {x, y}
    Tails = {t, u}
    Ragged = {b2}
    Garbage = Garbage
SPECIFICATION Spec
INVARIANTS TypeOK CompressedScreenIsKept CloneIsValid DisplayShowsFrame RestIsSilent
