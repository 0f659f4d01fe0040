CONSTANTS
    Cards = {c1, c2}
    Usbs = {u1, u2}
    Programs = {p1, p2}
    None = None
    MaxPlugs = 2
SPECIFICATION FairSpec
INVARIANTS TableConsistent ConnectionIsOpen
PROPERTIES DisplayIsFollowed
