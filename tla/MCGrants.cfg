SPECIFICATION Spec
CONSTANTS
    Addresses = {a1, a2}
    Ids = {g1, g2, g3}
    Keys = {k1, k2}
    OurKeys = {k1}
    Tag = Tag
    None = None
    Gone = Gone
SYMMETRY Symmetry
INVARIANTS NoSharedGrant NoSilentGrant
PROPERTIES AdoptsItsOwn ForgetsOnlyTheRevoked
