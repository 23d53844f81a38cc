SPECIFICATION Spec
CONSTANTS
    Ids = {i1, i2, i3}
    Key = Key
    Values = {v1, v2, Bare}
    Bare = Bare
    None = None
    Kinds <- AllKinds
SYMMETRY Symmetry
INVARIANTS TypeOK NoSilentOrphan
PROPERTY ForgetsOnlyTheGone
