SPECIFICATION Spec
CONSTANTS
    Kinds = {"connection", "connector", "credential"}
    Names = {n1, n2}
    Bodies = {b1, b2}
    Secrets = {s1, s2}
    MaxVersion = 3
    None = None
    Blank = Blank
    Gone = Gone
SYMMETRY Symmetry
INVARIANT VersionNamesSecret
PROPERTIES ManagedSecretKept
