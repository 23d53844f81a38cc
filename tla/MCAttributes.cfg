SPECIFICATION FairSpec
CONSTANTS
    Words = {"x", "y"}
    Default = "x"
    None = None
    Kinds <- AllKinds
INVARIANT StateIsTrue
PROPERTIES AppliedAsPlanned UnmanagedUntouched Settles
