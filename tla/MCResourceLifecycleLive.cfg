SPECIFICATION FairSpec
CONSTANTS
    Ids = {i1, i2}
    Key = Key
    Values = {v1, Bare}
    Bare = Bare
    None = None
    Kinds <- LiveKinds
PROPERTIES DestroyConverges 
