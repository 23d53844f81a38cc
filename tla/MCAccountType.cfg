SPECIFICATION Spec
CONSTANTS
    Ids = {i1, i2}
    Key = Key
    Values = {v1, Bare}
    Bare = Bare
    None = None
    Kinds <- ByName
PROPERTY AccountTypeTracked
