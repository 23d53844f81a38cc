SPECIFICATION Spec
CONSTANTS
    Kinds = {"connector"}
    Names = {n1, n2}
    Bodies = {b1, b2}
    Secrets = {s1}
    MaxVersion = 1
    None = None
    Blank = Blank
    Gone = Gone
PROPERTIES MetadataUpdateKeepsSecrets
