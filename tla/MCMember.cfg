SPECIFICATION Spec
CONSTANTS
    None = None
    Gone = Gone
INVARIANT ScimRefused
PROPERTIES DocumentsFollowOptions ReactivatesOnlyAsPlanned
