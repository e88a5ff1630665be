CONSTANTS
    Clients = {k1, k2}
    Ids = {i1, i2}
    SizeLimit = 2
    MaxSubscriptions = 2
SYMMETRY Symmetry
SPECIFICATION Spec
INVARIANT PendingPathsDoNotExist
