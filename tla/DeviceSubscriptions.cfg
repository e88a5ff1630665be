CONSTANTS
    Clients = {k1, k2}
    Ids = {i1, i2}
    SizeLimit = 1
    MaxSubscriptions = 2
SYMMETRY Symmetry
SPECIFICATION Spec
INVARIANTS TypeOK TreeMirrorsRegistry SubscribedAsAsked
PROPERTIES ToldAsAsked
