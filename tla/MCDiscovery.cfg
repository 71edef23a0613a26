SPECIFICATION FairSpec
CONSTANTS
    b1 = b1
    b2 = b2
    a1 = a1
    a2 = a2
    Ids = {s1}
    Addresses = {a1, a2}
    Backends = {b1, b2}
    BackendOf <- MCBackendOf
    Sites <- MCSites
    Clients = {c1, c2}
CHECK_DEADLOCK FALSE
INVARIANT SessionAgrees
 
PROPERTY FilterSparesOthers
PROPERTY SessionsEnd
PROPERTY RegistrySpec
