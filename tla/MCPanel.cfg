SPECIFICATION Spec
CONSTANTS
    Keys = {k1, k2}
    NoKey = NoKey
    Addrs = {a1}
    NoAddr = NoAddr
    Hosts = {h1, h2}
    NoHost = NoHost
    Lease = 4
    RetryDelay = 1
SYMMETRY Symmetry
 
INVARIANT LeasesFollow
