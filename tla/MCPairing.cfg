SPECIFICATION FairSpec
CONSTANTS
    Runs = {r1, r2}
    Unpairers = {u1}
    Steps = {"installing"}
    ProgressBuffer = 1
    NoRun = NoRun
INVARIANT DriverIsKnown
INVARIANT LastWordIsState
 
PROPERTY PairingSettles
