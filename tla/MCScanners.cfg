SPECIFICATION FairSpec
CONSTANTS
    Unpairers = {u1}
    Connectors = {c1}
    Failures = {f1}
    QueueBound = 2
INVARIANT ScannerAgrees
 
PROPERTY DoneIsHandled
