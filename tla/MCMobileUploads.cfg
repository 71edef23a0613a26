CONSTANTS
    Uploads = {u1, u2}
    NoUpload = NoUpload
    u1 = u1
    u2 = u2
    Pages <- TwoAndOne
    PageBuffer = 1
    QueueBound = 1
    Attempts = 1
SPECIFICATION FairSpec
INVARIANT HeardWhileListening
INVARIANT UploadsAgree
 
PROPERTY UploadsSettle
