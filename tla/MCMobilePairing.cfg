SPECIFICATION FairPhone
CONSTANTS
    p1 = p1
    Phones <- MCPhones
    NoDevice = NoDevice
    MaxTokens = 3
    MaxStarts = 3
    RequireTls = FALSE
CHECK_DEADLOCK FALSE
INVARIANT PhoneAgrees
PROPERTY PairingEnds
