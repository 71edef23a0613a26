SPECIFICATION FairSpec
CONSTANTS
    this = this
    other = other
    Self = this
    Others <- MCOthers
    Uris <- MCUris
    NoUri = 0
    Capacity = 2
    MaxLate = 1
    MaxOwners = 2
    MaxPresses = 2
    EventBound = 1
    QueueBound = 1
INVARIANT FootprintIsKept
INVARIANT OfferIsServed
PROPERTY ForeignStay
PROPERTY PressesAreHeard
