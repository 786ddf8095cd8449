SPECIFICATION BuffersSpec
CONSTANTS
    WindowSize = 3
    SoftTimeout = 1
    HardTimeout = 2
    MaxSequence = 5
    MaxDropped = 1
    Capacity = 3
    MaxOffers = 6
INVARIANTS TypeOK InOrder Accounted QueueTypeOK Conserved SentInOfferOrder
PROPERTIES HeldFramesAreDelivered TimedGapEnds UrgentNeverDisplaced
CHECK_DEADLOCK FALSE
