\* One producer, and one consumer that keeps polling.
SPECIFICATION FairSpec
CONSTANTS
    Capacity = 4
    p1 = p1
    p2 = p2
    p3 = p3
    Payload <- MCPayload
    Nothing = Nothing
INVARIANTS
    NoSlotShared
PROPERTIES
    ImplementsFifo
    EventuallyDelivered
