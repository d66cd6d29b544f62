SPECIFICATION FairSpec
CONSTANTS
    NULL = NULL
    NONE = NONE
    NoMessage = NoMessage
    Threads = {a1, a2, rx}
    Apps = {a1, a2}
    Senders = {a1, a2}
    Listeners = {a2}
    Rx = rx
    Subs = {"zdo"}
    MaxRequests = 2
    MaxAreqs = 1
    Cell = {1, 2, 3}
    Message <- MCMessage
    Urgent <- MCUrgent
CHECK_DEADLOCK FALSE
INVARIANTS
    QueueIntact
    OneRequestAtATime
    NothingLostOrTwice
    SuccessMeansAnswered
    SpareTokens
PROPERTIES
    IsMessageQueue
    RequestEnds
    QueueDrains
