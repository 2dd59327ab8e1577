CONSTANTS
    k1 = k1
    k2 = k2
    k3 = k3
    Connections = {k1, k2, k3}
    Readers = {k1}
    MaxSubscribers = 2
    QueueCapacity = 2
    MaxPublished = 3
SPECIFICATION LiveSpec
INVARIANT QueuesInv
PROPERTY LiveProgress
CHECK_DEADLOCK FALSE
