SPECIFICATION FairSpec
CONSTANTS
    num_entries = 2
    MaxEvents = 4
    MaxFull = 1
    MaxNudges = 2
INVARIANTS DeliveredInOrder MaxDepthCoversDepth
PROPERTIES EventuallyDelivered ImplementsBoundedQueue
