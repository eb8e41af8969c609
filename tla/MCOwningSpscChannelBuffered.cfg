SPECIFICATION FairSpec
CONSTANTS
    Capacity = 2
    Messages = 3
    StoreBuffering = TRUE
INVARIANTS
    PublishedMessagesArrive
PROPERTY ShutdownStrandsNobody
\* The messages run out: the producer is done and the consumer sleeps.
CHECK_DEADLOCK FALSE
