\* Every kind of provider event, storage failures and restarts.
CONSTANTS
    Tools = {t1}
    Inputs <- AnyInput
    MaxEvents = 3
    QueueCap = 1
    ChannelCap = 2
SPECIFICATION FairSpec
CHECK_DEADLOCK FALSE
INVARIANTS
    EventsAreOneProtocol
    ToldIsStored
PROPERTIES
    KeepsContract
    GenerationEnds
