SPECIFICATION MicrophoneSpec
CONSTANTS
    h1 = h1
    h2 = h2
    ls = ls
    Handler = {h1, h2}
    Lifespan = ls
    Lists <- TwoOrders
    Registries <- InOrOut
    Preview = {1}
    QueueBudget = 1
    Window = 2
    Overlap = 1
    MaxFed = 2
    ProductionRequiresUsb = TRUE
    MaxRequests = 2
    MaxChanges = 1
CHECK_DEADLOCK FALSE
INVARIANTS
    LiveIsBounded
    LeftAfterFailedStop
PROPERTIES
    ChosenIfRead
    CallsReturn
