CONSTANTS
    CatchInServiceLoop = TRUE
    StartMayFail = TRUE
    Signals <- MCSignals
    MaxDeliveries <- MCMaxDeliveries
SPECIFICATION Spec
PROPERTY
    StartFailureExits
