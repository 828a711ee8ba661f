CONSTANTS
    CatchInServiceLoop = TRUE
    StartMayFail = FALSE
    Signals <- MCSignals
    MaxDeliveries <- MCMaxDeliveries
SPECIFICATION Spec
PROPERTY
    QuitWakesMain
