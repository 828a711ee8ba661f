CONSTANTS
    Msgs <- MCMsgs
SPECIFICATION Spec
INVARIANT
    RoundTrip
