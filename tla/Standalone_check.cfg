SPECIFICATION Spec
INVARIANTS
    TruncationDetected
    AcceptsCompiled
    RejectsTampered
PROPERTIES
    StopLeadsToExit
