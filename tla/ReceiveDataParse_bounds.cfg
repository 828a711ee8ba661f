CONSTANTS
    Contents = {}
    Inputs <- MCInputs
SPECIFICATION Spec
INVARIANT
    NoOverread
