CONSTANTS
    Contents <- MCRoundTripContents
    Inputs = {}
SPECIFICATION Spec
INVARIANT
    ParseRoundTrip
