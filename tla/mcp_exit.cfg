SPECIFICATION Spec
CONSTANTS
    a1 = a1
    a2 = a2
    h1 = h1
    d1 = d1
    None = None
    Calls <- MCCalls
    Timed <- MCTimed
    Probes <- MCProbes
    Stops <- MCStops
PROPERTY ExitsOwnTransport
CHECK_DEADLOCK FALSE
