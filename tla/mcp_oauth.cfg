SPECIFICATION Spec
CONSTANTS
    t1 = t1
    t2 = t2
    c1 = c1
    c2 = c2
    k1 = k1
    w1 = w1
    w2 = w2
    u1 = u1
    u2 = u2
    None = None
    Txns <- MCTxns
    Callbacks <- MCCallbacks
    Clears <- MCClears
    Workers <- MCWorkers
    Urls <- MCUrls
    MaxGen = 1
    MaxEdits = 1
SYMMETRY Interchangeable
INVARIANTS
    WithdrawnStaysOut
    CredentialBound
    SingleUse
PROPERTY RevisionMarksChange
CHECK_DEADLOCK FALSE
