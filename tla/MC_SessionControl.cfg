SPECIFICATION Spec
CONSTANTS
    u1 = u1
    u2 = u2
    Users = {u1, u2}
    Ifnames = {i1, i2}
    Handlers = {h1, h2}
    None = None
    Matches <- AnyByte
    Mac <- OwnStation
    MaxRetries = 1
    MaxItems = 1
SYMMETRY Symmetry
INVARIANTS TypeOK
PROPERTIES SuccessMeansGone OthersByReuseOrPattern
