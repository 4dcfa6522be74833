SPECIFICATION Spec
CONSTANTS
    Handlers = {h1, h2}
    Customers = {c1}
    Publics = {p1}
    None = None
    MaxBoots = 0
    MaxBlind = 0
INVARIANTS OneSnatRule
