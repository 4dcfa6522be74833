SPECIFICATION Spec
CONSTANTS
    Handlers = {h1, h2}
    Customers = {c1}
    Publics = {p1, p2}
    None = None
    MaxBoots = 1
    MaxBlind = 1
SYMMETRY Symmetry
INVARIANTS TypeOK RulesBounded SavedUnlessDrifted
