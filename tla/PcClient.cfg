SPECIFICATION Spec
CONSTANTS
    Requests = {1, 2}
    Tabs = {t1}
    MaxSecrets = 2
    None = None
SYMMETRY Symmetry
INVARIANTS
    PcInv
    NothingIsLost
