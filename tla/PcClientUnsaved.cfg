SPECIFICATION Spec
CONSTANTS
    Requests = {1}
    Tabs = {t1}
    MaxSecrets = 2
    None = None
INVARIANTS
    AcceptedWasSaved
