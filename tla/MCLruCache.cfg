CONSTANTS
    Keys = {k1, k2, k3, k4}
    Values = {v1, v2}
    Capacity = 2
    NoNode = NoNode
SPECIFICATION Spec
INVARIANTS IteratorsValid MostRecentKept
