SPECIFICATION Spec
CONSTANTS
    v1 = v1  v2 = v2  v3 = v3
    r1 = r1  r2 = r2  r3 = r3
    sei = sei
    Versions = {v1, v2, v3}
    Values = {sei}
    Null = Null
    Empty = Empty
    Docs <- TwoGroups
    Requests = {r1, r2, r3}
    NoRow = NoRow
SYMMETRY Symmetry
INVARIANTS TypeOK OneActivePerTarget IndInv
PROPERTIES NeverUnserved SwapWithinGroup ImplementsRegistry
