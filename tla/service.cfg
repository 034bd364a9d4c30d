SPECIFICATION ServiceSpec
CONSTANTS
    v1 = v1  v2 = v2
    r1 = r1  r2 = r2
    sei = sei
    box = box
    Versions = {v1, v2}
    Values = {sei}
    Null = Null
    Empty = Empty
    Docs <- OneTarget
    Requests = {r1, r2}
    NoRow = NoRow
    Devices = {box}
    Identities <- Boxes
    SchemaVersions = {1}
    Idle = Idle
    JsonOf <- Json
PROPERTIES EveryRequestEnds ImplementsDelivery
