SPECIFICATION LiveSpec
CONSTANTS
    v1 = v1  v2 = v2  v3 = v3
    box = box
    sei = sei  ultra = ultra  build = build
    Versions = {v1, v2, v3}
    Values = {sei, ultra, build}
    Null = Null
    Empty = Empty
    NoRow = NoRow
    Idle = Idle
    Devices = {box}
    Identities <- AnyIdentity
    Drafts <- AllDrafts
    SchemaVersions = {0, 1}
INVARIANTS TypeOK OnceServedAlwaysServed DeliveredAsMeant DeliveredUsable
PROPERTIES SpecificityNeverDrops DevicesConverge
