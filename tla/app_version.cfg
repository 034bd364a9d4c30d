SPECIFICATION DeliverySpec
CONSTANTS
    box = box
    Codes = {1, 2, 3}
    TooLarge = {3}
    Requests = {r1, r2}
    Devices = {box}
    Installed = {1}
    Drafts <- Posted
    NoDoc = NoDoc
INVARIANTS TypeOK OneActiveManifest
PROPERTIES ManifestNeverWithdrawn EveryRequestEnds FleetMeetsMinimum
