SPECIFICATION Spec
CONSTANTS
    Devices = {box, stick}
    Offsets <- SomeOffsets
    Secrets = {key, old}
    Layouts <- SomeLayouts
    MaxSkew = 2
    MaxDuration = 4
    MaxTime = 3
    None = None
SYMMETRY Symmetry
INVARIANTS TypeOK NeverLockedOut RequireServesSignedOnly ClaimsVerified
