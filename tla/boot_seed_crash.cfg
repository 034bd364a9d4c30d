SPECIFICATION LiveSpec
CONSTANTS
    Servers = {a}
    Migrations = 2
    DevSeed = TRUE
    CrashAt = {"activate"}
    MaxStops = 1
    None = None
PROPERTIES ServersComeUp
