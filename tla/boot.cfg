SPECIFICATION LiveSpec
CONSTANTS
    Servers = {a, b}
    Migrations = 2
    DevSeed = TRUE
    CrashAt <- AnyStage
    MaxStops = 3
    None = None
INVARIANTS TypeOK SeededBeforeListening MigratedBeforeListening
PROPERTIES SeedNeverOverrides OnlyHalfDoneKeepsDown
