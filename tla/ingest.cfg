SPECIFICATION MCLiveSpec
CONSTANTS
    run1 = run1
    old = old  new = new
    salt = salt  pepper = pepper
    Runs = {run1}
    Slots = {s1, s2}
    Rollouts = {{new}, {old, new}}
    PiiPaths <- Paths
    Pepper <- Peppers
    Content <- Reports
    Stampings = {"absent", "once", "always"}
    Drifts <- AnyDrift
    Tolerance = 1
    MaxTime = 2
    Window = 0
    None = None
INVARIANTS TypeOK AcknowledgedIsStored CreatedOnce GivenUpForCause
           DelaysPlausible ColumnsMatchPayload
PROPERTIES FirstWriteWins QueueDrains
