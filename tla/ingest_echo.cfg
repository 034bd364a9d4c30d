SPECIFICATION Spec
CONSTANTS
    run1 = run1
    old = old  new = new
    salt = salt  pepper = pepper
    Runs = {run1}
    Slots = {s1, s2}
    Rollouts = {{old, new}}
    PiiPaths <- Paths
    Pepper <- Peppers
    Content <- Reports
    Stampings = {"once"}
    Drifts <- Accurate
    Tolerance = 1
    MaxTime = 0
    Window = 0
    None = None
INVARIANTS EchoIsStored
