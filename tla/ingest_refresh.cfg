SPECIFICATION Spec
CONSTANTS
    run1 = run1
    old = old  new = new
    salt = salt  pepper = pepper
    Runs = {run1}
    Slots = {s1, s2}
    Rollouts = {{old}}
    PiiPaths <- Paths
    Pepper <- Peppers
    Content <- Reports
    Stampings = {"always"}
    Drifts <- Accurate
    Tolerance = 1
    MaxTime = 1
    Window = 0
    None = None
INVARIANTS RetriesAccepted
