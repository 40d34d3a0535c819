\* Four releases, of which the third does not run here; two terminals.
CONSTANTS
    t1 = t1
    t2 = t2
    Agent = Agent
    Terminals = {t1, t2}
    MaxRelease = 4
    Runnable = {1, 2, 4}
    MaxTyped = 2
    MaxFails = 2
SPECIFICATION FairSpec
INVARIANTS PlaceRuns
PROPERTIES NewestRuns
CHECK_DEADLOCK FALSE
