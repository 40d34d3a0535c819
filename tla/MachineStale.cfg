\* One terminal, two enrolments, and a re-key the running agent hears of between.
CONSTANTS
    t1 = t1
    Terminals = {t1}
    Agent = Agent
    Commands = {"enrol", "install"}
    Tray = 0
    MaxDevices = 2
    MaxPairs = 2
    MaxEpoch = 1
    MaxTyped = 3
    Failing = {}
    MaxFails = 0
SPECIFICATION Spec
INVARIANT RestartsAsEnrolled
CHECK_DEADLOCK FALSE
