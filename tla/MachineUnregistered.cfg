\* One terminal, one device; registering may not get through. The agent's only.
CONSTANTS
    t1 = t1
    Terminals = {t1}
    Agent = Agent
    Commands = {"enrol", "install"}
    Tray = 0
    MaxDevices = 1
    MaxPairs = 1
    MaxEpoch = 1
    MaxTyped = 2
    Failing = {"register"}
    MaxFails = 1
SPECIFICATION Spec
PROPERTY StopsOnlyRekeyedOut
CHECK_DEADLOCK FALSE
