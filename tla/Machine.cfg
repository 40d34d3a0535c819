\* One terminal, two devices the machine may come to be, and the tray panel's.
CONSTANTS
    t1 = t1
    Terminals = {t1}
    Agent = Agent
    Commands = {"enrol", "keys", "rekey", "receive", "logout", "delete", "install", "uninstall"}
    Tray = 1
    MaxDevices = 3
    MaxPairs = 3
    MaxEpoch = 1
    MaxTyped = 3
    Failing = {"register", "refresh", "revoke"}
    MaxFails = 1
SPECIFICATION FairSpec
INVARIANTS NoPhantom KeypairsAgree
PROPERTIES StopsForReason ServiceServes
CHECK_DEADLOCK FALSE
