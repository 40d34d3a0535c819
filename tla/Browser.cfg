\* One share, two tabs, a re-key; one act of the user and one failure of a
\* request, beside what answers the share screen.
SPECIFICATION Spec
CONSTANTS
    Tabs <- TwoTabs
    Shares <- OneShare
    Refusable <- ItsFile
    MaxEpoch = 1
    MaxDevices = 3
    MaxActs = 1
    MaxFails = 1
INVARIANTS SentOpens
PROPERTIES SharesKept SharesArrive
CHECK_DEADLOCK FALSE
