\* The instance of Enrol.cfg: the cron drops a request that is being approved.
CONSTANTS
    u1 = u1
    u2 = u2
    code = code
    invite = invite
    l1 = l1
    l2 = l2
    NoUser = NoUser
    NoGrant = NoGrant
    Users = {u1, u2}
    Codes = {code}
    Invites = {}
    Links = {l1}
    Address <- OneAddress
    MaxPending = 1
    Limit <- Limits
    MaxDevices = 4
    First <- TwoAccounts
    Does <- DoesAll
    Requests = {1, 2}
    Failures = TRUE
SPECIFICATION Spec
INVARIANTS NoneOutlivesItsRow
CHECK_DEADLOCK FALSE
