\* Two people who read an address each, two accounts; two requests at a time,
\* four in all.
CONSTANTS
    u1 = u1
    u2 = u2
    p1 = p1
    p2 = p2
    i1 = i1
    NoUser = NoUser
    NoOne = NoOne
    NoInvite = NoInvite
    Users = {u1, u2}
    People = {p1, p2}
    Invites = {i1}
    CodeAttempts = 1
    SigninFailures = 1
    Limit = 2
    Does <- TwoPeople
    Failures = TRUE
    Requests = {1, 2}
    MaxCodes = 2
    MaxPass = 2
    MaxBegun = 4
SPECIFICATION Spec
SYMMETRY Symmetry
INVARIANTS OneAccount AddressProved GuessesBounded LockoutBounded
CHECK_DEADLOCK FALSE
