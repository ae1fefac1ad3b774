\* Two notices in two slots, one change of the preferences, two faults of any
\* kind, and two attempts, so that two faults can use them up.
CONSTANTS
    n1 = n1
    n2 = n2
    Notices = {n1, n2}
    TypeOf <- TwoTypes
    RedisModes = {"unset", "up"}
    Providers = {"disabled", "on"}
    AuthMounted = TRUE
    Slots = {1, 2}
    MaxAttempts = 2
    FaultKinds = {"db", "provider", "stall", "crash"}
    MaxFaults = 2
    MaxChoices = 1
SPECIFICATION Spec
INVARIANTS
    NoticeInv
    StatsTellMails
PROPERTIES
    OptOutHonoured
    ChoicesStand
