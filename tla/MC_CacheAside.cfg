\* Every key, every pair of writers of it, two readers, one fault.
CONSTANTS
    Keys = {"contentDetail", "verifications", "binding", "entry", "badge"}
    Readers = {1, 2}
    Writers = {1, 2}
    Kinds = {"register", "bind", "verify", "worker", "outside"}
    TTL = 2
    Lag = 1
    MaxFaults = 1
SPECIFICATION MCSpec
INVARIANTS
    BoundedStaleness
    StaleNeedsCause
PROPERTIES
    Converges
    RequestsEnd
