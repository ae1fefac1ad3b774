\* Three requests to two instances: two one-shots fill a strict counter, and
\* a key is used while another request revokes it and a third comes after.
CONSTANTS
    i1 = i1
    i2 = i2
    u1 = u1
    u2 = u2
    k1 = k1
    k2 = k2
    Insts = {i1, i2}
    Users = {u1, u2}
    Keys = {k1, k2}
    Start = {k1}
    OwnerOf <- OneOwner
    Setups <- SomeSetups
    MaxRequests = 3
    MaxResets = 1
    MaxFaults = 1
SYMMETRY Swap
SPECIFICATION Spec
INVARIANTS
    GateInv
    RevokedKeysRefused
PROPERTIES
    GoodKeysServed
