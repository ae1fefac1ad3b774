\* Three content hashes (one of them the zero word), two accounts (a1 deploys), four platform
\* keys, two of them to a content.
CONSTANTS
    h0 = h0
    h1 = h1
    h2 = h2
    a1 = a1
    a2 = a2
    nobody = nobody
    Hashes = {h0, h1, h2}
    ZeroHash = h0
    Accounts = {a1, a2}
    ZeroAccount = nobody
    Deployer = a1
    URIs = {"", "ipfs"}
    EmptyURI = ""
    Platforms <- PlainPlatforms
    PlatformIds <- PlainIds
    MaxTime = 2
    MaxKeys = 2
SYMMETRY Symmetry
SPECIFICATION MCSpec
INVARIANTS
    TablesAgree
    EventsMatchTable
    ResolvesOnlyBoundPairs
    CounterBounded
PROPERTIES
    ImplementsLedger
    UpgradeTransparent
