\* Two requests of any kind, two registries, two contents, two posts, three faults; 
\* one upload with every configuration; lookups in one registry or three.
SPECIFICATION MCSpec
CONSTANTS
  Requests = {q1, q2}
  Registries = {r1, r2}
  Hashes = {h1, h2}
  Keys = {k1, k2}
  k1 = k1
  k2 = k2
  BindLists <- MCBindLists
  Uploads <- SomeUploads
  Cases <- SomeCases
  Clients = {1, 2}
  Manifests = 2
  MaxFaults = 3
  Wallet = Wallet
  Other = Other
  Null = Null
SYMMETRY Symmetric
INVARIANTS
    RowsAreOnChain
    AnswersAreTrue
    MissingRowsAreFaults
    UploadInv
    LookInv
