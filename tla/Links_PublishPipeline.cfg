\* One one-shot or other request, nothing goes wrong.
SPECIFICATION MCSpec
CONSTANTS
  Requests = {q1}
  Registries = {r1, r2}
  Hashes = {h1}
  Keys = {k1, k2}
  k1 = k1
  k2 = k2
  BindLists <- MCBindLists
  Uploads <- NoUploads
  Cases <- NoCases
  Clients = {1, 2}
  Manifests = 2
  MaxFaults = 0
  Wallet = Wallet
  Other = Other
  Null = Null
INVARIANTS
  BindingsAreLinked
