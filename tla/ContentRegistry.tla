--------------------------- MODULE ContentRegistry ---------------------------
(***************************************************************************)
(* The content registry contract: contracts/ContentRegistry.sol, whose     *)
(* five functions contracts/ContentRegistryV1.sol repeats behind a proxy   *)
(* (module RegistryProxy adds what only the proxied versions have).        *)
(*                                                                         *)
(* One action per external function.  A transaction is atomic: a failing   *)
(* require reverts everything, so a reverted call is a step that is not    *)
(* enabled.  Transactions of one block share a timestamp; Mine moves the   *)
(* chain to a later block.                                                 *)
(*                                                                         *)
(* Abstractions.  keccak256 is injective, so a platform key is the byte    *)
(* string that is hashed.  Strings are sequences over a small alphabet     *)
(* with ":" in it, because the key is a concatenation and what matters of  *)
(* it is where the ":" falls.                                              *)
(***************************************************************************)
EXTENDS Naturals, Sequences

CONSTANTS
    Hashes,         \* bytes32 content hashes, the zero word included
    ZeroHash,       \* bytes32(0)
    Accounts,       \* accounts that can send a transaction
    ZeroAccount,    \* address(0), which cannot
    URIs,           \* manifest URIs, the empty string included
    EmptyURI,       \* ""
    Platforms,      \* platform names, as sequences of characters
    PlatformIds,    \* platform identifiers, likewise
    MaxTime,        \* bound: last block timestamp
    MaxKeys         \* bound: platform keys pushed to one content hash

ASSUME ZeroHashAssumption == ZeroHash \in Hashes
ASSUME ZeroAccountAssumption == ZeroAccount \notin Accounts
ASSUME EmptyURIAssumption == EmptyURI \in URIs
ASSUME BoundsAssumption == MaxTime \in Nat \ {0} /\ MaxKeys \in Nat

VARIABLES
    entries,            \* mapping(bytes32 => Entry)
    platformToHash,     \* mapping(bytes32 => bytes32)
    hashToPlatformKeys, \* mapping(bytes32 => bytes32[])
    blockTime,          \* block.timestamp
    boundEvents         \* the PlatformBound events emitted so far

registryVars ==
    <<entries, platformToHash, hashToPlatformKeys, blockTime, boundEvents>>

\* Mutant of PlatformKey: the separator is forgotten.
PlatformKeyPlain(platform, id) == platform \o id

\* abi.encodePacked(platform, ":", platformId), what keccak256 is applied to
PlatformKey(platform, id) == platform \o <<":">> \o id

Keys == {PlatformKey(p, i) : p \in Platforms, i \in PlatformIds}

\* What a mapping holds at a key never written.
NoEntry == [creator |-> ZeroAccount, timestamp |-> 0, manifestURI |-> EmptyURI]

Entry == [creator : Accounts, timestamp : 1 .. MaxTime, manifestURI : URIs]
            \cup {NoEntry}

PlatformBound == [contentHash : Hashes, platform : Platforms, platformId : PlatformIds]

Registered(h) == entries[h].timestamp # 0

Occurrences(h, k) == {n \in DOMAIN hashToPlatformKeys[h] : hashToPlatformKeys[h][n] = k}

-----------------------------------------------------------------------------
Init ==
    /\ entries = [h \in Hashes |-> NoEntry]
    /\ platformToHash = [k \in Keys |-> ZeroHash]
    /\ hashToPlatformKeys = [h \in Hashes |-> <<>>]
    /\ blockTime = 1
    /\ boundEvents = {}

\* modifier onlyCreator, followed by the require every user of it starts with
OnlyCreator(sender, h) ==
    /\ entries[h].creator = sender
    /\ Registered(h)

Register(sender, h, uri) ==
    /\ ~Registered(h)
    /\ entries' = [entries EXCEPT ![h] = [creator     |-> sender,
                                          timestamp   |-> blockTime,
                                          manifestURI |-> uri]]
    /\ UNCHANGED <<platformToHash, hashToPlatformKeys, blockTime, boundEvents>>

UpdateManifest(sender, h, uri) ==
    /\ OnlyCreator(sender, h)
    /\ entries' = [entries EXCEPT ![h].manifestURI = uri]
    /\ UNCHANGED <<platformToHash, hashToPlatformKeys, blockTime, boundEvents>>

\* Mutant of Revoke: the entry is deleted instead of its manifest.
RevokeEntry(sender, h) ==
    /\ OnlyCreator(sender, h)
    /\ entries' = [entries EXCEPT ![h] = NoEntry]
    /\ UNCHANGED <<platformToHash, hashToPlatformKeys, blockTime, boundEvents>>

\* The entry stays: only its manifest is cleared, and it can be set again.
Revoke(sender, h) ==
    /\ OnlyCreator(sender, h)
    /\ entries' = [entries EXCEPT ![h].manifestURI = EmptyURI]
    /\ UNCHANGED <<platformToHash, hashToPlatformKeys, blockTime, boundEvents>>

\* Mutant of BindPlatform: the "Already bound" check is dropped.
BindPlatformAgain(sender, h, platform, id) ==
    LET key == PlatformKey(platform, id) IN
    /\ OnlyCreator(sender, h)
    /\ Len(hashToPlatformKeys[h]) < MaxKeys
    /\ platformToHash' = [platformToHash EXCEPT ![key] = h]
    /\ hashToPlatformKeys' = [hashToPlatformKeys EXCEPT ![h] = Append(@, key)]
    /\ boundEvents' = boundEvents \cup
          {[contentHash |-> h, platform |-> platform, platformId |-> id]}
    /\ UNCHANGED <<entries, blockTime>>

BindPlatform(sender, h, platform, id) ==
    LET key == PlatformKey(platform, id) IN
    /\ OnlyCreator(sender, h)
    /\ platformToHash[key] = ZeroHash
    /\ Len(hashToPlatformKeys[h]) < MaxKeys
    /\ platformToHash' = [platformToHash EXCEPT ![key] = h]
    /\ hashToPlatformKeys' = [hashToPlatformKeys EXCEPT ![h] = Append(@, key)]
    /\ boundEvents' = boundEvents \cup
          {[contentHash |-> h, platform |-> platform, platformId |-> id]}
    /\ UNCHANGED <<entries, blockTime>>

\* resolveByPlatform, a view: what a caller is told about a platform ID
ResolveByPlatform(platform, id) ==
    LET h == platformToHash[PlatformKey(platform, id)] IN
    [creator     |-> entries[h].creator,
     contentHash |-> h,
     manifestURI |-> entries[h].manifestURI,
     timestamp   |-> entries[h].timestamp]

\* A later block.
Mine ==
    /\ blockTime < MaxTime
    /\ blockTime' = blockTime + 1
    /\ UNCHANGED <<entries, platformToHash, hashToPlatformKeys, boundEvents>>

Transaction(sender, h) ==
    \/ \E uri \in URIs : Register(sender, h, uri)
    \/ \E uri \in URIs : UpdateManifest(sender, h, uri)
    \/ Revoke(sender, h)
    \/ \E p \in Platforms, i \in PlatformIds : BindPlatform(sender, h, p, i)

Next ==
    \/ \E sender \in Accounts, h \in Hashes : Transaction(sender, h)
    \/ Mine

Spec == Init /\ [][Next]_registryVars

-----------------------------------------------------------------------------
(***************************************************************************)
(* Properties                                                              *)
(***************************************************************************)

\* The shape of the contract's storage.
TypeOK ==
    /\ entries \in [Hashes -> Entry]
    /\ platformToHash \in [Keys -> Hashes]
    /\ hashToPlatformKeys \in [Hashes -> Seq(Keys)]
    /\ blockTime \in 1 .. MaxTime
    /\ boundEvents \subseteq PlatformBound

\* A platform key that resolves to a content hash resolves to a registered
\* one: bindPlatform cannot leave a key pointing at content with no creator.
BoundIsRegistered ==
    \A k \in Keys :
        platformToHash[k] # ZeroHash => Registered(platformToHash[k])

\* The two binding tables tell the same story: for every content hash but
\* the zero word, its array of keys lists, each once, exactly the keys that
\* resolve to it.  bindPlatform writes the two tables separately.
TablesAgree ==
    \A h \in Hashes \ {ZeroHash} :
        /\ \A n, m \in DOMAIN hashToPlatformKeys[h] :
              hashToPlatformKeys[h][n] = hashToPlatformKeys[h][m] => n = m
        /\ \A k \in Keys : Occurrences(h, k) # {} <=> platformToHash[k] = h

\* Once a PlatformBound event has named a content hash other than the zero
\* word, its platform key resolves to that content for ever, so an indexer
\* that replays the events in any order and a caller of resolveByPlatform
\* reach the same answer.  ("Each platform+ID combination can only be bound
\* once", says the V1 contract; of content hash zero that is not true, because
\* the guard cannot tell a key bound to it from a free one.)
EventsMatchTable ==
    \A e \in boundEvents :
        LET k == PlatformKey(e.platform, e.platformId) IN
        e.contentHash # ZeroHash => platformToHash[k] = e.contentHash

\* A platform ID resolves only if that platform and that ID were bound, not
\* merely a pair whose concatenation is the same string.
ResolvesOnlyBoundPairs ==
    \A p \in Platforms, i \in PlatformIds :
        LET h == ResolveByPlatform(p, i).contentHash IN
        h # ZeroHash =>
            [contentHash |-> h, platform |-> p, platformId |-> i] \in boundEvents

\* Revoking or republishing a manifest never disturbs who registered the
\* content and when, and a content hash never gets a second registration.
ProvenanceImmutable ==
    [][\A h \in Hashes : Registered(h) =>
          /\ entries'[h].creator = entries[h].creator
          /\ entries'[h].timestamp = entries[h].timestamp]_registryVars

\* The contract implements the append-only ledger.
LedgerClaims ==
    [h \in {g \in Hashes : Registered(g)} |->
        [by |-> entries[h].creator, at |-> entries[h].timestamp]]
LedgerLinks ==
    [k \in {j \in Keys : platformToHash[j] # ZeroHash} |-> platformToHash[k]]

Ledger == INSTANCE ProvenanceLedger WITH
    Times  <- 1 .. MaxTime,
    claims <- LedgerClaims,
    links  <- LedgerLinks

\* Read through these mappings the contract only ever appends: claims are
\* write-once, links are write-once and made by the claim's holder.
ImplementsLedger == Ledger!Spec
=============================================================================
