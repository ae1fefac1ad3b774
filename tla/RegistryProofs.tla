---------------------------- MODULE RegistryProofs ----------------------------
(*****************************************************************************)
(* Theorems about ContentRegistry and RegistryProxy, for any sets of hashes, *)
(* accounts, URIs, platforms and identifiers and any bounds (finite sets     *)
(* where contents are counted).                                              *)
(*****************************************************************************)
EXTENDS RegistryProxy, SequenceTheorems, FiniteSetTheorems, TLAPS

-------------------------------------------------------------------------------
(*****************************************************************************)
(* The contract.  The inductive invariant is the conjunction of the type     *)
(* invariant and three properties.  They need each other: that *)
(* a push keeps an array free of duplicates follows only from the array      *)
(* agreeing with platformToHash, and that an event's key keeps its content   *)
(* from the key's slot in the table being taken.                             *)
(*****************************************************************************)

\* The inductive invariant of the contract.
IInv == TypeOK /\ BoundIsRegistered /\ TablesAgree /\ EventsMatchTable

-----------------------------------------------------------------------------
\* Pushing a key on a content's array: which positions of the array hold
\* which key afterwards.
LEMMA PushOccurrences ==
    ASSUME NEW S, NEW s \in Seq(S), NEW key \in S, NEW k \in S
    PROVE  /\ Append(s, key) \in Seq(S)
           /\ DOMAIN Append(s, key) = DOMAIN s \cup {Len(s) + 1}
           /\ Len(s) + 1 \notin DOMAIN s
           /\ \A n \in DOMAIN s : Append(s, key)[n] = s[n]
           /\ Append(s, key)[Len(s) + 1] = key
<1>1. DOMAIN s = 1 .. Len(s) /\ Len(s) \in Nat
  BY LenProperties
<1>2. /\ Append(s, key) \in Seq(S)
      /\ Len(Append(s, key)) = Len(s) + 1
      /\ \A i \in 1 .. Len(s) : Append(s, key)[i] = s[i]
      /\ Append(s, key)[Len(s) + 1] = key
  BY AppendProperties
<1>3. DOMAIN Append(s, key) = 1 .. Len(s) + 1
  BY <1>2, LenProperties
<1> QED
  BY <1>1, <1>2, <1>3

\* An entry exists exactly when its creator is an account.
LEMMA EntryCases ==
    ASSUME TypeOK, NEW h \in Hashes
    PROVE  /\ Registered(h) <=> entries[h] # NoEntry
           /\ Registered(h) => entries[h] \in
                 [creator : Accounts, timestamp : 1 .. MaxTime, manifestURI : URIs]
BY DEF TypeOK, Entry, NoEntry, Registered

-----------------------------------------------------------------------------
\* The initial storage satisfies the invariant.
LEMMA InitInv == Init => IInv
<1> SUFFICES ASSUME Init PROVE IInv
  OBVIOUS
<1>1. TypeOK
  <2>1. entries \in [Hashes -> Entry]
    BY DEF Init, Entry
  <2>2. hashToPlatformKeys \in [Hashes -> Seq(Keys)]
    BY EmptySeq DEF Init
  <2> QED
    BY <2>1, <2>2, ZeroHashAssumption, BoundsAssumption DEF Init, TypeOK
<1>2. BoundIsRegistered /\ TablesAgree /\ EventsMatchTable
  BY DEF Init, BoundIsRegistered, TablesAgree, EventsMatchTable, Occurrences
<1> QED
  BY <1>1, <1>2 DEF IInv

\* A transaction that only rewrites entries keeps the invariant, provided a
\* registered content stays registered.
LEMMA EntriesStepInv ==
    ASSUME IInv, NEW h \in Hashes, NEW e \in Entry,
           e.timestamp # 0,
           entries' = [entries EXCEPT ![h] = e],
           UNCHANGED <<platformToHash, hashToPlatformKeys, blockTime, boundEvents>>
    PROVE  IInv'
<1>1. TypeOK'
  BY DEF IInv, TypeOK
<1>2. \A g \in Hashes : Registered(g) => Registered(g)'
  BY DEF IInv, TypeOK, Registered
<1>3. BoundIsRegistered'
  BY <1>2 DEF IInv, TypeOK, BoundIsRegistered
<1>4. TablesAgree' /\ EventsMatchTable'
  BY DEF IInv, TablesAgree, EventsMatchTable, Occurrences
<1> QED
  BY <1>1, <1>3, <1>4 DEF IInv

\* register preserves the invariant.
LEMMA RegisterInv ==
    ASSUME IInv, NEW sender \in Accounts, NEW h \in Hashes, NEW uri \in URIs,
           Register(sender, h, uri)
    PROVE  IInv'
<1> DEFINE e == [creator |-> sender, timestamp |-> blockTime, manifestURI |-> uri]
<1>1. e \in Entry /\ e.timestamp # 0
  BY DEF IInv, TypeOK, Entry
<1> QED
  BY <1>1, EntriesStepInv DEF Register

\* updateManifest and revoke preserve the invariant: they put a URI into an
\* entry that exists.
LEMMA SetManifestInv ==
    ASSUME IInv, NEW h \in Hashes, NEW uri \in URIs, Registered(h),
           entries' = [entries EXCEPT ![h].manifestURI = uri],
           UNCHANGED <<platformToHash, hashToPlatformKeys, blockTime, boundEvents>>
    PROVE  IInv'
<1> DEFINE e == [entries[h] EXCEPT !.manifestURI = uri]
<1>1. entries[h] \in [creator : Accounts, timestamp : 1 .. MaxTime, manifestURI : URIs]
  BY EntryCases DEF IInv
<1>2. e \in Entry /\ e.timestamp # 0
  BY <1>1, BoundsAssumption DEF Entry
<1>3. entries' = [entries EXCEPT ![h] = e]
  OBVIOUS
<1> QED
  BY <1>2, <1>3, EntriesStepInv

\* bindPlatform preserves the invariant.
LEMMA BindPlatformInv ==
    ASSUME IInv, NEW sender \in Accounts, NEW h \in Hashes,
           NEW p \in Platforms, NEW i \in PlatformIds,
           BindPlatform(sender, h, p, i)
    PROVE  IInv'
<1> DEFINE key == PlatformKey(p, i)
           s   == hashToPlatformKeys[h]
<1>1. /\ key \in Keys
      /\ s \in Seq(Keys)
      /\ platformToHash[key] = ZeroHash
      /\ platformToHash' = [platformToHash EXCEPT ![key] = h]
      /\ hashToPlatformKeys' = [hashToPlatformKeys EXCEPT ![h] = Append(s, key)]
      /\ UNCHANGED <<entries, blockTime>>
      /\ Registered(h)
  BY DEF BindPlatform, OnlyCreator, IInv, TypeOK, Keys
<1> HIDE DEF key
<1>2. /\ Append(s, key) \in Seq(Keys)
      /\ DOMAIN Append(s, key) = DOMAIN s \cup {Len(s) + 1}
      /\ Len(s) + 1 \notin DOMAIN s
      /\ \A n \in DOMAIN s : Append(s, key)[n] = s[n]
      /\ Append(s, key)[Len(s) + 1] = key
  BY <1>1, PushOccurrences
<1>3. TypeOK'
  <2>1. boundEvents' \subseteq PlatformBound
    BY DEF BindPlatform, IInv, TypeOK, PlatformBound
  <2> QED
    BY <1>1, <1>2, <2>1 DEF IInv, TypeOK
<1>4. BoundIsRegistered'
  BY <1>1 DEF IInv, TypeOK, BoundIsRegistered, Registered
<1>5. TablesAgree'
  <2> SUFFICES ASSUME NEW g \in Hashes \ {ZeroHash}
               PROVE  /\ \A n, m \in DOMAIN hashToPlatformKeys'[g] :
                            hashToPlatformKeys'[g][n] = hashToPlatformKeys'[g][m] => n = m
                      /\ \A k \in Keys :
                            (Occurrences(g, k) # {})' <=> platformToHash'[k] = g
    BY DEF TablesAgree
  <2>1. /\ \A n, m \in DOMAIN hashToPlatformKeys[g] :
              hashToPlatformKeys[g][n] = hashToPlatformKeys[g][m] => n = m
        /\ \A k \in Keys :
              (\E n \in DOMAIN hashToPlatformKeys[g] : hashToPlatformKeys[g][n] = k)
                 <=> platformToHash[k] = g
    BY DEF IInv, TablesAgree, Occurrences
  <2>2. \A n \in DOMAIN hashToPlatformKeys[g] : hashToPlatformKeys[g][n] # key
    BY <1>1, <2>1
  <2>3. CASE g = h
    <3>1. hashToPlatformKeys'[g] = Append(s, key)
      BY <1>1, <2>3 DEF IInv, TypeOK
    <3>2. \A n, m \in DOMAIN Append(s, key) :
              Append(s, key)[n] = Append(s, key)[m] => n = m
      BY <1>2, <2>1, <2>2, <2>3
    <3>3. \A k \in Keys :
              (\E n \in DOMAIN Append(s, key) : Append(s, key)[n] = k)
                 <=> platformToHash'[k] = g
      BY <1>1, <1>2, <2>1, <2>3 DEF IInv, TypeOK
    <3> QED
      BY <3>1, <3>2, <3>3 DEF Occurrences
  <2>4. CASE g # h
    <3>1. hashToPlatformKeys'[g] = hashToPlatformKeys[g]
      BY <1>1, <2>4 DEF IInv, TypeOK
    <3>2. \A k \in Keys : platformToHash'[k] = g <=> platformToHash[k] = g
      BY <1>1, <2>4 DEF IInv, TypeOK
    <3> QED
      BY <2>1, <3>1, <3>2 DEF Occurrences
  <2> QED
    BY <2>3, <2>4
<1>6. EventsMatchTable'
  <2> SUFFICES ASSUME NEW e \in boundEvents', e.contentHash # ZeroHash
               PROVE  platformToHash'[PlatformKey(e.platform, e.platformId)] = e.contentHash
    BY DEF EventsMatchTable
  <2>1. boundEvents' = boundEvents \cup
            {[contentHash |-> h, platform |-> p, platformId |-> i]}
    BY DEF BindPlatform
  <2>2. CASE e \in boundEvents
    <3>1. platformToHash[PlatformKey(e.platform, e.platformId)] = e.contentHash
      BY <2>2 DEF IInv, EventsMatchTable
    <3>2. PlatformKey(e.platform, e.platformId) \in Keys
      BY <2>2 DEF IInv, TypeOK, PlatformBound, Keys
    <3> QED
      BY <1>1, <3>1, <3>2 DEF IInv, TypeOK
  <2>3. CASE e = [contentHash |-> h, platform |-> p, platformId |-> i]
    BY <1>1, <2>3 DEF IInv, TypeOK, key
  <2> QED
    BY <2>1, <2>2, <2>3
<1> QED
  BY <1>3, <1>4, <1>5, <1>6 DEF IInv

\* Every step of the contract preserves the invariant.
LEMMA NextInv == IInv /\ [Next]_registryVars => IInv'
<1> SUFFICES ASSUME IInv, [Next]_registryVars PROVE IInv'
  OBVIOUS
<1>1. ASSUME NEW sender \in Accounts, NEW h \in Hashes, Transaction(sender, h)
      PROVE  IInv'
  <2>1. ASSUME NEW uri \in URIs, Register(sender, h, uri) PROVE IInv'
    BY <2>1, RegisterInv
  <2>2. ASSUME NEW uri \in URIs, UpdateManifest(sender, h, uri) PROVE IInv'
    BY <2>2, SetManifestInv DEF UpdateManifest, OnlyCreator
  <2>3. CASE Revoke(sender, h)
    BY <2>3, SetManifestInv, EmptyURIAssumption DEF Revoke, OnlyCreator
  <2>4. ASSUME NEW p \in Platforms, NEW i \in PlatformIds, BindPlatform(sender, h, p, i)
        PROVE  IInv'
    BY <2>4, BindPlatformInv
  <2> QED
    BY <1>1, <2>1, <2>2, <2>3, <2>4 DEF Transaction
<1>2. CASE Mine
  <2>1. TypeOK'
    BY <1>2, BoundsAssumption DEF Mine, IInv, TypeOK
  <2> QED
    BY <1>2, <2>1 DEF Mine, IInv, BoundIsRegistered, TablesAgree, EventsMatchTable,
                      Registered, Occurrences
<1>3. CASE UNCHANGED registryVars
  BY <1>3 DEF registryVars, IInv, TypeOK, BoundIsRegistered, TablesAgree,
              EventsMatchTable, Registered, Occurrences
<1> QED
  BY <1>1, <1>2, <1>3 DEF Next

\* Every reachable state of the contract satisfies the inductive invariant.
THEOREM Invariance == Spec => []IInv
BY InitInv, NextInv, PTL DEF Spec

-----------------------------------------------------------------------------
\* The contract's storage always has its declared shape; an entry with a
\* timestamp has an account as its creator, one without has nothing.
THEOREM TypeCorrect == Spec => []TypeOK
BY Invariance, PTL DEF IInv

\* A platform key never resolves to content that is not registered.
THEOREM BoundContentExists == Spec => []BoundIsRegistered
BY Invariance, PTL DEF IInv

\* platformToHash and the arrays of hashToPlatformKeys never disagree about
\* a content hash other than zero.
THEOREM BindingTablesAgree == Spec => []TablesAgree
BY Invariance, PTL DEF IInv

\* Replaying the PlatformBound events gives what resolveByPlatform answers,
\* for every content hash other than zero.
THEOREM EventsAgree == Spec => []EventsMatchTable
BY Invariance, PTL DEF IInv

-----------------------------------------------------------------------------
(***************************************************************************)
(* The contract implements the append-only ledger.  A registration is a    *)
(* Claim, a binding of content other than the zero word is a Link, and     *)
(* every other step leaves the mapped state alone.                         *)
(***************************************************************************)

\* A step that keeps who registered each content and when keeps the claims.
LEMMA SameClaims ==
    ASSUME \A g \in Hashes : /\ entries'[g].creator = entries[g].creator
                             /\ entries'[g].timestamp = entries[g].timestamp
    PROVE  LedgerClaims' = LedgerClaims
BY DEF LedgerClaims, Registered

\* An empty registry is an empty ledger.
LEMMA LedgerInit == Init => Ledger!Init
<1> SUFFICES ASSUME Init PROVE Ledger!Init
  OBVIOUS
<1>1. {g \in Hashes : Registered(g)} = {} /\ {j \in Keys : platformToHash[j] # ZeroHash} = {}
  BY DEF Init, Registered, NoEntry
<1> QED
  BY <1>1 DEF Ledger!Init, Ledger!Empty, LedgerClaims, LedgerLinks

\* register is a Claim.
LEMMA RegisterClaims ==
    ASSUME TypeOK, NEW sender \in Accounts, NEW h \in Hashes, NEW uri \in URIs,
           Register(sender, h, uri)
    PROVE  Ledger!Claim(sender, h)
<1> DEFINE claim == [by |-> sender, at |-> blockTime]
           new   == {g \in Hashes : entries'[g].timestamp # 0}
<1>1. /\ h \notin DOMAIN LedgerClaims
      /\ DOMAIN LedgerClaims = {g \in Hashes : Registered(g)}
      /\ LedgerLinks' = LedgerLinks
      /\ blockTime \in 1 .. MaxTime
  BY DEF Register, LedgerClaims, LedgerLinks, TypeOK
<1>2. /\ entries'[h] = [creator |-> sender, timestamp |-> blockTime, manifestURI |-> uri]
      /\ \A g \in Hashes \ {h} : entries'[g] = entries[g]
  BY DEF Register, TypeOK
<1>3. new = DOMAIN LedgerClaims \cup {h}
  BY <1>1, <1>2 DEF Registered
<1>4. LedgerClaims' = [g \in new |->
                          [by |-> entries'[g].creator, at |-> entries'[g].timestamp]]
  BY DEF LedgerClaims, Registered
<1>5. \A g \in new : [by |-> entries'[g].creator, at |-> entries'[g].timestamp]
                       = IF g = h THEN claim ELSE LedgerClaims[g]
  BY <1>1, <1>2, <1>3 DEF LedgerClaims
<1>6. LedgerClaims' = Ledger!Extend(LedgerClaims, h, claim)
  BY <1>3, <1>4, <1>5 DEF Ledger!Extend
<1> QED
  BY <1>1, <1>6 DEF Ledger!Claim

\* bindPlatform is a Link, or no change at all when the content hash is zero.
LEMMA BindPlatformLinks ==
    ASSUME TypeOK, NEW sender \in Accounts, NEW h \in Hashes,
           NEW p \in Platforms, NEW i \in PlatformIds,
           BindPlatform(sender, h, p, i)
    PROVE  \/ Ledger!Link(sender, h, PlatformKey(p, i))
           \/ UNCHANGED <<LedgerClaims, LedgerLinks>>
<1> DEFINE key == PlatformKey(p, i)
           new == {j \in Keys : platformToHash'[j] # ZeroHash}
<1>1. /\ key \in Keys
      /\ platformToHash[key] = ZeroHash
      /\ platformToHash' = [platformToHash EXCEPT ![key] = h]
      /\ platformToHash \in [Keys -> Hashes]
      /\ entries' = entries
      /\ Registered(h) /\ entries[h].creator = sender
  BY DEF BindPlatform, OnlyCreator, TypeOK, Keys
<1> HIDE DEF key
<1>2. LedgerClaims' = LedgerClaims
  BY <1>1, SameClaims
<1>3. CASE h = ZeroHash
  <2>1. platformToHash' = platformToHash
    BY <1>1, <1>3
  <2> QED
    BY <1>2, <2>1 DEF LedgerLinks
<1>4. CASE h # ZeroHash
  <2>1. key \notin DOMAIN LedgerLinks
    BY <1>1 DEF LedgerLinks
  <2>2. h \in DOMAIN LedgerClaims /\ LedgerClaims[h].by = sender
    BY <1>1 DEF LedgerClaims
  <2>3. new = DOMAIN LedgerLinks \cup {key}
    BY <1>1, <1>4 DEF LedgerLinks
  <2>4. \A j \in new : platformToHash'[j] = IF j = key THEN h ELSE LedgerLinks[j]
    BY <1>1, <2>3 DEF LedgerLinks
  <2>5. LedgerLinks' = [j \in new |-> platformToHash'[j]]
    BY DEF LedgerLinks
  <2>6. LedgerLinks' = Ledger!Extend(LedgerLinks, key, h)
    BY <2>3, <2>4, <2>5 DEF Ledger!Extend
  <2> QED
    BY <1>2, <2>1, <2>2, <2>6 DEF Ledger!Link, key
<1> QED
  BY <1>3, <1>4

\* Setting a manifest URI changes no claim and no link.
LEMMA SetManifestStutters ==
    ASSUME TypeOK, NEW h \in Hashes, NEW uri \in URIs, Registered(h),
           entries' = [entries EXCEPT ![h].manifestURI = uri],
           UNCHANGED platformToHash
    PROVE  UNCHANGED <<LedgerClaims, LedgerLinks>>
<1>1. entries[h] \in [creator : Accounts, timestamp : 1 .. MaxTime, manifestURI : URIs]
  BY EntryCases
<1>2. \A g \in Hashes : /\ entries'[g].creator = entries[g].creator
                         /\ entries'[g].timestamp = entries[g].timestamp
  BY <1>1 DEF TypeOK
<1> QED
  BY <1>2, SameClaims DEF LedgerLinks

\* Every step of the contract is a step of the ledger or leaves it alone.
LEMMA LedgerStep == TypeOK /\ [Next]_registryVars => [Ledger!Next]_<<LedgerClaims, LedgerLinks>>
<1> SUFFICES ASSUME TypeOK, [Next]_registryVars
             PROVE  Ledger!Next \/ UNCHANGED <<LedgerClaims, LedgerLinks>>
  OBVIOUS
<1>1. ASSUME NEW sender \in Accounts, NEW h \in Hashes, Transaction(sender, h)
      PROVE  Ledger!Next \/ UNCHANGED <<LedgerClaims, LedgerLinks>>
  <2>1. ASSUME NEW uri \in URIs, Register(sender, h, uri) PROVE Ledger!Next
    BY <2>1, RegisterClaims DEF Ledger!Next
  <2>2. ASSUME NEW uri \in URIs, UpdateManifest(sender, h, uri)
        PROVE  UNCHANGED <<LedgerClaims, LedgerLinks>>
    BY <2>2, SetManifestStutters DEF UpdateManifest, OnlyCreator
  <2>3. CASE Revoke(sender, h)
    BY <2>3, SetManifestStutters, EmptyURIAssumption DEF Revoke, OnlyCreator
  <2>4. ASSUME NEW p \in Platforms, NEW i \in PlatformIds, BindPlatform(sender, h, p, i)
        PROVE  Ledger!Next \/ UNCHANGED <<LedgerClaims, LedgerLinks>>
    <3>1. PlatformKey(p, i) \in Keys
      BY DEF Keys
    <3> QED
      BY <2>4, <3>1, BindPlatformLinks DEF Ledger!Next
  <2> QED
    BY <1>1, <2>1, <2>2, <2>3, <2>4 DEF Transaction
<1>2. CASE Mine
  BY <1>2 DEF Mine, LedgerClaims, LedgerLinks, Registered
<1>3. CASE UNCHANGED registryVars
  BY <1>3 DEF registryVars, LedgerClaims, LedgerLinks, Registered
<1> QED
  BY <1>1, <1>2, <1>3 DEF Next

\* The contract implements the ledger: registrations and bindings are
\* append-only, whatever its callers do.
THEOREM Refinement == Spec => ImplementsLedger
<1>1. TypeOK /\ [Next]_registryVars => [Ledger!Next]_Ledger!ledgerVars
  BY LedgerStep DEF Ledger!ledgerVars
<1> QED
  BY LedgerInit, <1>1, TypeCorrect, PTL DEF Spec, ImplementsLedger, Ledger!Spec

-----------------------------------------------------------------------------
\* Who registered a content, and when, never changes afterwards.
THEOREM ProvenanceNeverChanges == Spec => ProvenanceImmutable
<1> DEFINE Kept == \A h \in Hashes : Registered(h) =>
                      /\ entries'[h].creator = entries[h].creator
                      /\ entries'[h].timestamp = entries[h].timestamp
<1>1. TypeOK /\ [Next]_registryVars => Kept
  <2> SUFFICES ASSUME TypeOK, [Next]_registryVars, NEW h \in Hashes, Registered(h)
               PROVE  /\ entries'[h].creator = entries[h].creator
                      /\ entries'[h].timestamp = entries[h].timestamp
    OBVIOUS
  <2>1. entries[h] \in [creator : Accounts, timestamp : 1 .. MaxTime, manifestURI : URIs]
    BY EntryCases
  <2>2. ASSUME NEW sender \in Accounts, NEW g \in Hashes, Transaction(sender, g)
        PROVE  /\ entries'[h].creator = entries[h].creator
               /\ entries'[h].timestamp = entries[h].timestamp
    <3>1. CASE \E uri \in URIs : Register(sender, g, uri)
      BY <3>1 DEF Register, TypeOK
    <3>2. CASE \E uri \in URIs : UpdateManifest(sender, g, uri)
      BY <2>1, <3>2 DEF UpdateManifest, TypeOK
    <3>3. CASE Revoke(sender, g)
      BY <2>1, <3>3 DEF Revoke, TypeOK
    <3>4. CASE \E p \in Platforms, i \in PlatformIds : BindPlatform(sender, g, p, i)
      BY <3>4 DEF BindPlatform
    <3> QED
      BY <2>2, <3>1, <3>2, <3>3, <3>4 DEF Transaction
  <2> QED
    BY <2>2 DEF Next, Mine, registryVars
<1> QED
  BY <1>1, TypeCorrect, PTL DEF Spec, ProvenanceImmutable

-----------------------------------------------------------------------------
\* Platform names without a ":" make the concatenated key unambiguous: two
\* (platform, id) pairs with one key are the same pair.  The API accepts
\* only such names; the contract accepts any.
THEOREM PlatformKeyInjective ==
    ASSUME NEW Char, ":" \in Char,
           NEW p \in Seq(Char), NEW q \in Seq(Char), NEW i \in Seq(Char), NEW j \in Seq(Char),
           \A n \in 1 .. Len(p) : p[n] # ":",
           \A n \in 1 .. Len(q) : q[n] # ":",
           PlatformKey(p, i) = PlatformKey(q, j)
    PROVE  p = q /\ i = j
<1> DEFINE c == <<":">>
           s == p \o c \o i
           t == q \o c \o j
<1>1. s = t
  BY DEF PlatformKey
<1>2. c \in Seq(Char) /\ Len(c) = 1 /\ c[1] = ":"
  OBVIOUS
<1>3. /\ Len(s) = Len(p) + 1 + Len(i)
      /\ \A n \in 1 .. Len(p) : s[n] = p[n]
      /\ s[Len(p) + 1] = ":"
      /\ \A n \in 1 .. Len(i) : s[Len(p) + 1 + n] = i[n]
  BY <1>2
<1>4. /\ Len(t) = Len(q) + 1 + Len(j)
      /\ \A n \in 1 .. Len(q) : t[n] = q[n]
      /\ t[Len(q) + 1] = ":"
      /\ \A n \in 1 .. Len(j) : t[Len(q) + 1 + n] = j[n]
  BY <1>2
<1> HIDE DEF c, s, t
<1>5. Len(p) \in Nat /\ Len(q) \in Nat /\ Len(i) \in Nat /\ Len(j) \in Nat
  BY LenProperties
<1>6. Len(p) = Len(q)
  <2>1. ~(Len(p) < Len(q))
    <3> SUFFICES ASSUME Len(p) < Len(q) PROVE FALSE
      OBVIOUS
    <3>1. Len(p) + 1 \in 1 .. Len(q)
      BY <1>5
    <3> QED
      BY <1>1, <1>3, <1>4, <3>1
  <2>2. ~(Len(q) < Len(p))
    <3> SUFFICES ASSUME Len(q) < Len(p) PROVE FALSE
      OBVIOUS
    <3>1. Len(q) + 1 \in 1 .. Len(p)
      BY <1>5
    <3> QED
      BY <1>1, <1>3, <1>4, <3>1
  <2> QED
    BY <1>5, <2>1, <2>2
<1>7. p = q
  <2>1. \A n \in 1 .. Len(p) : p[n] = q[n]
    BY <1>1, <1>3, <1>4, <1>6
  <2> QED
    BY <1>6, <2>1, SeqEqual
<1>8. i = j
  <2>1. Len(i) = Len(j)
    BY <1>1, <1>3, <1>4, <1>5, <1>6
  <2>2. \A n \in 1 .. Len(i) : i[n] = j[n]
    BY <1>1, <1>3, <1>4, <1>6, <2>1
  <2> QED
    BY <2>1, <2>2, SeqEqual
<1> QED
  BY <1>7, <1>8

-----------------------------------------------------------------------------
\* While platform names are plain, what a pair resolves to is what an event
\* says of that very pair: only its own binding can have taken its key.
LEMMA ResolvesStep ==
    ASSUME NEW Char, ":" \in Char,
           Platforms \subseteq Seq(Char), PlatformIds \subseteq Seq(Char),
           \A p \in Platforms : \A n \in 1 .. Len(p) : p[n] # ":",
           TypeOK, ResolvesOnlyBoundPairs, [Next]_registryVars
    PROVE  ResolvesOnlyBoundPairs'
<1> SUFFICES ASSUME NEW p \in Platforms, NEW i \in PlatformIds,
                    platformToHash'[PlatformKey(p, i)] # ZeroHash
             PROVE  [contentHash |-> platformToHash'[PlatformKey(p, i)],
                     platform |-> p, platformId |-> i] \in boundEvents'
  BY DEF ResolvesOnlyBoundPairs, ResolveByPlatform
<1> DEFINE key == PlatformKey(p, i)
<1>1. key \in Keys
  BY DEF Keys
<1>2. platformToHash[key] # ZeroHash =>
          [contentHash |-> platformToHash[key], platform |-> p, platformId |-> i] \in boundEvents
  BY DEF ResolvesOnlyBoundPairs, ResolveByPlatform
<1>3. ASSUME UNCHANGED <<platformToHash, boundEvents>> PROVE  [contentHash |-> platformToHash'[key],
              platform |-> p, platformId |-> i] \in boundEvents'
  BY <1>2, <1>3
<1>4. ASSUME NEW sender \in Accounts, NEW h \in Hashes,
             NEW q \in Platforms, NEW j \in PlatformIds, BindPlatform(sender, h, q, j)
      PROVE  [contentHash |-> platformToHash'[key],
              platform |-> p, platformId |-> i] \in boundEvents'
  <2> HIDE DEF key
  <2>1. /\ platformToHash' = [platformToHash EXCEPT ![PlatformKey(q, j)] = h]
        /\ boundEvents' = boundEvents \cup {[contentHash |-> h, platform |-> q, platformId |-> j]}
    BY <1>4 DEF BindPlatform
  <2>2. CASE key = PlatformKey(q, j)
    <3>1. p = q /\ i = j
      BY <2>2, PlatformKeyInjective DEF key
    <3> QED
      BY <1>1, <2>1, <2>2, <3>1 DEF TypeOK, key
  <2>3. CASE key # PlatformKey(q, j)
    BY <1>1, <1>2, <2>1, <2>3 DEF TypeOK, key
  <2> QED
    BY <2>2, <2>3
<1> QED
  BY <1>3, <1>4 DEF Next, Transaction, Register, UpdateManifest, Revoke, Mine, registryVars

\* With platform names that hold no ":", as the API accepts them, a pair
\* resolves only to content it was itself bound to, never to what was bound
\* to another pair with the same concatenation.
THEOREM OnlyBoundPairsResolve ==
    ASSUME NEW Char, ":" \in Char,
           Platforms \subseteq Seq(Char), PlatformIds \subseteq Seq(Char),
           \A p \in Platforms : \A n \in 1 .. Len(p) : p[n] # ":"
    PROVE  Spec => []ResolvesOnlyBoundPairs
<1>1. Init => ResolvesOnlyBoundPairs
  BY DEF Init, ResolvesOnlyBoundPairs, ResolveByPlatform, Keys
<1>2. TypeOK /\ ResolvesOnlyBoundPairs /\ [Next]_registryVars => ResolvesOnlyBoundPairs'
  BY ResolvesStep
<1> QED
  BY <1>1, <1>2, TypeCorrect, PTL DEF Spec

-------------------------------------------------------------------------------
(*****************************************************************************)
(* The proxy.  That upgrades are invisible comes first: a step of the proxy  *)
(* is one of the contract or leaves its storage alone.  With it every        *)
(* theorem about the contract holds of the proxy, the invariant of its       *)
(* storage among them, and only what the proxy adds is left to prove.        *)
(*****************************************************************************)

\* V2's registerV2 is V1's register as far as the registry is concerned.
LEMMA RegisterV2Registers ==
    ASSUME NEW sender \in Accounts, NEW h \in Hashes, NEW uri \in URIs,
           RegisterV2(sender, h, uri)
    PROVE  Next
BY DEF RegisterV2, Next, Transaction

\* A step of the proxy is a step of the contract or none.
LEMMA ProxyStep == [ProxyNext]_vars => [Next]_registryVars
<1> SUFFICES ASSUME [ProxyNext]_vars PROVE Next \/ UNCHANGED registryVars
  OBVIOUS
<1>1. ASSUME NEW sender \in Accounts, NEW h \in Hashes, Inherited(sender, h) PROVE Next
  BY <1>1 DEF Inherited, Next
<1>2. ASSUME NEW sender \in Accounts, NEW h \in Hashes, NEW uri \in URIs,
             RegisterV2(sender, h, uri)
      PROVE  Next
  BY <1>2, RegisterV2Registers
<1>3. ASSUME NEW sender \in Accounts,
             \/ \E new \in {"V1", "V2"} : Upgrade(sender, new)
             \/ \E newOwner \in Accounts : TransferOwnership(sender, newOwner)
             \/ RenounceOwnership(sender)
      PROVE  UNCHANGED registryVars
  BY <1>3 DEF Upgrade, TransferOwnership, RenounceOwnership
<1>4. CASE Mine /\ UNCHANGED proxyVars
  BY <1>4 DEF Next
<1>5. CASE UNCHANGED vars
  BY <1>5 DEF vars
<1> QED
  BY <1>1, <1>2, <1>3, <1>4, <1>5 DEF ProxyNext

\* Whatever is upgraded, downgraded or handed over, and when: the proxy is a
\* ContentRegistry that was never replaced.
THEOREM UpgradesInvisible == ProxySpec => UpgradeTransparent
<1>1. ProxyInit => Init
  BY DEF ProxyInit
<1> QED
  BY <1>1, ProxyStep, PTL DEF ProxySpec, UpgradeTransparent, Spec

\* So its storage satisfies the contract's inductive invariant.
LEMMA ProxyInvariance == ProxySpec => []IInv
BY UpgradesInvisible, Invariance, PTL DEF UpgradeTransparent

-----------------------------------------------------------------------------
\* The variables the proxy adds keep their types.
Added ==
    /\ implementation \in {"V1", "V2"}
    /\ owner \in Accounts \cup {ZeroAccount}
    /\ totalRegistrations \in Nat

\* Every step keeps what the proxy adds.
LEMMA AddedStep == Added /\ [ProxyNext]_vars => Added'
<1> SUFFICES ASSUME Added, [ProxyNext]_vars PROVE Added'
  OBVIOUS
<1>1. ASSUME NEW sender \in Accounts, NEW h \in Hashes, NEW uri \in URIs,
             RegisterV2(sender, h, uri)
      PROVE  Added'
  BY <1>1 DEF RegisterV2, Added
<1>2. ASSUME NEW sender \in Accounts,
             \/ \E new \in {"V1", "V2"} : Upgrade(sender, new)
             \/ \E newOwner \in Accounts : TransferOwnership(sender, newOwner)
             \/ RenounceOwnership(sender)
      PROVE  Added'
  BY <1>2 DEF Upgrade, TransferOwnership, RenounceOwnership, Added
<1>3. CASE UNCHANGED proxyVars
  BY <1>3 DEF proxyVars, Added
<1> QED
  BY <1>1, <1>2, <1>3 DEF ProxyNext, Inherited, vars, proxyVars

\* The proxy's storage keeps its shape through upgrades in either direction.
THEOREM ProxyTypeCorrect == ProxySpec => []ProxyTypeOK
<1>1. ProxyInit => Added
  BY DeployerAssumption DEF ProxyInit, Added
<1>2. IInv /\ Added => ProxyTypeOK
  BY DEF IInv, Added, ProxyTypeOK
<1> QED
  BY <1>1, <1>2, AddedStep, ProxyInvariance, PTL DEF ProxySpec

-----------------------------------------------------------------------------
\* Once ownership is renounced neither the code nor the owner changes again:
\* no account is the zero address, and only the owner's transactions do.
THEOREM RenouncedIsFinal == ProxySpec => RenouncedForever
<1>1. [ProxyNext]_vars => (owner = ZeroAccount => UNCHANGED <<implementation, owner>>)
  <2> SUFFICES ASSUME [ProxyNext]_vars, owner = ZeroAccount
               PROVE  UNCHANGED <<implementation, owner>>
    OBVIOUS
  <2>1. ASSUME NEW sender \in Accounts
        PROVE  /\ \A new \in {"V1", "V2"} : ~Upgrade(sender, new)
               /\ \A newOwner \in Accounts : ~TransferOwnership(sender, newOwner)
               /\ ~RenounceOwnership(sender)
    BY ZeroAccountAssumption DEF Upgrade, TransferOwnership, RenounceOwnership
  <2> QED
    BY <2>1 DEF ProxyNext, Inherited, RegisterV2, vars, proxyVars
<1> QED
  BY <1>1, PTL DEF ProxySpec, RenouncedForever

-----------------------------------------------------------------------------
\* The contents counted.
RegisteredHashes == {h \in Hashes : Registered(h)}

\* A transaction takes no content from the registered ones.
LEMMA RegisteredGrow == IInv /\ [Next]_registryVars => RegisteredHashes \subseteq RegisteredHashes'
<1> SUFFICES ASSUME IInv, [Next]_registryVars, NEW h \in Hashes, Registered(h)
             PROVE  Registered(h)'
  BY DEF RegisteredHashes
<1>1. ASSUME NEW sender \in Accounts, NEW g \in Hashes, Transaction(sender, g)
      PROVE  Registered(h)'
  <2>1. CASE \E uri \in URIs : Register(sender, g, uri)
    BY <2>1 DEF Register, Registered, IInv, TypeOK
  <2>2. entries[h] \in [creator : Accounts, timestamp : 1 .. MaxTime, manifestURI : URIs]
    BY EntryCases DEF IInv
  <2>3. CASE \E uri \in URIs : UpdateManifest(sender, g, uri)
    BY <2>2, <2>3 DEF UpdateManifest, Registered, IInv, TypeOK
  <2>4. CASE Revoke(sender, g)
    BY <2>2, <2>4 DEF Revoke, Registered, IInv, TypeOK
  <2>5. CASE \E p \in Platforms, i \in PlatformIds : BindPlatform(sender, g, p, i)
    BY <2>5 DEF BindPlatform, Registered
  <2> QED
    BY <1>1, <2>1, <2>3, <2>4, <2>5 DEF Transaction
<1>2. CASE Mine \/ UNCHANGED registryVars
  BY <1>2 DEF Mine, registryVars, Registered
<1> QED
  BY <1>1, <1>2 DEF Next

\* register adds one content to them.
LEMMA RegisterCounts ==
    ASSUME IInv, IsFiniteSet(Hashes),
           NEW sender \in Accounts, NEW h \in Hashes, NEW uri \in URIs, Register(sender, h, uri)
    PROVE  Cardinality(RegisteredHashes') = Cardinality(RegisteredHashes) + 1
<1>1. /\ entries' = [entries EXCEPT ![h] = [creator |-> sender, timestamp |-> blockTime, manifestURI |-> uri]]
      /\ entries \in [Hashes -> Entry] /\ blockTime # 0 /\ ~Registered(h)
  BY DEF Register, IInv, TypeOK
<1>2. RegisteredHashes' = RegisteredHashes \cup {h} /\ h \notin RegisteredHashes
  BY <1>1 DEF RegisteredHashes, Registered
<1>3. IsFiniteSet(RegisteredHashes)
  BY FS_Subset DEF RegisteredHashes
<1> QED
  BY <1>2, <1>3, FS_AddElement

\* V2's counter never exceeds the contents registered, across downgrades and
\* repeated upgrades: each of its units is a content no one can register again.
THEOREM CounterNeverAhead ==
    ASSUME IsFiniteSet(Hashes)
    PROVE  ProxySpec => []CounterBounded
<1>1. ProxyInit => CounterBounded
  <2>1. IsFiniteSet(RegisteredHashes)
    BY FS_Subset DEF RegisteredHashes
  <2>2. Cardinality(RegisteredHashes) \in Nat
    BY <2>1, FS_CardinalityType
  <2> QED
    BY <2>2 DEF ProxyInit, CounterBounded, RegisteredHashes
<1>2. CounterBounded /\ IInv /\ IInv' /\ Added /\ [ProxyNext]_vars => CounterBounded'
  <2> SUFFICES ASSUME CounterBounded, IInv, Added, [ProxyNext]_vars
               PROVE  CounterBounded'
    OBVIOUS
  <2>1. /\ IsFiniteSet(RegisteredHashes) /\ IsFiniteSet(RegisteredHashes')
    BY FS_Subset DEF RegisteredHashes
  <2>2. Cardinality(RegisteredHashes) \in Nat /\ Cardinality(RegisteredHashes') \in Nat
    BY <2>1, FS_CardinalityType
  <2>3. Cardinality(RegisteredHashes) <= Cardinality(RegisteredHashes')
    BY <2>1, ProxyStep, RegisteredGrow, FS_Subset
  <2>4. ASSUME NEW sender \in Accounts, NEW h \in Hashes, NEW uri \in URIs,
               RegisterV2(sender, h, uri)
        PROVE  CounterBounded'
    BY <2>2, <2>4, RegisterCounts DEF RegisterV2, CounterBounded, RegisteredHashes, Added
  <2>5. CASE UNCHANGED totalRegistrations
    BY <2>2, <2>3, <2>5 DEF CounterBounded, RegisteredHashes, Added
  <2> QED
    BY <2>4, <2>5 DEF ProxyNext, Inherited, Upgrade, TransferOwnership, RenounceOwnership,
                      vars, proxyVars
<1>3. ProxyInit => Added
  BY DeployerAssumption DEF ProxyInit, Added
<1> QED
  BY <1>1, <1>2, <1>3, AddedStep, ProxyInvariance, PTL DEF ProxySpec
===============================================================================
