---------------------------- MODULE StorageProofs -----------------------------
(*****************************************************************************)
(* Theorems about what reads and writes the stores around the registry: the  *)
(* uploads to IPFS, the lookups of posts and the database backups.           *)
(*****************************************************************************)
EXTENDS IpfsUpload, Lookups, BackupRotation, SequenceTheorems, FiniteSetTheorems, TLAPS

-------------------------------------------------------------------------------
(*****************************************************************************)
(* Uploads to IPFS, for any providers and any order of fallbacks.            *)
(*****************************************************************************)

\* Who failed is in the list of errors, once more after each failure.
LEMMA FailTries ==
    ASSUME failed \in Seq(Providers), provider \in Providers, Fail
    PROVE  failed' \in Seq(Providers) /\ Tried' = Tried \cup {provider}
<1>1. /\ failed' \in Seq(Providers)
      /\ Len(failed') = Len(failed) + 1
      /\ \A n \in 1 .. Len(failed) : failed'[n] = failed[n]
      /\ failed'[Len(failed) + 1] = provider
  BY AppendProperties DEF Fail
<1>2. DOMAIN failed = 1 .. Len(failed) /\ DOMAIN failed' = 1 .. Len(failed) + 1 /\ Len(failed) \in Nat
  BY <1>1, LenProperties
<1> QED
  BY <1>1, <1>2 DEF Tried

\* A provider before which every usable one has failed.
Reached(p) ==
    IF upload.force # "none" THEN p = upload.force
    ELSE \A n, l \in DOMAIN Order : Usable(Order[n]) /\ l > n /\ Order[l] = p => Order[n] \in Tried

\* A provider is being asked; the answer tells of a stored upload.
Asking == at \in {"preflight", "post"}
Stored == answer = "ok" /\ upload.route # "manifestOnly"

\* One provider is asked at a time, in its turn; the posts to it are its
\* attempts; copies are at most the responses that did not tell, and the one
\* that is the answer.
UploadIInv ==
    /\ UploadTypeOK
    /\ at \notin {"start", "done"} => upload # NoUpload /\ upload.route # "manifestOnly"
    /\ upload # NoUpload => upload \in Upload
    /\ Asking => provider \in Providers \ Tried /\ Reached(provider) /\ posts[provider] = attempt
    /\ at = "preflight" => attempt = 0
    /\ \A p \in Providers : posts[p] > 0 => Reached(p) /\ (p \in Tried \/ p = provider)
    /\ at \in {"start", "write", "choose", "preflight", "post"} => answer = "none"
    /\ at \in {"start", "write"} => temp = "none"
    /\ at \in {"start", "write", "choose"} => provider = "none"
    /\ CidIsStored /\ GivenUpLast /\ FileOutlivesPosts
    /\ copies <= missed \/ (Stored /\ copies <= missed + 1)

-----------------------------------------------------------------------------
\* What was reached stays so while the errors only grow.
LEMMA ReachedStays ==
    ASSUME upload' = upload, Tried \subseteq Tried', NEW p, Reached(p)
    PROVE  Reached(p)'
BY DEF Reached, Usable, Has

\* The configured provider that is chosen is one reached.
LEMMA FirstIsReached ==
    ASSUME upload.force = "none", NEW n \in Rest, First(n)
    PROVE  Order[n] \in Providers \ Tried /\ Reached(Order[n])
<1>1. /\ DOMAIN Order = 1 .. 4
      /\ Order[1] = "web3storage" /\ Order[2] = "pinata" /\ Order[3] = "infura" /\ Order[4] = "local"
  BY DEF Order
<1>2. n \in 1 .. 4 /\ Order[n] \notin Tried
  BY <1>1 DEF Rest
<1>3. Order[n] \in Providers
  BY <1>1, <1>2 DEF Providers
<1>4. ASSUME NEW k \in 1 .. 4, NEW l \in 1 .. 4, Usable(Order[k]), l > k, Order[l] = Order[n]
      PROVE  Order[k] \in Tried
  <2>1. l = n
    BY <1>1, <1>2, <1>4
  <2>2. ~(n <= k)
    BY <1>2, <1>4, <2>1
  <2>3. k \notin Rest
    BY <2>2 DEF First
  <2> QED BY <1>1, <1>4, <2>3 DEF Rest
<1> QED
  BY <1>1, <1>2, <1>3, <1>4 DEF Reached

\* The routes' own steps ask nobody.
LEMMA RoutesInv ==
    ASSUME UploadIInv, Sign \/ tmpWrite \/ cleanupTmpFile \/ Stops \/ UploadRest
    PROVE  UploadIInv'
<1>1. /\ UNCHANGED <<upload, provider, attempt, failed, posts, stored, copies, missed>>
      /\ UNCHANGED Tried /\ \A p : Reached(p)' <=> Reached(p)
  BY DEF Sign, tmpWrite, cleanupTmpFile, Stops, UploadRest, uploading, Outside, Reached, Usable, Has, Tried
<1>2. UploadTypeOK'
  BY <1>1 DEF UploadIInv, UploadTypeOK, Sign, tmpWrite, cleanupTmpFile, Stops, UploadRest, uploading, Upload, NoUpload
<1>3. CASE Sign
  BY <1>1, <1>2, <1>3 DEF UploadIInv, UploadTypeOK, Sign, Asking, Stored, CidIsStored, GivenUpLast, FileOutlivesPosts, Upload, NoUpload
<1>4. CASE tmpWrite
  BY <1>1, <1>2, <1>4 DEF UploadIInv, UploadTypeOK, tmpWrite, Asking, Stored, CidIsStored, GivenUpLast, FileOutlivesPosts, Upload, NoUpload
<1>5. CASE cleanupTmpFile
  BY <1>1, <1>2, <1>5 DEF UploadIInv, UploadTypeOK, cleanupTmpFile, Asking, Stored, CidIsStored, GivenUpLast, FileOutlivesPosts
<1>6. CASE Stops
  BY <1>1, <1>2, <1>6 DEF UploadIInv, UploadTypeOK, Stops, Asking, Stored, CidIsStored, GivenUpLast, FileOutlivesPosts
<1>7. CASE UploadRest
  BY <1>1, <1>2, <1>7 DEF UploadIInv, UploadTypeOK, UploadRest, uploading, Asking, Stored, CidIsStored, GivenUpLast, FileOutlivesPosts, Usable, Has
<1> QED
  BY <1>3, <1>4, <1>5, <1>6, <1>7

\* A provider that has not failed has not been sent anything when its turn comes.
LEMMA ChooseInv ==
    ASSUME UploadIInv, Choose
    PROVE  UploadIInv'
<1>1. /\ UNCHANGED <<upload, failed, posts, stored, copies, missed, temp>>
      /\ UNCHANGED Tried /\ \A p : Reached(p)' <=> Reached(p)
      /\ at = "choose" /\ upload \in Upload /\ provider = "none" /\ answer = "none"
      /\ \A p : Usable(p)' <=> Usable(p)
  BY DEF Choose, Outside, Ask, GiveUp, Reached, Usable, Has, Tried, UploadIInv
<1>2. ASSUME NEW p \in Providers \ Tried, Reached(p), Ask(p)
      PROVE  UploadIInv'
  <2>1. posts[p] = 0
    BY <1>1, <1>2 DEF UploadIInv, UploadTypeOK, Providers
  <2>2. UploadTypeOK'
    BY <1>1, <1>2 DEF UploadIInv, UploadTypeOK, Ask, Retries
  <2>3. \A q \in Providers : posts[q] > 0 => Reached(q) /\ q \in Tried
    BY <1>1 DEF UploadIInv, Providers
  <2>4. at' \in {"preflight", "post"} /\ attempt' = 0 /\ provider' = p /\ answer' = "none"
    BY <1>1, <1>2 DEF Ask
  <2>5. upload.route # "manifestOnly" /\ upload # NoUpload
    BY <1>1 DEF UploadIInv
  <2>6. copies <= missed
    BY <1>1 DEF UploadIInv, Stored
  <2> QED
    BY <1>1, <1>2, <2>1, <2>2, <2>3, <2>4, <2>5, <2>6
       DEF UploadIInv, Asking, Stored, CidIsStored, GivenUpLast, FileOutlivesPosts
<1>3. ASSUME GiveUp, upload.force = "none" => Rest = {}
      PROVE  UploadIInv'
  <2>1. UploadTypeOK'
    BY <1>1, <1>3 DEF UploadIInv, UploadTypeOK, GiveUp
  <2>2. upload.force = "none" => \A p \in Providers : Usable(p) => p \in Tried
    <3>1. \A p \in Providers : \E n \in DOMAIN Order : Order[n] = p
      BY DEF Order, Providers
    <3> QED BY <1>3, <3>1 DEF Rest
  <2> QED BY <1>1, <1>3, <2>1, <2>2 DEF UploadIInv, GiveUp, Asking, Stored, CidIsStored, GivenUpLast, FileOutlivesPosts
<1>4. ASSUME upload.force = "none", NEW n \in Rest, First(n), Ask(Order[n])
      PROVE  UploadIInv'
  BY <1>2, <1>4, FirstIsReached
<1>5. ASSUME upload.force \in Providers \ Tried, Ask(upload.force)
      PROVE  UploadIInv'
  BY <1>2, <1>5 DEF Reached, Providers
<1>6. ASSUME upload.force \in Tried \cup {"unknown"}, GiveUp
      PROVE  UploadIInv'
  <2>1. Tried \subseteq Providers
    BY LenProperties, ElementOfSeq DEF UploadIInv, UploadTypeOK, Tried
  <2> QED BY <1>3, <1>6, <2>1 DEF Providers
<1> QED
  BY <1>1, <1>3, <1>4, <1>5, <1>6 DEF Choose

\* Copies that come with as many misses stay within them.
LEMMA StillCovered ==
    ASSUME NEW c \in Nat, NEW m \in Nat, NEW d \in Nat, NEW n \in 0 .. d,
           d + m <= n + c, c <= m
    PROVE  d <= n
OBVIOUS

\* An attempt that fails for good puts the provider among those that failed.
LEMMA FailInv ==
    ASSUME UploadIInv, Asking, Fail, UNCHANGED <<upload, temp>>,
           posts' \in [Providers -> 0 .. Retries + 1],
           \A p \in Providers \ {provider} : posts'[p] = posts[p],
           stored \subseteq stored', stored' \subseteq Providers,
           copies' \in Nat, missed' \in 0 .. copies', copies' + missed <= missed' + copies
    PROVE  UploadIInv'
<1>1. /\ failed' \in Seq(Providers) /\ Tried' = Tried \cup {provider}
      /\ provider \in Providers
  BY FailTries DEF UploadIInv, UploadTypeOK
<1>2. \A p : Reached(p) => Reached(p)'
  BY <1>1, ReachedStays
<1>3. UploadTypeOK'
  BY <1>1 DEF UploadIInv, UploadTypeOK, Fail
<1>4. upload \in Upload /\ answer = "none" /\ copies <= missed
  BY DEF UploadIInv, Asking, Stored
<1>5. copies' <= missed'
  <2>1. copies \in Nat /\ missed \in Nat
    BY DEF UploadIInv, UploadTypeOK
  <2> QED BY <1>4, <2>1, StillCovered
<1>6. \A p \in Providers : posts'[p] > 0 => Reached(p)' /\ p \in Tried'
  BY <1>1, <1>2 DEF UploadIInv
<1> QED
  BY <1>1, <1>3, <1>4, <1>5, <1>6 DEF UploadIInv, Fail, Asking, Stored, CidIsStored, GivenUpLast, FileOutlivesPosts

\* What sending the file changes.
LEMMA PostEffect ==
    ASSUME UploadIInv, NEW outcome, Post(outcome)
    PROVE  /\ Asking /\ UNCHANGED <<upload, temp>>
           /\ posts' \in [Providers -> 0 .. Retries + 1]
           /\ posts'[provider] = attempt + 1
           /\ \A p \in Providers \ {provider} : posts'[p] = posts[p]
           /\ stored \subseteq stored' /\ stored' \subseteq Providers
           /\ copies' \in Nat /\ missed' \in 0 .. copies'
           /\ outcome # "cid" => copies' + missed <= missed' + copies
           /\ outcome = "cid" => provider \in stored' /\ copies' = copies + 1 /\ missed' = missed
<1>1. Asking /\ provider \in Providers /\ posts[provider] = attempt /\ attempt \in 0 .. 2
  BY DEF UploadIInv, UploadTypeOK, Post, Asking, Retries
<1>2. /\ posts' \in [Providers -> 0 .. Retries + 1]
      /\ posts'[provider] = attempt + 1
      /\ \A p \in Providers \ {provider} : posts'[p] = posts[p]
  BY <1>1 DEF UploadIInv, UploadTypeOK, Post, Retries
<1> QED
  BY <1>1, <1>2 DEF UploadIInv, UploadTypeOK, Post

\* A stored file whose CID is the answer is the one copy no response missed.
LEMMA SucceedInv ==
    ASSUME UploadIInv, NEW outcome, NEW what, Post(outcome), Succeed(what),
           \/ outcome = "cid" /\ what = "ok"
           \/ outcome = "odd" /\ what = "undefined"
    PROVE  UploadIInv'
<1>1. /\ UNCHANGED <<upload, failed, provider, attempt, temp>>
      /\ UNCHANGED Tried /\ \A p : Reached(p)' <=> Reached(p)
  BY DEF Post, Succeed, Reached, Usable, Has, Tried
<1>2. /\ Asking /\ upload \in Upload /\ answer = "none" /\ copies <= missed
      /\ provider \in Providers /\ Reached(provider)
  BY PostEffect DEF UploadIInv, Asking, Stored
<1>3. UploadTypeOK'
  BY <1>1, PostEffect DEF UploadIInv, UploadTypeOK, Succeed
<1>4. copies' <= missed' \/ (what = "ok" /\ copies' <= missed' + 1)
  <2>1. copies \in Nat /\ missed \in Nat
    BY DEF UploadIInv, UploadTypeOK
  <2> QED BY <1>2, <2>1, PostEffect
<1>5. upload.route # "manifestOnly"
  BY <1>2 DEF UploadIInv, Asking
<1> QED
  BY <1>1, <1>2, <1>3, <1>4, <1>5, PostEffect
     DEF UploadIInv, Succeed, Asking, Stored, CidIsStored, GivenUpLast, FileOutlivesPosts

\* What is asked of a provider keeps the invariant.
LEMMA ProvidersInv ==
    ASSUME UploadIInv, Unconfigured \/ preflightInfura \/ uploaded \/ cidMissing \/ postWithRetry \/ postFails
    PROVE  UploadIInv'
<1>1. ASSUME Outside, UNCHANGED <<upload, temp>>, Asking, Fail PROVE UploadIInv'
  BY <1>1, FailInv DEF UploadIInv, UploadTypeOK, Outside
<1>2. ASSUME NEW outcome, Post(outcome), outcome # "cid", Fail PROVE UploadIInv'
  BY <1>2, FailInv, PostEffect
<1>3. CASE Unconfigured
  BY <1>1, <1>3 DEF Unconfigured, Asking
<1>4. CASE preflightInfura
  <2>1. CASE at' = "post" /\ UNCHANGED <<provider, attempt, failed, answer>>
    <3>1. UNCHANGED <<upload, temp, posts, stored, copies, missed, provider, attempt, failed, answer>> /\ UNCHANGED Tried
      BY <1>4, <2>1 DEF preflightInfura, Outside, Tried
    <3>2. \A p : (Reached(p)' <=> Reached(p))
      BY <3>1 DEF Reached, Usable, Has
    <3> QED
      BY <1>4, <2>1, <3>1, <3>2 DEF preflightInfura, UploadIInv, UploadTypeOK, Asking, Stored, CidIsStored, GivenUpLast, FileOutlivesPosts
  <2> QED BY <1>1, <1>4, <2>1 DEF preflightInfura, Asking
<1>5. CASE uploaded
  BY <1>5, SucceedInv DEF uploaded
<1>6. CASE cidMissing
  BY <1>2, <1>6, SucceedInv DEF cidMissing
<1>7. CASE postWithRetry
  <2>1. CASE ~(attempt < Retries)
    BY <1>2, <1>7, <2>1 DEF postWithRetry
  <2>2. CASE attempt < Retries
    <3>1. UNCHANGED <<upload, temp, at, provider, failed, answer>> /\ attempt' = attempt + 1 /\ UNCHANGED Tried
      BY <1>7, <2>2 DEF postWithRetry, Post, Tried
    <3>2. \A p : Reached(p)' <=> Reached(p)
      BY <3>1 DEF Reached, Usable, Has
    <3>3. Post("busy")
      BY <1>7 DEF postWithRetry
    <3>4. UploadTypeOK'
      BY <2>2, <3>1, <3>3, PostEffect DEF UploadIInv, UploadTypeOK, Retries
    <3>5. copies <= missed /\ answer = "none" /\ at = "post"
      BY <3>3, PostEffect DEF UploadIInv, Asking, Stored, Post
    <3>6. copies' <= missed'
      <4>1. copies \in Nat /\ missed \in Nat
        BY DEF UploadIInv, UploadTypeOK
      <4> QED BY <3>3, <3>5, <4>1, PostEffect
    <3> QED
      BY <3>1, <3>2, <3>3, <3>4, <3>5, <3>6, PostEffect
         DEF UploadIInv, Asking, Stored, CidIsStored, GivenUpLast, FileOutlivesPosts
  <2> QED BY <2>1, <2>2
<1>8. CASE postFails
  BY <1>2, <1>8 DEF postFails
<1> QED
  BY <1>3, <1>4, <1>5, <1>6, <1>7, <1>8

\* What the invariant says of the properties.
LEMMA UploadImplies == UploadIInv => UploadInv
<1> SUFFICES ASSUME UploadIInv PROVE UploadInv
  OBVIOUS
<1>1. CopiesNeedMisses
  BY DEF UploadIInv, UploadTypeOK, CopiesNeedMisses
<1>2. InOrder
  <2> SUFFICES ASSUME NEW p \in Providers, posts[p] > 0
               PROVE  IF upload.force # "none" THEN p = upload.force
                      ELSE \A n \in DOMAIN Order :
                               Usable(Order[n]) /\ (\E l \in DOMAIN Order : l > n /\ Order[l] = p)
                                   => Order[n] \in Tried
    BY DEF InOrder
  <2>1. Reached(p)
    BY DEF UploadIInv
  <2> QED BY <2>1 DEF Reached
<1> QED
  BY <1>1, <1>2 DEF UploadIInv, UploadInv

\* Whatever the providers answer, and wherever the API stops: the providers
\* are asked in their order, the upload is given up last, a CID is one of a
\* stored file, and every copy but one is of a response that did not tell.
THEOREM UploadsKeepOrder == UploadSpec => []UploadInv
<1>1. UploadInit => UploadIInv
  <2> SUFFICES ASSUME UploadInit PROVE UploadIInv
    OBVIOUS
  <2>1. UploadTypeOK
    <3>1. failed \in Seq(Providers)
      BY EmptySeq DEF UploadInit
    <3>2. posts \in [Providers -> 0 .. Retries + 1]
      BY DEF UploadInit, Retries
    <3>3. upload \in Upload \cup {NoUpload}
      BY UploadAssumption DEF UploadInit
    <3>4. copies \in Nat /\ missed \in 0 .. copies /\ attempt \in 0 .. Retries
      BY DEF UploadInit, Retries
    <3> QED BY <3>1, <3>2, <3>3, <3>4 DEF UploadInit, UploadTypeOK
  <2>2. upload \in Upload \cup {NoUpload} /\ \A p \in Providers : ~(posts[p] > 0)
    BY <2>1 DEF UploadInit, UploadTypeOK
  <2>3. copies <= missed
    BY DEF UploadInit
  <2> QED BY <2>1, <2>2, <2>3 DEF UploadInit, UploadIInv, Asking, Stored, CidIsStored, GivenUpLast, FileOutlivesPosts
<1>2. UploadIInv /\ [UploadNext]_uploading => UploadIInv'
  <2> SUFFICES ASSUME UploadIInv, [UploadNext]_uploading PROVE UploadIInv'
    OBVIOUS
  <2>1. CASE UNCHANGED uploading
    <3>1. UNCHANGED Tried /\ \A p : Reached(p)' <=> Reached(p)
      BY <2>1 DEF uploading, Reached, Usable, Has, Tried
    <3> QED BY <2>1, <3>1 DEF uploading, UploadIInv, UploadTypeOK, Asking, Stored, CidIsStored, GivenUpLast, FileOutlivesPosts, Usable, Has
  <2> QED BY <2>1, RoutesInv, ChooseInv, ProvidersInv DEF UploadNext
<1> QED
  BY <1>1, <1>2, UploadImplies, PTL DEF UploadSpec

-------------------------------------------------------------------------------
(*****************************************************************************)
(* Lookups of posts, for any clients and any numbers of chains and posts.    *)
(*****************************************************************************)

\* What the cache and what is on the way to it hold, was so on the first chain.
LookDataOK ==
    /\ about \in Case
    /\ entry \in [Chains -> [Posts -> Entries]]
    /\ was \in [Chains -> [Posts -> SUBSET Entries]]
    /\ entries \in [Posts -> Entries \cup {Nowhere}]
    /\ manifests \in [1 .. Manifests -> 1 .. Manifests \cup {Nowhere}]
    /\ \A c \in Chains, p \in Posts : entry[c][p] \in was[c][p]
    /\ \A p \in Posts : entries[p] \in was[1][p] \cup {Nowhere}
    /\ \A n \in 1 .. Manifests : manifests[n] \in {n, Nowhere}

\* A fill under way carries what its source has held.
FillsOK ==
    \A f \in fills :
        /\ f \in [of : {"entry", "manifest"}, slot : Nat, value : Entries]
        /\ f.of = "entry" => f.slot \in Posts /\ f.value \in was[1][f.slot]
        /\ f.of = "manifest" => f.slot \in 1 .. Manifests /\ f.value = f.slot

\* A lookup that found, one that did not, and one that is past chain c.
Found(l) == l.pc = "done" /\ l.answer = "found"
Absent(l) == l.pc = "done" /\ l.answer = "absent"
Passed(l, c) == l.began[c] > 0 => c \in l.silent

\* What a request under way has seen; of the chains before the one it asks
\* those that had the post were silent.
Seen(l) ==
    /\ l \in Look
    /\ l.post \in Posts /\ l.chain \in Chains /\ l.began \in [Chains -> Entries]
    /\ \A c \in Chains : l.began[c] > 0 => entry[c][l.post] > 0
    /\ l.pc \in {"manifest", "fetch"} \/ Found(l) => l.entry \in was[l.chain][l.post]
    /\ l.pc \in {"manifest", "fetch"} => l.entry # 0
    /\ l.pc # "done" => l.manifest = Nowhere
    /\ l.manifest \in {l.entry, Nowhere}
    /\ IF l.kind \in OverAllChains
       THEN /\ l.pc \in {"chain", "done"}
            /\ l.pc = "chain" \/ Found(l) => \A c \in 1 .. l.chain - 1 : Passed(l, c)
            /\ Absent(l) => \A c \in Chains : Passed(l, c)
       ELSE l.chain = 1 /\ (Absent(l) => 0 \in was[1][l.post])

\* The inductive invariant: what is stored has been posted, and every lookup has
\* seen what it says.
LookIInv ==
    /\ LookDataOK
    /\ FillsOK
    /\ look \in [Clients -> Look \cup {NoLook}]
    /\ \A r \in Clients : look[r] = NoLook \/ Seen(look[r])

-----------------------------------------------------------------------------
\* How entries are coded.
LEMMA Codes ==
    /\ 0 \in Entries /\ Revoked \in Entries /\ Nowhere \notin Entries
    /\ 1 .. Manifests \subseteq Entries /\ Nowhere \notin 1 .. Manifests
    /\ \A e \in Entries : e # 0 => e > 0
    /\ \A e \in Entries : e # 0 /\ e # Revoked => e \in 1 .. Manifests
    /\ Entries \subseteq Nat /\ 1 .. Manifests \subseteq Nat
BY LookupAssumption DEF Entries, Revoked, Nowhere

\* A bound used up changes neither the chains nor the posts.
LEMMA TakeKeeps ==
    ASSUME about \in Case, NEW what \in {"requests", "changes", "failures"}, Take(what)
    PROVE  /\ about' \in Case /\ Chains' = Chains /\ Posts' = Posts
           /\ about'.chains = about.chains /\ about'.kinds = about.kinds
BY DEF Take, Case, Chains, Posts

\* The API's chain is the first one.
LEMMA ChainsOK ==
    ASSUME about \in Case
    PROVE  1 \in Chains /\ Chains \subseteq Nat /\ Posts \subseteq Nat /\ Chains = 1 .. about.chains
BY DEF Case, Chains, Posts

\* A step that asks of the outside world what it is keeps what has been fixed of it.
KeepsCase == about' \in Case /\ Chains' = Chains /\ Posts' = Posts

\* A request has seen what it has while bindings are added only.
LEMMA SeenStays ==
    ASSUME KeepsCase, about \in Case, NEW l, Seen(l),
           \A c \in Chains, p \in Posts :
               /\ was[c][p] \subseteq was'[c][p]
               /\ entry[c][p] > 0 => entry'[c][p] > 0
    PROVE  Seen(l)'
<1>1. l.post \in Posts /\ l.chain \in Chains /\ 1 \in Chains
  BY ChainsOK DEF Seen
<1> QED
  BY <1>1 DEF Seen, KeepsCase, Found, Absent, Passed, Look

\* A request that goes on, with what it reads written to the cache at most.
LEMMA RequestStep ==
    ASSUME LookIInv, KeepsCase, NEW r \in Clients, NEW l, l = NoLook \/ Seen(l),
           Goes(r, l), UNCHANGED <<entry, was, entries, manifests>>, FillsOK'
    PROVE  LookIInv'
<1>1. LookDataOK'
  BY DEF LookIInv, LookDataOK, KeepsCase
<1>2. \A k : Seen(k) => Seen(k)'
  BY SeenStays DEF LookIInv, LookDataOK
<1>3. look' \in [Clients -> Look \cup {NoLook}]
  BY DEF LookIInv, Goes, Seen
<1>4. \A q \in Clients : look'[q] = IF q = r THEN l ELSE look[q]
  BY DEF LookIInv, Goes
<1> QED
  BY <1>1, <1>2, <1>3, <1>4 DEF LookIInv

\* Nothing is written.
LEMMA PlainStep ==
    ASSUME LookIInv, KeepsCase, NEW r \in Clients, NEW l, l = NoLook \/ Seen(l), Goes(r, l), Stores
    PROVE  LookIInv'
<1>1. FillsOK'
  BY DEF FillsOK, LookIInv, LookDataOK, Stores, KeepsCase
<1> QED
  BY <1>1, RequestStep DEF Stores

\* One value more on the way to the cache.
LEMMA FillMore ==
    ASSUME LookIInv, KeepsCase, UNCHANGED was, NEW f, fills' = fills \cup {f},
           f \in [of : {"entry", "manifest"}, slot : Nat, value : Entries],
           f.of = "entry" => f.slot \in Posts /\ f.value \in was[1][f.slot],
           f.of = "manifest" => f.slot \in 1 .. Manifests /\ f.value = f.slot
    PROVE  FillsOK'
BY DEF FillsOK, LookIInv, LookDataOK, KeepsCase

\* Either way of counting a failing call leaves the chains alone.
LEMMA CallKeepsCase ==
    ASSUME LookIInv, Answers \/ NoAnswer \/ Take("requests") \/ Take("changes")
    PROVE  KeepsCase /\ about'.chains = about.chains
<1>1. about \in Case
  BY DEF LookIInv, LookDataOK
<1> QED
  BY <1>1, TakeKeeps DEF Answers, NoAnswer, KeepsCase, Chains, Posts

\* A client's request that is not idle has a record that has seen its share.
LEMMA UnderWay ==
    ASSUME LookIInv, NEW r \in Clients, look[r].pc # "idle"
    PROVE  look[r] \in Look /\ Seen(look[r]) /\ look[r].post \in Posts /\ look[r].chain \in Chains
<1>1. look[r] # NoLook
  BY DEF NoLook
<1> QED
  BY <1>1 DEF LookIInv, Seen

-----------------------------------------------------------------------------
\* A request that ends with an error, or moves on to the cache or the chain.
LEMMA EndOrMove ==
    ASSUME LookIInv, KeepsCase, NEW r \in Clients, look[r].pc # "idle", Stores,
           \/ Ends(r, "error")
           \/ look[r].pc = "registry" /\ Moves(r, "cache")
           \/ look[r].pc = "cache" /\ Moves(r, "chain")
           \/ look[r].pc = "manifest" /\ Moves(r, "fetch")
           \/ look[r].pc = "fetch" /\ Ends(r, "found")
    PROVE  LookIInv'
<1> DEFINE k == look[r]
<1>1. k \in Look /\ Seen(k)
  BY UnderWay
<1>2. ASSUME NEW to \in {"cache", "chain", "fetch"}, Moves(r, to),
             \/ k.pc \in {"registry", "cache"} /\ to # "fetch"
             \/ k.pc = "manifest" /\ to = "fetch"
      PROVE  LookIInv'
  <2> DEFINE l == [k EXCEPT !.pc = to]
  <2>1. Seen(l)
    BY <1>1, <1>2 DEF Seen, Look, Found, Absent, Passed
  <2> QED BY <1>2, <2>1, PlainStep DEF Moves
<1>3. ASSUME NEW what \in {"error", "found"}, Ends(r, what), what = "found" => k.pc = "fetch"
      PROVE  LookIInv'
  <2> DEFINE l == [k EXCEPT !.pc = "done", !.answer = what]
  <2>1. Seen(l)
    BY <1>1, <1>3 DEF Seen, Look, Found, Absent, Passed
  <2> QED BY <1>3, <2>1, PlainStep DEF Ends
<1> QED
  BY <1>2, <1>3

\* What a request does with an entry its post has had on the chain it asks.
LEMMA WithStep ==
    ASSUME LookIInv, KeepsCase, NEW r \in Clients, look[r].pc \in {"cache", "chain"},
           NEW e \in Entries, e \in was[look[r].chain][look[r].post],
           look[r].kind \in OverAllChains => e # 0,
           With(r, e), UNCHANGED <<entry, was, entries, manifests>>, FillsOK'
    PROVE  LookIInv'
<1> DEFINE k == look[r]
<1>1. k \in Look /\ Seen(k)
  BY UnderWay
<1>2. CASE e = 0
  <2> DEFINE l == [k EXCEPT !.pc = "done", !.answer = "absent"]
  <2>1. Seen(l)
    BY <1>1, <1>2 DEF Seen, Look, Found, Absent, Passed
  <2> QED BY <1>2, <2>1, RequestStep DEF With, Ends
<1>3. CASE e # 0 /\ k.kind \in WithManifest
  <2> DEFINE l == [k EXCEPT !.pc = "manifest", !.entry = e]
  <2>1. k.kind \notin OverAllChains
    BY <1>3 DEF WithManifest, OverAllChains
  <2>2. Seen(l)
    BY <1>1, <1>3, <2>1, Codes DEF Seen, Look, Found, Absent, Passed
  <2> QED BY <1>3, <2>2, RequestStep DEF With
<1>4. CASE e # 0 /\ k.kind \notin WithManifest
  <2> DEFINE l == [k EXCEPT !.pc = "done", !.answer = "found", !.entry = e]
  <2>1. Seen(l)
    BY <1>1, <1>4, Codes DEF Seen, Look, Found, Absent, Passed
  <2> QED BY <1>4, <2>1, RequestStep DEF With
<1> QED
  BY <1>2, <1>3, <1>4

\* A lookup that arrives keeps the invariant.
LEMMA ArrivesInv ==
    ASSUME LookIInv, NEW r \in Clients, NEW k \in LookKinds, NEW p \in Posts, LookUp(r, k, p)
    PROVE  LookIInv'
<1> DEFINE began == [c \in Chains |-> entry[c][p]]
           l == [pc |-> IF k \in OverAllChains THEN "chain" ELSE "registry", kind |-> k, post |-> p,
                 chain |-> 1, entry |-> 0, manifest |-> Nowhere, answer |-> "none",
                 began |-> began, silent |-> {}]
<1>1. KeepsCase
  BY CallKeepsCase DEF LookUp
<1>2. about \in Case /\ entry \in [Chains -> [Posts -> Entries]]
  BY DEF LookIInv, LookDataOK
<1>3. 1 \in Chains /\ Chains = 1 .. about.chains /\ about.chains \in Nat /\ Posts \subseteq Nat
  BY <1>2, ChainsOK DEF Case
<1>4. began \in [Chains -> Entries] /\ began \in Seq(Entries)
  BY <1>2, <1>3
<1>5. l \in Look
  BY <1>3, <1>4, Codes DEF Look
<1>6. Seen(l)
  BY <1>3, <1>4, <1>5 DEF Seen, Found, Absent, Passed
<1> QED
  BY <1>1, <1>6, PlainStep DEF LookUp

\* So does a read of the cache,
LEMMA CacheInv ==
    ASSUME LookIInv, NEW r \in Clients, resolveDefaultRegistry(r) \/ CachedEntry(r)
    PROVE  LookIInv'
<1>1. KeepsCase /\ Stores
  BY CallKeepsCase DEF resolveDefaultRegistry, CachedEntry
<1>2. CASE resolveDefaultRegistry(r)
  BY <1>1, <1>2, EndOrMove DEF resolveDefaultRegistry
<1>3. CASE CachedEntry(r)
  <2> DEFINE e == entries[look[r].post]
  <2>1. /\ look[r].pc = "cache" /\ Seen(look[r]) /\ look[r].post \in Posts
        /\ look[r].kind \notin OverAllChains /\ look[r].chain = 1
    BY <1>3, UnderWay DEF CachedEntry, Seen
  <2>2. e \in was[1][look[r].post] \cup {Nowhere} /\ e \in Entries \cup {Nowhere}
    BY <2>1 DEF LookIInv, LookDataOK
  <2>3. CASE e = Nowhere
    BY <1>1, <1>3, <2>1, <2>3, EndOrMove DEF CachedEntry, entrySlot
  <2>4. CASE e # Nowhere
    <3>1. FillsOK' /\ UNCHANGED <<entry, was, entries, manifests>>
      BY <1>1 DEF FillsOK, LookIInv, LookDataOK, Stores, KeepsCase
    <3>2. With(r, e)
      BY <1>3, <2>4 DEF CachedEntry, entrySlot
    <3> QED BY <1>1, <2>1, <2>2, <2>4, <3>1, <3>2, WithStep
  <2> QED BY <2>3, <2>4
<1> QED
  BY <1>2, <1>3

\* the call of the one chain the entry names,
LEMMA OneChainInv ==
    ASSUME LookIInv, NEW r \in Clients, resolveByPlatform(r)
    PROVE  LookIInv'
<1> DEFINE p == look[r].post
           f == [of |-> "entry", slot |-> entrySlot(p), value |-> entry[1][p]]
<1>1. KeepsCase
  BY CallKeepsCase DEF resolveByPlatform
<1>2. /\ look[r].pc = "chain" /\ Seen(look[r]) /\ p \in Posts
      /\ look[r].kind \notin OverAllChains /\ look[r].chain = 1
  BY UnderWay DEF resolveByPlatform, Seen
<1>3. entry[1][p] \in Entries /\ entry[1][p] \in was[1][p] /\ p \in Nat
  BY <1>2, ChainsOK DEF LookIInv, LookDataOK
<1>4. CASE NoAnswer /\ Ends(r, "error") /\ UNCHANGED fills
  BY <1>1, <1>2, <1>4, EndOrMove DEF resolveByPlatform, Stores
<1>5. CASE fills' = fills \cup {f} /\ With(r, entry[1][p])
  <2>1. FillsOK'
    BY <1>1, <1>2, <1>3, <1>5, FillMore DEF resolveByPlatform, entrySlot
  <2> QED BY <1>1, <1>2, <1>3, <1>5, <2>1, WithStep DEF resolveByPlatform
<1> QED
  BY <1>4, <1>5 DEF resolveByPlatform

\* the calls of all chains at once,
LEMMA AllChainsInv ==
    ASSUME LookIInv, NEW r \in Clients, resolveByPlatformCrossChain(r)
    PROVE  LookIInv'
<1> DEFINE k == look[r]
           c == k.chain
<1>1. KeepsCase /\ about'.chains = about.chains
  BY CallKeepsCase DEF resolveByPlatformCrossChain
<1>2. /\ k.pc = "chain" /\ Seen(k) /\ k \in Look /\ k.post \in Posts /\ c \in Chains
      /\ k.kind \in OverAllChains
  BY UnderWay DEF resolveByPlatformCrossChain, Seen
<1>3. Chains = 1 .. about.chains /\ about.chains \in Nat
  BY ChainsOK DEF LookIInv, LookDataOK, Case
<1>4. entry[c][k.post] \in Entries /\ entry[c][k.post] \in was[c][k.post]
  BY <1>2 DEF LookIInv, LookDataOK
<1>5. ASSUME NEW silent, k.silent \subseteq silent, silent \subseteq Nat,
             k.began[c] > 0 => c \in silent, Skip(r, c, silent), Stores
      PROVE  LookIInv'
  <2>1. \A d \in 1 .. c : k.began[d] > 0 => d \in silent
    BY <1>2, <1>3, <1>5 DEF Seen, Passed
  <2>2. CASE c = about.chains
    <3> DEFINE l == [k EXCEPT !.pc = "done", !.answer = "absent", !.silent = silent]
    <3>1. Seen(l)
      BY <1>2, <1>3, <1>5, <2>1, <2>2 DEF Seen, Look, Found, Absent, Passed
    <3> QED BY <1>1, <1>5, <2>2, <3>1, PlainStep DEF Skip
  <2>3. CASE c # about.chains
    <3> DEFINE l == [k EXCEPT !.chain = c + 1, !.silent = silent]
    <3>1. c + 1 \in Chains /\ c + 1 \in Nat /\ 1 .. (c + 1) - 1 = 1 .. c
      BY <1>2, <1>3, <2>3
    <3>2. Seen(l)
      BY <1>2, <1>5, <2>1, <3>1 DEF Seen, Look, Found, Absent, Passed
    <3> QED BY <1>1, <1>5, <2>3, <3>2, PlainStep DEF Skip, NextChain
  <2> QED BY <2>2, <2>3
<1>6. CASE entry[c][k.post] = 0 /\ Skip(r, c, k.silent) /\ Stores
  BY <1>2, <1>5, <1>6 DEF Seen, Look
<1>7. CASE Skip(r, c, k.silent \cup {c}) /\ Stores
  BY <1>2, <1>3, <1>5, <1>7 DEF Look
<1>8. CASE entry[c][k.post] # 0 /\ With(r, entry[c][k.post]) /\ Stores
  <2>1. FillsOK' /\ UNCHANGED <<entry, was, entries, manifests>>
    BY <1>1, <1>8 DEF FillsOK, LookIInv, LookDataOK, Stores, KeepsCase
  <2> QED BY <1>1, <1>2, <1>4, <1>8, <2>1, WithStep
<1> QED
  BY <1>6, <1>7, <1>8 DEF resolveByPlatformCrossChain

\* the read of the manifest, cached or fetched,
LEMMA ManifestInv ==
    ASSUME LookIInv, NEW r \in Clients, CachedManifest(r) \/ fetchManifest(r)
    PROVE  LookIInv'
<1> DEFINE k == look[r]
           e == k.entry
           n == manifests[e]
<1>1. KeepsCase
  BY CallKeepsCase DEF CachedManifest, fetchManifest
<1>2. k.pc \in {"manifest", "fetch"} /\ Seen(k) /\ k \in Look
  BY UnderWay DEF CachedManifest, fetchManifest
<1>3. e \in Entries /\ e # 0 /\ (e # Revoked => e \in 1 .. Manifests /\ n \in {e, Nowhere})
  BY <1>2, Codes DEF Seen, Look, LookIInv, LookDataOK
<1>4. ASSUME e # Revoked PROVE Seen([k EXCEPT !.pc = "done", !.answer = "found", !.manifest = e])
  BY <1>2, <1>3, <1>4, Codes DEF Seen, Look, Found, Absent, Passed
<1>5. CASE CachedManifest(r)
  <2>1. CASE e # Revoked /\ n # Nowhere
    BY <1>1, <1>3, <1>4, <1>5, <2>1, PlainStep DEF CachedManifest, manifestSlot
  <2>2. CASE ~(e # Revoked /\ n # Nowhere)
    BY <1>1, <1>2, <1>5, <2>2, EndOrMove DEF CachedManifest, manifestSlot
  <2> QED BY <2>1, <2>2
<1>6. CASE fetchManifest(r)
  <2> DEFINE f == [of |-> "manifest", slot |-> manifestSlot(k.post, e), value |-> e]
  <2>1. CASE Ends(r, "found") /\ UNCHANGED fills
    BY <1>1, <1>6, <2>1, EndOrMove DEF fetchManifest, Stores
  <2>2. CASE e # Revoked /\ fills' = fills \cup {f}
             /\ Goes(r, [k EXCEPT !.pc = "done", !.answer = "found", !.manifest = e])
    <3>1. FillsOK'
      BY <1>1, <1>3, <1>6, <2>2, FillMore, Codes DEF fetchManifest, manifestSlot
    <3> QED BY <1>1, <1>4, <1>6, <2>2, <3>1, RequestStep DEF fetchManifest
  <2> QED BY <1>6, <2>1, <2>2 DEF fetchManifest
<1> QED
  BY <1>5, <1>6

\* A binding or a change of the registry: an entry once there is never 0 again.
LEMMA ChangeInv ==
    ASSUME LookIInv, NEW c \in Chains, NEW p \in Posts, NEW e \in Entries, ChangeEntry(c, p, e)
    PROVE  LookIInv'
<1>1. KeepsCase
  BY CallKeepsCase DEF ChangeEntry
<1>2. /\ entry' \in [Chains -> [Posts -> Entries]] /\ was' \in [Chains -> [Posts -> SUBSET Entries]]
      /\ \A d \in Chains, q \in Posts :
            /\ entry'[d][q] = IF d = c /\ q = p THEN e ELSE entry[d][q]
            /\ was'[d][q] = IF d = c /\ q = p THEN was[d][q] \cup {e} ELSE was[d][q]
  BY DEF LookIInv, LookDataOK, ChangeEntry
<1>3. /\ e > 0 /\ 1 \in Chains
      /\ \A d \in Chains, q \in Posts : /\ was[d][q] \subseteq was'[d][q]
                                        /\ entry[d][q] > 0 => entry'[d][q] > 0
  BY <1>2, ChainsOK DEF ChangeEntry, LookIInv, LookDataOK
<1>4. LookDataOK'
  BY <1>1, <1>2, <1>3 DEF LookIInv, LookDataOK, ChangeEntry, KeepsCase
<1>5. FillsOK'
  BY <1>1, <1>3 DEF LookIInv, FillsOK, ChangeEntry, KeepsCase
<1>6. \A l : Seen(l) => Seen(l)'
  BY <1>1, <1>3, SeenStays DEF LookIInv, LookDataOK
<1> QED
  BY <1>4, <1>5, <1>6 DEF LookIInv, ChangeEntry

\* The cache's own steps.
LEMMA CachingInv ==
    ASSUME LookIInv, Expire \/ \E f \in fills : Filled(f) \/ Dropped(f)
    PROVE  LookIInv'
<1>1. KeepsCase
  BY CallKeepsCase DEF Expire, Filled, Dropped, Answers, NoAnswer
<1>2. \A l : Seen(l) => Seen(l)'
  BY <1>1, SeenStays DEF LookIInv, LookDataOK, Expire, Filled, Dropped
<1>3. UNCHANGED <<entry, was, look>> /\ fills' \subseteq fills
  BY DEF Expire, Filled, Dropped
<1>4. FillsOK'
  BY <1>1, <1>3 DEF LookIInv, FillsOK, KeepsCase
<1>5. LookDataOK'
  <2>1. CASE Expire
    BY <1>1, <1>3, <2>1 DEF LookIInv, LookDataOK, Expire, KeepsCase
  <2>2. ASSUME NEW f \in fills, Filled(f) PROVE LookDataOK'
    <3>1. /\ f.of \in {"entry", "manifest"}
          /\ f.of = "entry" => f.slot \in Posts /\ f.value \in was[1][f.slot] /\ f.value \in Entries
          /\ f.of = "manifest" => f.slot \in 1 .. Manifests /\ f.value = f.slot
      BY DEF LookIInv, FillsOK
    <3> QED BY <1>1, <1>3, <2>2, <3>1 DEF LookIInv, LookDataOK, Filled, KeepsCase
  <2>3. ASSUME NEW f \in fills, Dropped(f) PROVE LookDataOK'
    BY <1>1, <1>3, <2>3 DEF LookIInv, LookDataOK, Dropped, KeepsCase
  <2> QED BY <2>1, <2>2, <2>3
<1> QED
  BY <1>2, <1>3, <1>4, <1>5 DEF LookIInv

\* and a client that leaves.
LEMMA LeavesInv ==
    ASSUME LookIInv, NEW r \in Clients, Leaves(r)
    PROVE  LookIInv'
BY CallKeepsCase, PlainStep DEF Leaves

\* Every step keeps it.
LEMMA LookStep == LookIInv /\ [LookNext]_lookups => LookIInv'
<1> SUFFICES ASSUME LookIInv, [LookNext]_lookups PROVE LookIInv'
  OBVIOUS
<1>1. CASE UNCHANGED lookups
  BY <1>1 DEF lookups, LookIInv, LookDataOK, FillsOK, Seen, Found, Absent, Passed, Chains, Posts
<1>2. ASSUME NEW r \in Clients, Handles(r) PROVE LookIInv'
  BY <1>2, CacheInv, OneChainInv, AllChainsInv, ManifestInv, LeavesInv DEF Handles
<1> QED
  BY <1>1, <1>2, ArrivesInv, ChangeInv, CachingInv DEF LookNext

\* It holds at the start.
LEMMA LookBegins == LookInit => LookIInv
<1> SUFFICES ASSUME LookInit PROVE LookIInv
  OBVIOUS
<1>1. about \in Case
  BY LookupAssumption DEF LookInit, Case, NoCase, LookKinds
<1>2. 1 \in Chains
  BY <1>1, ChainsOK
<1>3. {0, 1} \subseteq Entries
  BY LookupAssumption DEF Entries, Revoked
<1>4. entry \in [Chains -> [Posts -> Entries]]
  BY <1>3 DEF LookInit
<1>5. was = [c \in Chains |-> [p \in Posts |-> {entry[c][p]}]]
  BY DEF LookInit
<1>6. was \in [Chains -> [Posts -> SUBSET Entries]]
  BY <1>4, <1>5
<1>7. LookDataOK
  BY <1>1, <1>2, <1>4, <1>5, <1>6 DEF LookInit, LookDataOK
<1> QED
  BY <1>7 DEF LookInit, LookIInv, FillsOK

\* The invariant the run checks follows from it.
LEMMA LookImplies == LookIInv => LookInv
<1> SUFFICES ASSUME LookIInv PROVE LookInv
  OBVIOUS
<1>1. LookTypeOK
  BY DEF LookIInv, LookDataOK, FillsOK, LookTypeOK
<1>2. ASSUME NEW what \in {"found", "absent"}, NEW r \in Answering(what)
      PROVE  r \in Clients /\ Seen(look[r]) /\ look[r].pc = "done" /\ look[r].answer = what
  BY <1>2, UnderWay DEF Answering
<1>3. FoundWasThere /\ ManifestBelongs
  BY <1>2 DEF FoundWasThere, ManifestBelongs, Seen, Found
<1>4. AbsentWasTrue /\ FirstChainWins
  BY <1>2 DEF AbsentWasTrue, FirstChainWins, Seen, Found, Absent, Passed
<1> QED
  BY <1>1, <1>3, <1>4 DEF LookInv

\* Whatever is cached, for whom and how long, and whichever nodes are silent:
\* what a look-up answers, a binding, its manifest or none, was so.
THEOREM LookupsTellTruth == LookSpec => []LookInv
BY LookBegins, LookStep, LookImplies, PTL DEF LookSpec

-------------------------------------------------------------------------------
(*****************************************************************************)
(* Database backups, for any retention and any number of dumps and faults.   *)
(*****************************************************************************)

\* The file of that age is a whole backup, as gzip made it.
Gz(a) == files[a] # NoFile /\ files[a].state = "gz"

\* Today's file is there only once today's dump is done, and complete only
\* once a backup was.
TodayOK ==
  /\ "full" \notin ran \/ full.at = "dump" => files[0] = NoFile
  /\ full.at = "gzip" => files[0] # NoFile /\ files[0].state = "partial"
  /\ full.at # "idle" => "full" \in ran
  /\ Gz(0) => sinceGood = 0

\* The last complete backup is kept for the retention.
KeptOK == sinceGood <= Retention => Gz(sinceGood)

\* Every day ends with a look at that day's backup.
AlertOK ==
  /\ alerted \/ sinceGood <= 1
  /\ "verify" \in ran => "full" \in ran /\ (alerted \/ sinceGood = 0)

\* Nothing is truncated but a file that is being written, or was left so.
DataOK ==
  /\ db # "truncated" /\ full.dump # "truncated"
  /\ \A a \in Ages : files[a] # NoFile => files[a].data # "truncated"

\* A file that was found sound stays so, or expires.
RestoreOK ==
  restore.at \in {"terminate", "drop", "create", "load"} =>
    Gz(restore.age) \/ (files[restore.age] = NoFile /\ restore.age > Retention)

\* The inductive invariant.
BInv == TypeOK /\ TodayOK /\ KeptOK /\ AlertOK /\ DataOK /\ RestoreOK

-----------------------------------------------------------------------------
(***************************************************************************)
(* Files                                                                   *)
(***************************************************************************)

\* The bounds are numbers.
LEMMA Bounds == Retention \in Nat /\ MaxFaults \in Nat /\ MaxRestores \in Nat /\ Retention > 1
  BY BackupAssumption

\* A file that is there, and the same one when it is complete.
LEMMA FileIs ==
    ASSUME NEW f \in File, NEW g, g = [f EXCEPT !.state = "gz"]
    PROVE  /\ f # NoFile /\ f.state \in {"partial", "gz"} /\ f.data \in Data
           /\ g \in File /\ g.state = "gz" /\ g.data = f.data
  BY NoFileAssumption DEF File

\* A file whose writing begins.
LEMMA NewFile ==
    ASSUME NEW d \in Data, NEW f, f = [state |-> "partial", data |-> d]
    PROVE  f \in File /\ f.state = "partial" /\ f.data = d
  BY DEF File

\* A restore keeps its file.
LEMMA RestoreGoes ==
    ASSUME TypeOK, NEW step \in {"terminate", "drop", "create", "load"}, NEW m,
           m = [restore EXCEPT !.at = step]
    PROVE  /\ m \in [at : {"idle", "check", "terminate", "drop", "create", "load"}, age : Ages]
           /\ m.at = step /\ m.age = restore.age
  BY DEF TypeOK

\* A backup keeps its dump.
LEMMA FullGoes ==
    ASSUME TypeOK, NEW step \in {"gzip", "clean"}, NEW m, m = [full EXCEPT !.at = step]
    PROVE  /\ m \in [at : {"idle", "dump", "gzip", "clean"}, dump : Data]
           /\ m.at = step /\ m.dump = full.dump
  BY DEF TypeOK

\* The idle ones.
LEMMA IdleOnes ==
    /\ Idle \in [at : {"idle", "dump", "gzip", "clean"}, dump : Data]
    /\ Idle.at = "idle" /\ Idle.dump = "whole"
    /\ NoRestore \in [at : {"idle", "check", "terminate", "drop", "create", "load"}, age : Ages]
    /\ NoRestore.at = "idle"
  BY Bounds DEF Idle, NoRestore, Data, Ages

-----------------------------------------------------------------------------
(***************************************************************************)
(* Steps that leave the files alone                                        *)
(***************************************************************************)

\* A backup of the database starts once a day.
LEMMA StartFullKeeps ==
    ASSUME BInv, StartFull
    PROVE  BInv'
<1> DEFINE dump == IF db = "loading" THEN "overlap" ELSE db
           m == [at |-> "dump", dump |-> dump]
<1>1. UNCHANGED <<files, db, incremental, restore, sinceGood, alerted, faults, restores>>
  BY DEF StartFull, bounds
<1>2. "full" \notin ran /\ ran' = ran \union {"full"}
  BY DEF StartFull
<1>3. full.at = "idle"
  BY <1>2 DEF BInv, TodayOK, TypeOK
<1>4. CASE full' = full
  BY <1>1, <1>2, <1>3, <1>4 DEF BInv, TypeOK, TodayOK, KeptOK, AlertOK, DataOK, RestoreOK, Gz
<1>5. CASE db # "missing" /\ full' = m
  <2>1. dump \in Data /\ dump # "truncated"
    BY <1>5 DEF BInv, TypeOK, DataOK, Data
  <2>2. m \in [at : {"idle", "dump", "gzip", "clean"}, dump : Data] /\ m.at = "dump" /\ m.dump = dump
    BY <2>1
  <2> HIDE DEF m, dump
  <2>3. TypeOK'
    BY <1>1, <1>2, <1>5, <2>2 DEF BInv, TypeOK
  <2>4. TodayOK'
    BY <1>1, <1>2, <1>5, <2>2 DEF BInv, TodayOK, Gz
  <2>5. KeptOK' /\ AlertOK' /\ RestoreOK'
    BY <1>1, <1>2 DEF BInv, KeptOK, AlertOK, RestoreOK, Gz
  <2>6. DataOK'
    BY <1>1, <1>5, <2>1, <2>2 DEF BInv, DataOK
  <2> QED
    BY <2>3, <2>4, <2>5, <2>6 DEF BInv
<1> QED
  BY <1>4, <1>5 DEF StartFull

\* Incremental backups begin.
LEMMA StartIncrementalKeeps ==
    ASSUME BInv, StartIncremental
    PROVE  BInv'
<1>1. UNCHANGED <<files, db, full, restore, ran, sinceGood, alerted, faults, restores>>
      /\ incremental' = "clean"
  BY DEF StartIncremental, bounds
<1> QED
  BY <1>1 DEF BInv, TypeOK, TodayOK, KeptOK, AlertOK, DataOK, RestoreOK, Gz

\* Verify raises an alert unless a complete backup of today is there, or none
\* was to be made yet.
LEMMA VerifyKeeps ==
    ASSUME BInv, Verify
    PROVE  BInv'
<1>1. UNCHANGED <<files, db, full, incremental, restore, sinceGood, faults, restores>>
  BY DEF Verify, jobs, bounds
<1>2. alerted' \in BOOLEAN /\ ran' \subseteq {"full", "verify"}
      /\ ("full" \in ran' <=> "full" \in ran) /\ (alerted => alerted')
  BY DEF Verify, BInv, TypeOK
<1>3. "verify" \in ran' => "full" \in ran
  BY DEF Verify, BInv, AlertOK
<1>4. ASSUME "full" \in ran, ~alerted'
      PROVE  sinceGood = 0
  <2>1. CheckAge /\ CheckIntegrity
    BY <1>4 DEF Verify
  <2>2. 0 \in Present
    BY <1>4, <2>1 DEF CheckAge
  <2>3. {b \in Present : b < 0} = {}
    BY Bounds DEF Present, Ages
  <2>4. Cardinality({b \in Present : b < 0}) < 3
    BY <2>3, FS_EmptySet
  <2>5. 0 \in Newest(3)
    BY <2>2, <2>4 DEF Newest
  <2>6. Gz(0)
    BY <2>1, <2>2, <2>5 DEF CheckIntegrity, Present, Gz
  <2> QED
    BY <2>6 DEF BInv, TodayOK
<1>5. AlertOK'
  BY <1>1, <1>2, <1>3, <1>4 DEF BInv, AlertOK
<1> QED
  BY <1>1, <1>2, <1>5 DEF BInv, TypeOK, TodayOK, KeptOK, DataOK, RestoreOK, Gz

\* A restore takes any file.
LEMMA StartRestoreKeeps ==
    ASSUME BInv, StartRestore
    PROVE  BInv'
<1>1. UNCHANGED <<files, db, full, incremental, ran, sinceGood, alerted, faults>>
  BY DEF StartRestore
<1>2. restores' \in 0 .. MaxRestores
  BY Bounds DEF StartRestore, BInv, TypeOK
<1>3. PICK a \in Ages : restore' = [at |-> "check", age |-> a]
  BY DEF StartRestore, Present
<1> QED
  BY <1>1, <1>2, <1>3 DEF BInv, TypeOK, TodayOK, KeptOK, AlertOK, DataOK, RestoreOK, Gz

\* The steps of a restore change the restore and the database.
LEMMA RestoreKeeps ==
    ASSUME BInv, UNCHANGED <<files, incremental, ran, sinceGood, alerted, restores>>,
           faults' \in 0 .. MaxFaults,
           full' = full \/ (full.at = "dump" /\ full' = Idle),
           db' \in (Data \union {"missing"}) \ {"truncated"},
           restore' \in [at : {"idle", "check", "terminate", "drop", "create", "load"}, age : Ages],
           RestoreOK'
    PROVE  BInv'
<1>1. full' \in [at : {"idle", "dump", "gzip", "clean"}, dump : Data]
  BY IdleOnes DEF BInv, TypeOK
<1>2. TypeOK'
  BY <1>1, IdleOnes DEF BInv, TypeOK
<1>3. TodayOK' /\ KeptOK' /\ AlertOK'
  BY IdleOnes DEF BInv, TodayOK, KeptOK, AlertOK, Gz
<1>4. DataOK'
  BY IdleOnes DEF BInv, DataOK
<1> QED
  BY <1>2, <1>3, <1>4 DEF BInv

\* A restore goes on with the file it found sound, and never with one that is
\* truncated.
LEMMA RestoreStepKeeps ==
    ASSUME BInv, RestoreStep
    PROVE  BInv'
<1>1. UNCHANGED <<files, incremental, ran, sinceGood, alerted, faults, restores>>
  BY DEF RestoreStep, CheckFile, Terminate, Drop, Create, Load, bounds
<1>2. faults' \in 0 .. MaxFaults
  BY <1>1 DEF BInv, TypeOK
<1>3. db \in (Data \union {"missing"}) \ {"truncated"}
  BY DEF BInv, TypeOK, DataOK
<1> PICK age \in Ages : age = restore.age
  BY DEF BInv, TypeOK
<1>4. ASSUME NEW step \in {"terminate", "drop", "create", "load"}, restore' = [restore EXCEPT !.at = step],
             Gz(age) \/ (files[age] = NoFile /\ age > Retention)
      PROVE  /\ restore' \in [at : {"idle", "check", "terminate", "drop", "create", "load"}, age : Ages]
             /\ RestoreOK'
  BY <1>1, <1>4, RestoreGoes DEF BInv, RestoreOK, Gz
<1>5. ASSUME restore' = NoRestore
      PROVE  /\ restore' \in [at : {"idle", "check", "terminate", "drop", "create", "load"}, age : Ages]
             /\ RestoreOK'
  BY <1>5, IdleOnes DEF RestoreOK
<1>6. CASE CheckFile
  <2>1. full' = full /\ db' = db
    BY <1>6 DEF CheckFile
  <2>2. CASE Sound(restore.age)
    <3>1. restore' = [restore EXCEPT !.at = "terminate"]
      BY <1>6, <2>2 DEF CheckFile
    <3>2. Gz(age)
      BY <2>2 DEF Sound, Gz
    <3> QED
      BY <1>1, <1>2, <1>3, <1>4, <2>1, <3>1, <3>2, RestoreKeeps
  <2>3. CASE ~Sound(restore.age)
    <3>1. restore' = NoRestore
      BY <1>6, <2>3 DEF CheckFile
    <3> QED
      BY <1>1, <1>2, <1>3, <1>5, <2>1, <3>1, RestoreKeeps
  <2> QED
    BY <2>2, <2>3
<1>7. CASE Terminate
  <2>1. /\ restore.at = "terminate" /\ restore' = [restore EXCEPT !.at = "drop"]
        /\ db' = db /\ (full' = full \/ (full.at = "dump" /\ full' = Idle))
    BY <1>7 DEF Terminate
  <2>2. Gz(age) \/ (files[age] = NoFile /\ age > Retention)
    BY <2>1 DEF BInv, RestoreOK, Gz
  <2> QED
    BY <1>1, <1>2, <1>3, <1>4, <2>1, <2>2, RestoreKeeps
<1>8. CASE Drop
  <2>1. restore.at = "drop" /\ full' = full
    BY <1>8 DEF Drop
  <2>2. Gz(age) \/ (files[age] = NoFile /\ age > Retention)
    BY <2>1 DEF BInv, RestoreOK, Gz
  <2>3. CASE restore' = NoRestore /\ db' = db
    BY <1>1, <1>2, <1>3, <1>5, <2>1, <2>3, RestoreKeeps
  <2>4. CASE restore' = [restore EXCEPT !.at = "create"] /\ db' = "missing"
    <3>1. db' \in (Data \union {"missing"}) \ {"truncated"}
      BY <2>4
    <3> QED
      BY <1>1, <1>2, <1>4, <2>1, <2>2, <2>4, <3>1, RestoreKeeps
  <2> QED
    BY <1>8, <2>3, <2>4 DEF Drop
<1>9. CASE Create
  <2>1. restore.at = "create" /\ full' = full /\ restore' = [restore EXCEPT !.at = "load"]
    BY <1>9 DEF Create
  <2>2. db' \in (Data \union {"missing"}) \ {"truncated"}
    BY <1>9 DEF Create, Data
  <2>3. Gz(age) \/ (files[age] = NoFile /\ age > Retention)
    BY <2>1 DEF BInv, RestoreOK, Gz
  <2> QED
    BY <1>1, <1>2, <1>4, <2>1, <2>2, <2>3, RestoreKeeps
<1>10. CASE Load
  <2>1. restore.at = "load" /\ full' = full /\ restore' = NoRestore
    BY <1>10 DEF Load
  <2>2. Gz(age) \/ (files[age] = NoFile /\ age > Retention)
    BY <2>1 DEF BInv, RestoreOK, Gz
  <2>3. db' \in (Data \union {"missing"}) \ {"truncated"}
    <3>1. CASE files[age] = NoFile
      BY <1>10, <3>1 DEF Load, Data
    <3>2. CASE files[age] # NoFile
      <4>1. files[age].state = "gz"
        BY <2>2, <3>2 DEF Gz
      <4>2. db' = files[age].data
        BY <1>10, <3>2, <4>1 DEF Load
      <4>3. files[age] \in File
        BY <3>2 DEF BInv, TypeOK
      <4>4. files[age].data \in Data
        BY <4>3 DEF File
      <4> QED
        BY <3>2, <4>2, <4>4 DEF BInv, DataOK
    <3> QED
      BY <3>1, <3>2
  <2> QED
    BY <1>1, <1>2, <1>5, <2>1, <2>3, RestoreKeeps
<1> QED
  BY <1>6, <1>7, <1>8, <1>9, <1>10 DEF RestoreStep

\* A restore that stops leaves what it had done.
LEMMA RestoreFailsKeeps ==
    ASSUME BInv, RestoreFails
    PROVE  BInv'
<1>1. /\ UNCHANGED <<files, full, incremental, ran, sinceGood, alerted, restores>>
      /\ restore' = NoRestore
  BY DEF RestoreFails
<1>2. faults' \in 0 .. MaxFaults
  BY Bounds DEF RestoreFails, BInv, TypeOK
<1>3. db' \in (Data \union {"missing"}) \ {"truncated"}
  BY DEF RestoreFails, BInv, TypeOK, DataOK, Data
<1>4. RestoreOK'
  BY <1>1, IdleOnes DEF RestoreOK
<1> QED
  BY <1>1, <1>2, <1>3, <1>4, IdleOnes, RestoreKeeps

-----------------------------------------------------------------------------
(***************************************************************************)
(* Steps that change the files                                             *)
(***************************************************************************)

\* Today's file is written where none was.
LEMMA DumpDoneKeeps ==
    ASSUME BInv, DumpDone
    PROVE  BInv'
<1> PICK f : f = [state |-> "partial", data |-> full.dump]
  OBVIOUS
<1>1. /\ UNCHANGED <<db, incremental, restore, ran, sinceGood, alerted, faults, restores>>
      /\ full.at = "dump" /\ full' = [full EXCEPT !.at = "gzip"] /\ files' = [files EXCEPT ![0] = f]
  BY DEF DumpDone, bounds
<1>2. f \in File /\ f.state = "partial" /\ f.data = full.dump /\ f # NoFile
  BY NewFile, NoFileAssumption DEF BInv, TypeOK
<1>3. /\ full' \in [at : {"idle", "dump", "gzip", "clean"}, dump : Data]
      /\ full'.at = "gzip" /\ full'.dump = full.dump
  BY <1>1, FullGoes DEF BInv
<1>4. 0 \in Ages /\ files[0] = NoFile /\ ~Gz(0)
  BY <1>1, Bounds DEF BInv, TodayOK, Ages, Gz
<1>5. files'[0] = f /\ \A a \in Ages : a # 0 => files'[a] = files[a]
  BY <1>1, <1>4 DEF BInv, TypeOK
<1>6. TypeOK'
  BY <1>1, <1>2, <1>3, <1>5 DEF BInv, TypeOK
<1>7. TodayOK'
  BY <1>1, <1>2, <1>3, <1>5 DEF BInv, TodayOK, Gz
<1>8. KeptOK'
  <2>1. sinceGood \in Ages
    BY DEF BInv, TypeOK
  <2>2. sinceGood <= Retention => Gz(sinceGood)
    BY DEF BInv, KeptOK
  <2>3. sinceGood <= Retention => files'[sinceGood] = files[sinceGood]
    BY <1>4, <1>5, <2>1, <2>2
  <2> QED
    BY <1>1, <2>2, <2>3 DEF KeptOK, Gz
<1>9. AlertOK'
  BY <1>1 DEF BInv, AlertOK
<1>10. DataOK'
  BY <1>1, <1>2, <1>3, <1>5 DEF BInv, DataOK
<1>11. RestoreOK'
  <2>1. restore.age \in Ages
    BY DEF BInv, TypeOK
  <2>2. restore.age = 0 => restore.at \notin {"terminate", "drop", "create", "load"}
    BY <1>4, Bounds DEF BInv, RestoreOK
  <2>3. CASE restore.age = 0
    BY <1>1, <2>2, <2>3 DEF RestoreOK
  <2>4. CASE restore.age # 0
    <3>1. files'[restore.age] = files[restore.age]
      BY <1>5, <2>1, <2>4
    <3> QED
      BY <1>1, <3>1 DEF BInv, RestoreOK, Gz
  <2> QED
    BY <2>3, <2>4
<1> QED
  BY <1>6, <1>7, <1>8, <1>9, <1>10, <1>11 DEF BInv

\* Today's file is complete.
LEMMA GzipDoneKeeps ==
    ASSUME BInv, GzipDone
    PROVE  BInv'
<1>1. /\ UNCHANGED <<db, incremental, restore, ran, faults, restores>>
      /\ full.at = "gzip" /\ full' = [full EXCEPT !.at = "clean"]
      /\ files' = [files EXCEPT ![0] = [files[0] EXCEPT !.state = "gz"]]
      /\ sinceGood' = 0 /\ alerted' = FALSE
  BY DEF GzipDone, bounds
<1>2. 0 \in Ages
  BY Bounds DEF Ages
<1> PICK f \in File : f = files[0]
  BY <1>1, <1>2 DEF BInv, TypeOK, TodayOK
<1> PICK g : g = [f EXCEPT !.state = "gz"]
  OBVIOUS
<1>3. g \in File /\ g.state = "gz" /\ g.data = f.data /\ g # NoFile /\ f # NoFile
  BY FileIs, NoFileAssumption
<1>4. files' = [files EXCEPT ![0] = g]
  BY <1>1
<1>5. files'[0] = g /\ \A a \in Ages : a # 0 => files'[a] = files[a]
  BY <1>2, <1>4 DEF BInv, TypeOK
<1>6. /\ full' \in [at : {"idle", "dump", "gzip", "clean"}, dump : Data]
      /\ full'.at = "clean" /\ full'.dump = full.dump
  BY <1>1, FullGoes DEF BInv
<1>7. TypeOK'
  BY <1>1, <1>2, <1>3, <1>4, <1>6 DEF BInv, TypeOK
<1>8. TodayOK'
  BY <1>1, <1>3, <1>5, <1>6 DEF BInv, TodayOK, Gz
<1>9. KeptOK'
  BY <1>1, <1>3, <1>5 DEF KeptOK, Gz
<1>10. AlertOK'
  <2>1. sinceGood' <= 1
    BY <1>1
  <2> QED
    BY <1>1, <2>1 DEF BInv, AlertOK
<1>11. DataOK'
  BY <1>1, <1>3, <1>5, <1>6 DEF BInv, DataOK
<1>12. RestoreOK'
  <2>1. restore.age \in Ages
    BY DEF BInv, TypeOK
  <2>2. CASE restore.age = 0
    BY <1>1, <1>3, <1>5, <2>2 DEF RestoreOK, Gz
  <2>3. CASE restore.age # 0
    <3>1. files'[restore.age] = files[restore.age]
      BY <1>5, <2>1, <2>3
    <3> QED
      BY <1>1, <3>1 DEF BInv, RestoreOK, Gz
  <2> QED
    BY <2>2, <2>3
<1> QED
  BY <1>7, <1>8, <1>9, <1>10, <1>11, <1>12 DEF BInv

\* A backup that fails is not the last complete one.
LEMMA FullFailsKeeps ==
    ASSUME BInv, FullFails
    PROVE  BInv'
<1>1. /\ UNCHANGED <<db, incremental, restore, ran, sinceGood, alerted, restores>>
      /\ full.at \in {"dump", "gzip"} /\ full' = Idle
  BY DEF FullFails
<1>2. faults' \in 0 .. MaxFaults
  BY Bounds DEF FullFails, BInv, TypeOK
<1>3. 0 \in Ages
  BY Bounds DEF Ages
<1>4. CASE files' = files
  <2>1. TypeOK'
    BY <1>1, <1>2, <1>4, IdleOnes DEF BInv, TypeOK
  <2>2. TodayOK'
    BY <1>1, <1>4, IdleOnes DEF BInv, TodayOK, Gz
  <2>3. KeptOK' /\ AlertOK' /\ RestoreOK'
    BY <1>1, <1>4 DEF BInv, KeptOK, AlertOK, RestoreOK, Gz
  <2>4. DataOK'
    BY <1>1, <1>4, IdleOnes DEF BInv, DataOK
  <2> QED
    BY <2>1, <2>2, <2>3, <2>4 DEF BInv
<1>5. CASE full.at = "gzip" /\ files' = [files EXCEPT ![0] = NoFile]
  <2>1. files'[0] = NoFile /\ \A a \in Ages : a # 0 => files'[a] = files[a]
    BY <1>3, <1>5 DEF BInv, TypeOK
  <2>2. files[0] # NoFile /\ ~Gz(0)
    BY <1>5 DEF BInv, TodayOK, Gz
  <2>3. TypeOK'
    BY <1>1, <1>2, <1>5, IdleOnes DEF BInv, TypeOK
  <2>4. TodayOK'
    BY <1>1, <2>1, IdleOnes DEF BInv, TodayOK, Gz
  <2>5. KeptOK'
    <3>1. sinceGood \in Ages
      BY DEF BInv, TypeOK
    <3>2. sinceGood <= Retention => Gz(sinceGood)
      BY DEF BInv, KeptOK
    <3>3. sinceGood <= Retention => files'[sinceGood] = files[sinceGood]
      BY <2>1, <2>2, <3>1, <3>2
    <3> QED
      BY <1>1, <3>2, <3>3 DEF KeptOK, Gz
  <2>6. AlertOK'
    BY <1>1 DEF BInv, AlertOK
  <2>7. DataOK'
    BY <1>1, <2>1, IdleOnes DEF BInv, DataOK
  <2>8. RestoreOK'
    <3>1. restore.age \in Ages
      BY DEF BInv, TypeOK
    <3>2. restore.age = 0 => restore.at \notin {"terminate", "drop", "create", "load"}
      BY <2>2 DEF BInv, RestoreOK
    <3>3. CASE restore.age = 0
      BY <1>1, <3>2, <3>3 DEF RestoreOK
    <3>4. CASE restore.age # 0
      <4>1. files'[restore.age] = files[restore.age]
        BY <2>1, <3>1, <3>4
      <4> QED
        BY <1>1, <4>1 DEF BInv, RestoreOK, Gz
    <3> QED
      BY <3>3, <3>4
  <2> QED
    BY <2>3, <2>4, <2>5, <2>6, <2>7, <2>8 DEF BInv
<1> QED
  BY <1>4, <1>5 DEF FullFails

\* A clean-up deletes what is past its retention, and nothing else.
LEMMA CleanUpKeeps ==
    ASSUME BInv, CleanUpFull \/ CleanUpIncremental
    PROVE  BInv'
<1>1. /\ UNCHANGED <<db, restore, ran, sinceGood, alerted, faults, restores>>
      /\ files' = [a \in Ages |-> IF a > Retention THEN NoFile ELSE files[a]]
  BY DEF CleanUpFull, CleanUpIncremental, bounds, Cleaned, Expired
<1>2. incremental' \in {"idle", "clean"}
  BY DEF CleanUpFull, CleanUpIncremental, BInv, TypeOK
<1>3. full' = full \/ full' = Idle
  BY DEF CleanUpFull, CleanUpIncremental
<1>4. \A a \in Ages : files'[a] = NoFile \/ files'[a] = files[a]
  BY <1>1
<1>5. ASSUME NEW a \in Ages
      PROVE  files'[a] = files[a] \/ (files'[a] = NoFile /\ a > Retention)
  BY <1>1
<1>6. 0 \in Ages /\ files'[0] = files[0]
  <2>1. 0 \in Ages /\ ~(0 > Retention)
    BY Bounds DEF Ages
  <2> QED
    BY <1>5, <2>1
<1>7. full' \in [at : {"idle", "dump", "gzip", "clean"}, dump : Data]
      /\ full'.dump # "truncated" /\ (full'.at # "idle" => full' = full)
  BY <1>3, IdleOnes DEF BInv, TypeOK, DataOK
<1>8. TypeOK'
  <2>1. files' \in [Ages -> {NoFile} \union File]
    BY <1>1 DEF BInv, TypeOK
  <2>2. full'.at = "gzip" => files'[0] # NoFile /\ files'[0].state = "partial"
    BY <1>6, <1>7 DEF BInv, TypeOK
  <2> QED
    BY <1>1, <1>2, <1>7, <2>1, <2>2 DEF BInv, TypeOK
<1>9. TodayOK'
  BY <1>1, <1>6, <1>7 DEF BInv, TodayOK, Gz
<1>10. KeptOK'
  <2>1. sinceGood \in Ages
    BY DEF BInv, TypeOK
  <2>2. sinceGood <= Retention => files'[sinceGood] = files[sinceGood]
    BY <1>5, <2>1, Bounds DEF Ages
  <2> QED
    BY <1>1, <2>2 DEF BInv, KeptOK, Gz
<1>11. AlertOK'
  BY <1>1 DEF BInv, AlertOK
<1>12. DataOK'
  BY <1>1, <1>4, <1>7 DEF BInv, DataOK
<1>13. RestoreOK'
  <2>1. restore.age \in Ages
    BY DEF BInv, TypeOK
  <2> QED
    BY <1>1, <1>5, <2>1 DEF BInv, RestoreOK, Gz
<1> QED
  BY <1>8, <1>9, <1>10, <1>11, <1>12, <1>13 DEF BInv

\* Files grow older, and so does the last complete backup.
LEMMA TickKeeps ==
    ASSUME BInv, Tick
    PROVE  BInv'
<1>1. /\ UNCHANGED <<db, full, incremental, restore, alerted, faults, restores>>
      /\ full = Idle /\ restore = NoRestore /\ ran = {"full", "verify"} /\ ran' = {}
      /\ files' = [a \in Ages |->
           IF a = 0 THEN NoFile
           ELSE IF a = Retention + 1 /\ files[a - 1] = NoFile THEN files[a] ELSE files[a - 1]]
      /\ sinceGood' = IF sinceGood > Retention THEN sinceGood ELSE sinceGood + 1
  BY DEF Tick, jobs, bounds
<1>2. 0 \in Ages /\ files'[0] = NoFile
  BY <1>1, Bounds DEF Ages
<1>3. \A a \in Ages : a # 0 => a - 1 \in Ages
  BY Bounds DEF Ages
<1>4. ASSUME NEW a \in Ages, a # 0
      PROVE  files'[a] = files[a] \/ files'[a] = files[a - 1]
  BY <1>1, <1>4
<1>5. ASSUME NEW a \in Ages, a # 0, a <= Retention
      PROVE  files'[a] = files[a - 1]
  <2>1. a # Retention + 1
    BY <1>5, Bounds DEF Ages
  <2> QED
    BY <1>1, <1>5, <2>1
<1>6. sinceGood \in Ages /\ sinceGood' \in Ages
  BY <1>1, Bounds DEF BInv, TypeOK, Ages
<1>7. TypeOK'
  <2>1. \A a \in Ages : files'[a] \in {NoFile} \union File
    BY <1>2, <1>3, <1>4 DEF BInv, TypeOK
  <2>2. files' \in [Ages -> {NoFile} \union File]
    BY <1>1, <2>1
  <2>3. full.at = "idle"
    BY <1>1, IdleOnes
  <2> QED
    BY <1>1, <1>6, <2>2, <2>3 DEF BInv, TypeOK
<1>8. TodayOK'
  BY <1>1, <1>2, IdleOnes DEF TodayOK, Gz
<1>9. KeptOK'
  <2> SUFFICES ASSUME sinceGood' <= Retention
               PROVE  files'[sinceGood'] # NoFile /\ files'[sinceGood'].state = "gz"
    BY DEF KeptOK, Gz
  <2>1. sinceGood' = sinceGood + 1 /\ sinceGood <= Retention
    BY <1>1, <1>6, Bounds DEF Ages
  <2> PICK a : a = sinceGood'
    OBVIOUS
  <2>2. a \in Ages /\ a # 0 /\ a <= Retention /\ a - 1 = sinceGood
    BY <1>6, <2>1, Bounds DEF Ages
  <2>3. files'[a] = files[sinceGood]
    BY <1>5, <2>2
  <2>4. Gz(sinceGood)
    BY <2>1 DEF BInv, KeptOK
  <2> QED
    BY <2>3, <2>4 DEF Gz
<1>10. AlertOK'
  <2>1. alerted \/ sinceGood = 0
    BY <1>1 DEF BInv, AlertOK
  <2>2. sinceGood = 0 => sinceGood' <= 1
    BY <1>1, Bounds
  <2> QED
    BY <1>1, <2>1, <2>2 DEF AlertOK
<1>11. DataOK'
  BY <1>1, <1>2, <1>3, <1>4 DEF BInv, DataOK
<1>12. RestoreOK'
  BY <1>1, IdleOnes DEF RestoreOK
<1> QED
  BY <1>7, <1>8, <1>9, <1>10, <1>11, <1>12 DEF BInv

-----------------------------------------------------------------------------
(***************************************************************************)
(* The invariant of the backups                                            *)
(***************************************************************************)

\* It starts with one complete backup.
LEMMA BackupInit ==
    ASSUME Init
    PROVE  BInv
<1> DEFINE first == [state |-> "gz", data |-> "whole"]
<1>1. first \in File /\ first.state = "gz" /\ first.data = "whole" /\ first # NoFile
  <2>1. first \in File
    BY DEF File, Data
  <2> QED
    BY <2>1, NoFileAssumption
<1>2. files = [a \in Ages |-> IF a = 0 THEN first ELSE NoFile]
  BY DEF Init
<1> HIDE DEF first
<1>3. 0 \in Ages /\ files[0] = first /\ \A a \in Ages : a # 0 => files[a] = NoFile
  BY <1>2, Bounds DEF Ages
<1>4. files \in [Ages -> {NoFile} \union File]
  BY <1>1, <1>2
<1>5. TypeOK
  <2>1. /\ db \in Data \union {"missing"} /\ incremental \in {"idle", "clean"}
        /\ ran \subseteq {"full", "verify"} /\ alerted \in BOOLEAN
    BY DEF Init, Data
  <2>2. sinceGood \in Ages /\ faults \in 0..MaxFaults /\ restores \in 0..MaxRestores
    BY Bounds DEF Init, Ages
  <2>3. full = Idle /\ restore = NoRestore
    BY DEF Init
  <2>4. full.at # "gzip"
    BY <2>3, IdleOnes
  <2> QED
    BY <1>4, <2>1, <2>2, <2>3, <2>4, IdleOnes DEF TypeOK
<1>6. TodayOK /\ KeptOK /\ AlertOK /\ RestoreOK
  BY <1>1, <1>3, IdleOnes DEF Init, TodayOK, KeptOK, AlertOK, RestoreOK, Gz
<1>7. DataOK
  BY <1>1, <1>3, IdleOnes DEF Init, DataOK
<1> QED
  BY <1>5, <1>6, <1>7 DEF BInv

\* Every step keeps it.
LEMMA BackupStep ==
    ASSUME BInv, [Next]_vars
    PROVE  BInv'
<1>1. CASE UNCHANGED vars
  BY <1>1 DEF vars, BInv, TypeOK, TodayOK, KeptOK, AlertOK, DataOK, RestoreOK, Gz
<1> QED
  BY <1>1, TickKeeps, StartFullKeeps, DumpDoneKeeps, GzipDoneKeeps, CleanUpKeeps, FullFailsKeeps,
     StartIncrementalKeeps, VerifyKeeps, StartRestoreKeeps, RestoreStepKeeps, RestoreFailsKeeps
     DEF Next, FullStep

\* For any retention of more than a day, and however often backups, restores
\* and clean-ups overlap, fail and stop: a sound backup is there unless none
\* was completed for longer than the retention, an alert was sent by then, and
\* no truncated dump is ever loaded (backup-database.sh, verify-backup.sh,
\* restore-database.sh).
THEOREM BackupsAreKept == Spec => []BackupInv
<1>1. Init => BInv
  BY BackupInit
<1>2. BInv /\ [Next]_vars => BInv'
  BY BackupStep
<1>3. BInv => BackupInv
  <2> SUFFICES ASSUME BInv
               PROVE  BackupInv
    OBVIOUS
  <2>1. sinceGood \in Ages
    BY DEF BInv, TypeOK
  <2>2. LossNeedsLongFailure
    <3>1. sinceGood <= Retention => sinceGood \in SoundFiles
      BY <2>1 DEF BInv, KeptOK, SoundFiles, Gz
    <3>2. sinceGood <= Retention \/ sinceGood > Retention
      BY <2>1, Bounds DEF Ages
    <3> QED
      BY <3>1, <3>2 DEF LossNeedsLongFailure
  <2>3. LossIsAnnounced
    <3>1. sinceGood <= 1 => ~(sinceGood > Retention)
      BY <2>1, Bounds DEF Ages
    <3> QED
      BY <2>2, <3>1 DEF BInv, AlertOK, LossNeedsLongFailure, LossIsAnnounced
  <2>4. NoTruncatedRestore
    BY DEF BInv, DataOK, NoTruncatedRestore, SoundFiles
  <2> QED
    BY <2>2, <2>3, <2>4 DEF BInv, BackupInv
<1> QED
  BY <1>1, <1>2, <1>3, PTL DEF Spec
===============================================================================
