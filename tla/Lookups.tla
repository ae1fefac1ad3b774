------------------------------ MODULE Lookups ------------------------------
(***************************************************************************)
(* How a post is looked up: GET /resolve and /public-verify                *)
(* (scripts/routes/health.routes.ts) and GET /v1/verify/platform           *)
(* (scripts/routes/v1/verify.routes.ts) in the one registry of the API's   *)
(* chain, through the cache, with the manifest of the content found; and   *)
(* the look-up over all chains of scripts/services/registry.service.ts,    *)
(* which asks one chain after the other and does not cache.                *)
(*                                                                         *)
(* An entry is 0, not bound, or the manifest its content has; manifests    *)
(* are numbered, and Revoked stands for the empty URI of a revoked         *)
(* content.  A binding is never taken back.  Time is reduced to cached     *)
(* values that may go at any moment: how long they stay is CacheAside's.   *)
(***************************************************************************)
EXTENDS Naturals, Sequences, FiniteSets

CONSTANTS
    Cases,      \* what a behaviour is about, see Case
    Clients,    \* requests under way at once
    Manifests   \* bound: manifests there are

VARIABLES
    about,      \* the case of this behaviour, or NoCase, and what is left of its bounds
    entry,      \* chain -> post -> its entry now
    was,        \* chain -> post -> entries it has had
    entries,    \* post -> the cached entry, or Nowhere
    manifests,  \* slot -> the cached manifest, or Nowhere
    fills,      \* values about to be written to the cache
    look        \* client -> its request

lookups == <<about, entry, was, entries, manifests, fills, look>>

\* The look-ups that answer with the manifest, and the ones over all chains.
WithManifest == {"public-verify", "platform"}
OverAllChains == {"resolveByPlatformCrossChain", "getEntryCrossChain"}

LookKinds == {"resolve", "none"} \cup WithManifest \cup OverAllChains

\* The kinds of requests, the chains with a registry in the order they are
\* asked, the first being the API's own; how many posts there are, and how
\* many requests, changes by others and failing calls.
Case == [kinds : SUBSET LookKinds, chains : Nat \ {0}, posts : Nat \ {0}, requests : Nat, changes : Nat, failures : Nat]
NoCase == [kinds |-> {"none"}, chains |-> 1, posts |-> 1, requests |-> 0, changes |-> 0, failures |-> 0]

ASSUME LookupAssumption == Manifests \in Nat \ {0} /\ Cases \subseteq Case

Revoked == Manifests + 1
Nowhere == Manifests + 2
Entries == 0 .. Revoked
Chains == 1 .. about.chains
Posts == 1 .. about.posts

NoLook == [pc |-> "idle"]
Look == [pc : {"registry", "cache", "chain", "manifest", "fetch", "done"}, kind : LookKinds, post : Nat, chain : Nat,
         entry : Entries, manifest : Entries \cup {Nowhere}, answer : {"none", "found", "absent", "error"},
         began : Seq(Entries), silent : SUBSET Nat]

LookInit ==
    /\ about \in Cases \cup {NoCase}
    /\ entry \in [Chains -> [Posts -> {0, 1}]]
    /\ about = NoCase => entry = [c \in Chains |-> [p \in Posts |-> 0]]
    /\ was = [c \in Chains |-> [p \in Posts |-> {entry[c][p]}]]
    /\ entries = [p \in Posts |-> Nowhere]
    /\ manifests = [n \in 1 .. Manifests |-> Nowhere]
    /\ fills = {}
    /\ look = [r \in Clients |-> NoLook]

Take(what) == about[what] > 0 /\ about' = [about EXCEPT ![what] = @ - 1]

\* A call that is answered, and one that is not.
Answers == UNCHANGED about
NoAnswer == Take("failures")

Goes(r, l) == look' = [look EXCEPT ![r] = l]
Moves(r, pc) == Goes(r, [look[r] EXCEPT !.pc = pc])
Ends(r, what) == Goes(r, [look[r] EXCEPT !.pc = "done", !.answer = what])
Stores == UNCHANGED <<entry, was, entries, manifests, fills>>

-----------------------------------------------------------------------------
(***************************************************************************)
(* Others                                                                  *)
(***************************************************************************)

\* A binding, or a new manifest, or the revocation of the bound content.
ChangeEntry(c, p, e) ==
    /\ Take("changes")
    /\ e # entry[c][p] /\ e > 0
    /\ entry' = [entry EXCEPT ![c][p] = e]
    /\ was' = [was EXCEPT ![c][p] = @ \cup {e}]
    /\ UNCHANGED <<entries, manifests, fills, look>>

\* A value's time is up, or Redis is short of memory.
Expire ==
    /\ \/ \E p \in Posts : entries[p] # Nowhere /\ entries' = [entries EXCEPT ![p] = Nowhere] /\ UNCHANGED manifests
       \/ \E n \in 1 .. Manifests :
             manifests[n] # Nowhere /\ manifests' = [manifests EXCEPT ![n] = Nowhere] /\ UNCHANGED entries
    /\ UNCHANGED <<about, entry, was, fills, look>>

-----------------------------------------------------------------------------
(***************************************************************************)
(* The cache: getOrSet does not wait for its SETEX                         *)
(***************************************************************************)

\* binding:{platform}:{platformId}
entrySlot(p) == p

\* Mutant of manifestSlot: the manifest is cached for the post.
manifestSlotOfPost(p, uri) == p

\* manifest:{manifestURI}
manifestSlot(p, uri) == uri

Filled(f) ==
    /\ f \in fills
    /\ fills' = fills \ {f}
    /\ IF f.of = "entry"
       THEN entries' = [entries EXCEPT ![f.slot] = f.value] /\ UNCHANGED manifests
       ELSE manifests' = [manifests EXCEPT ![f.slot] = f.value] /\ UNCHANGED entries
    /\ UNCHANGED <<about, entry, was, look>>

\* The value is lost: Redis is away, or the API stops.
Dropped(f) ==
    /\ f \in fills
    /\ Take("failures")
    /\ fills' = fills \ {f}
    /\ UNCHANGED <<entry, was, entries, manifests, look>>

-----------------------------------------------------------------------------
(***************************************************************************)
(* Requests                                                                *)
(***************************************************************************)

LookUp(r, k, p) ==
    /\ look[r] = NoLook
    /\ k \in about.kinds
    /\ Take("requests")
    /\ Goes(r, [pc |-> IF k \in OverAllChains THEN "chain" ELSE "registry", kind |-> k, post |-> p,
                chain |-> 1, entry |-> 0, manifest |-> Nowhere, answer |-> "none",
                began |-> [c \in Chains |-> entry[c][p]], silent |-> {}])
    /\ Stores

\* The node is asked for its chain.
resolveDefaultRegistry(r) ==
    /\ look[r].pc = "registry"
    /\ \/ Answers /\ Moves(r, "cache")
       \/ NoAnswer /\ Ends(r, "error")
    /\ Stores

\* What a request does with the entry e of the chain it asked.
With(r, e) ==
    IF e = 0 THEN Ends(r, "absent")
    ELSE IF look[r].kind \in WithManifest
         THEN Goes(r, [look[r] EXCEPT !.pc = "manifest", !.entry = e])
         ELSE Goes(r, [look[r] EXCEPT !.pc = "done", !.answer = "found", !.entry = e])

CachedEntry(r) ==
    /\ look[r].pc = "cache"
    /\ LET e == entries[entrySlot(look[r].post)] IN
       IF e = Nowhere THEN Moves(r, "chain") ELSE With(r, e)
    /\ Answers /\ Stores

\* The one registry; the request fails with the call.
resolveByPlatform(r) ==
    /\ look[r].pc = "chain" /\ look[r].kind \notin OverAllChains
    /\ \/ /\ Answers
          /\ fills' = fills \cup {[of |-> "entry", slot |-> entrySlot(look[r].post), value |-> entry[1][look[r].post]]}
          /\ With(r, entry[1][look[r].post])
       \/ NoAnswer /\ Ends(r, "error") /\ UNCHANGED fills
    /\ UNCHANGED <<entry, was, entries, manifests>>

NextChain(r) == look[r].chain + 1

\* Skipped, for whatever reason, and the next one asked; after the last the
\* post is not found.
Skip(r, c, silent) ==
    IF c = about.chains
    THEN Goes(r, [look[r] EXCEPT !.pc = "done", !.answer = "absent", !.silent = silent])
    ELSE Goes(r, [look[r] EXCEPT !.chain = NextChain(r), !.silent = silent])

\* One chain after the other; one that does not answer is skipped, too.
\* getEntryCrossChain goes through them alike, for a content instead of a post.
resolveByPlatformCrossChain(r) ==
    /\ look[r].pc = "chain" /\ look[r].kind \in OverAllChains
    /\ LET c == look[r].chain IN
       \/ /\ Answers
          /\ IF entry[c][look[r].post] = 0 THEN Skip(r, c, look[r].silent) ELSE With(r, entry[c][look[r].post])
       \/ NoAnswer /\ Skip(r, c, look[r].silent \cup {c})
    /\ Stores

CachedManifest(r) ==
    /\ look[r].pc = "manifest"
    /\ IF look[r].entry # Revoked /\ manifests[manifestSlot(look[r].post, look[r].entry)] # Nowhere
       THEN Goes(r, [look[r] EXCEPT !.pc = "done", !.answer = "found",
                                    !.manifest = manifests[manifestSlot(look[r].post, look[r].entry)]])
       ELSE Moves(r, "fetch")
    /\ Answers /\ Stores

\* The manifest, or none: an error is swallowed, the empty URI's too.
fetchManifest(r) ==
    /\ look[r].pc = "fetch"
    /\ \/ /\ look[r].entry # Revoked /\ Answers
          /\ fills' = fills \cup {[of |-> "manifest", slot |-> manifestSlot(look[r].post, look[r].entry),
                                   value |-> look[r].entry]}
          /\ Goes(r, [look[r] EXCEPT !.pc = "done", !.answer = "found", !.manifest = look[r].entry])
       \/ /\ IF look[r].entry = Revoked THEN Answers ELSE NoAnswer
          /\ Ends(r, "found") /\ UNCHANGED fills
    /\ UNCHANGED <<entry, was, entries, manifests>>

\* The client has its answer.
Leaves(r) ==
    /\ look[r].pc = "done"
    /\ Goes(r, NoLook)
    /\ Answers /\ Stores

Handles(r) ==
    \/ resolveDefaultRegistry(r) \/ CachedEntry(r) \/ resolveByPlatform(r) \/ resolveByPlatformCrossChain(r)
    \/ CachedManifest(r) \/ fetchManifest(r) \/ Leaves(r)

LookNext ==
    \/ \E c \in Chains, p \in Posts, e \in Entries : ChangeEntry(c, p, e)
    \/ Expire
    \/ \E f \in fills : Filled(f) \/ Dropped(f)
    \/ \E r \in Clients : Handles(r) \/ \E k \in LookKinds, p \in Posts : LookUp(r, k, p)
    \/ look = [r \in Clients |-> NoLook] /\ UNCHANGED lookups

LookSpec == LookInit /\ [][LookNext]_lookups

-----------------------------------------------------------------------------
(***************************************************************************)
(* Properties                                                              *)
(***************************************************************************)

LookTypeOK ==
    /\ about \in Case
    /\ entry \in [Chains -> [Posts -> Entries]]
    /\ was \in [Chains -> [Posts -> SUBSET Entries]]
    /\ entries \in [Posts -> Entries \cup {Nowhere}]
    /\ manifests \in [1 .. Manifests -> 1 .. Manifests \cup {Nowhere}]
    /\ fills \subseteq [of : {"entry", "manifest"}, slot : Nat, value : Entries]
    /\ look \in [Clients -> Look \cup {NoLook}]

Answering(what) == {r \in Clients : look[r].pc = "done" /\ look[r].answer = what}

\* What is found for a post is an entry that very post has had on the chain
\* that was asked, whatever was cached for whom and when.
FoundWasThere ==
    \A r \in Answering("found") : look[r].entry \in was[look[r].chain][look[r].post]

\* The manifest in an answer is the one the entry of that answer names, also
\* when either came from the cache and the content has another one by now.
ManifestBelongs ==
    \A r \in Answering("found") : look[r].manifest \in {look[r].entry, Nowhere}

\* "No binding found" is never said of a post that was bound from the start,
\* unless a chain that has it was skipped because it did not answer.
AbsentWasTrue ==
    \A r \in Answering("absent") :
        IF look[r].kind \in OverAllChains
        THEN \A c \in Chains : look[r].began[c] > 0 => c \in look[r].silent
        ELSE 0 \in was[1][look[r].post]

\* Of several chains with the post, the first one that answers is the one
\* that is found: none before it had the post when the request came, or it
\* did not answer.
FirstChainWins ==
    \A r \in Answering("found") :
        look[r].kind \in OverAllChains =>
            \A c \in 1 .. look[r].chain - 1 : look[r].began[c] > 0 => c \in look[r].silent

\* Whatever is cached for whom, and whichever nodes are silent: what a
\* look-up answers, a binding, its manifest or none, was so.
LookInv ==
    /\ LookTypeOK
    /\ FoundWasThere
    /\ ManifestBelongs
    /\ AbsentWasTrue
    /\ FirstChainWins
=============================================================================
