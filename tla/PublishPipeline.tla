-------------------------- MODULE PublishPipeline --------------------------
(***************************************************************************)
(* The publishing routes of the API: POST /register, /bind, /bind-many and *)
(* /one-shot (scripts/routes/{register,binding,oneshot}.routes.ts).  A     *)
(* request writes to three stores in turn, IPFS, the registry on the chain *)
(* and the database, with an await between any two steps; all requests     *)
(* sign with one wallet, so they also compete for its nonces.  The cache   *)
(* these routes invalidate is in CacheAside, the contract itself in        *)
(* ContentRegistry: here it is reduced to who registered what, and what is *)
(* bound.                                                                  *)
(***************************************************************************)
EXTENDS Naturals, Sequences, FiniteSets, SequencesExt

CONSTANTS Requests,     \* requests the API receives, retries included
          Registries,   \* deployed registries: the request names one
          Hashes,       \* contents
          Keys,         \* platform posts, as (platform, platformId)
          BindLists,    \* lists of keys a request may ask to bind
          MaxFaults,    \* bound on failing calls and restarts
          Wallet,       \* the API's signer
          Other,        \* anybody else
          Null          \* no row, no entry, no content

ASSUME PublishAssumption ==
  /\ BindLists \subseteq Seq(Keys) /\ MaxFaults \in Nat
  /\ Wallet # Other

\* Null is none of the things it stands in for.
ASSUME NullAssumption ==
  /\ Null \notin Hashes \union {"ok", "error", "refused", "lost"}
  /\ Null \notin [by : {Wallet, Other}, manifest : Requests \union {Null}]
  /\ Null \notin [registry : Registries, manifest : Requests]
  /\ Null \notin [content : Hashes \union {Null}]

VARIABLES
  registered,  \* entries: [registry -> [hash -> Null or who registered it, and what]]
  bound,       \* platformToHash: [registry -> [key -> hash or Null]]
  pool,        \* the wallet's transactions that wait for a block, by nonce
  mined,       \* its transactions in blocks, by nonce, with their status
  content,     \* Content rows, by contentHash
  binding,     \* PlatformBinding rows, by (platform, platformId)
  request,     \* the handler of each request, where it stands
  faults       \* faults so far

vars == <<registered, bound, pool, mined, content, binding, request, faults>>
chain == <<registered, bound, pool, mined>>
rows == <<content, binding>>

Kinds == {"register", "bind", "bind-many", "one-shot"}
Tx == [from : Requests, op : {"register", "bind"}, registry : Registries,
       hash : Hashes, key : Keys \union {Null}]
Idle == [kind |-> Null, registry |-> Null, hash |-> Null, keys |-> <<>>,
         registering |-> FALSE, step |-> "idle", nonce |-> 0, found |-> Null,
         answer |-> Null]

Init ==
  /\ registered = [r \in Registries |-> [h \in Hashes |-> Null]]
  /\ bound = [r \in Registries |-> [k \in Keys |-> Null]]
  /\ pool = <<>> /\ mined = <<>>
  /\ content = [h \in Hashes |-> Null] /\ binding = [k \in Keys |-> Null]
  /\ request = [q \in Requests |-> Idle]
  /\ faults = 0

-----------------------------------------------------------------------------
(* Where a handler goes next.                                              *)

To(r, step) == [r EXCEPT !.step = step]
Answer(r, a) == [r EXCEPT !.step = "done", !.answer = a, !.registering = FALSE,
                          !.keys = IF r.kind = "bind" THEN @ ELSE <<>>, !.nonce = 0]

\* The loop over the bindings, and what follows it.
Continue(r) ==
  IF r.keys # <<>> THEN To(r, "prepare")
  ELSE IF r.kind = "one-shot" THEN To(r, "store") ELSE Answer(r, "ok")

NextKey(r) ==
  IF r.kind = "bind" THEN Answer(r, "ok") ELSE Continue([r EXCEPT !.keys = Tail(@)])

\* An exception: the catch inside the loop of /bind-many and /one-shot goes on
\* with the next binding; any other one answers with an error.
Throw(r) ==
  IF r.kind \in {"bind-many", "one-shot"} /\ ~r.registering
     /\ r.step \notin {"check", "store"}
  THEN NextKey(r) ELSE Answer(r, "error")

Becomes(q, r) == request' = [request EXCEPT ![q] = r]
At(q, step) == request[q].step = step
InFlight(q) == request[q].step \notin {"idle", "done"}

-----------------------------------------------------------------------------
(* The handlers.                                                           *)

\* The handler of a request that has been parsed.
FirstStep(kind) ==
  IF kind = "register" THEN "prepare" ELSE IF kind = "one-shot" THEN "pin" ELSE "check"

Received(kind, r, h, ks) ==
  [kind |-> kind, registry |-> r, hash |-> h, keys |-> ks,
   registering |-> kind \in {"register", "one-shot"}, step |-> FirstStep(kind),
   nonce |-> 0, found |-> Null, answer |-> Null]

Arrive(q) ==
  /\ At(q, "idle")
  /\ \E kind \in Kinds, r \in Registries, h \in Hashes, ks \in BindLists :
       /\ (kind = "register") => ks = <<>>
       /\ (kind = "bind") => Len(ks) = 1
       /\ (kind = "bind-many") => ks # <<>>
       /\ Becomes(q, Received(kind, r, h, ks))
  /\ UNCHANGED <<chain, rows, faults>>

\* One-shot: the manifest, with the content if asked, goes to IPFS.
Pin(q) ==
  /\ At(q, "pin")
  /\ Becomes(q, To(request[q], "prepare"))
  /\ UNCHANGED <<chain, rows, faults>>

\* /bind and /bind-many: the entry's creator must be the wallet.
CheckCreator(q) ==
  LET e == registered[request[q].registry][request[q].hash] IN
  /\ At(q, "check")
  /\ Becomes(q, IF e # Null /\ e.by = Wallet THEN To(request[q], "prepare")
                ELSE Answer(request[q], "refused"))
  /\ UNCHANGED <<chain, rows, faults>>

TxOf(q) ==
  [from |-> q, op |-> IF request[q].registering THEN "register" ELSE "bind",
   registry |-> request[q].registry, hash |-> request[q].hash,
   key |-> IF request[q].registering THEN Null ELSE Head(request[q].keys)]

\* The contract's requires.
Allowed(tx) ==
  LET e == registered[tx.registry][tx.hash] IN
  IF tx.op = "register" THEN e = Null
  ELSE /\ e # Null /\ e.by = Wallet
       /\ bound[tx.registry][tx.key] = Null

\* The nonce is the account's count of mined and pending transactions; other
\* requests may ask for theirs before this one is sent.
PendingCount(q) == Len(mined) + Len(pool)

Prepare(q) ==
  /\ At(q, "prepare")
  /\ Becomes(q, IF Allowed(TxOf(q))
                THEN [To(request[q], "broadcast") EXCEPT !.nonce = PendingCount(q)]
                ELSE Throw(request[q]))
  /\ UNCHANGED <<chain, rows, faults>>

\* The node takes a transaction whose nonce is free.  One with a nonce in use
\* or used up is refused, unless its fees are higher by enough to replace the
\* one that waits.
Broadcast(q) ==
  LET i == request[q].nonce + 1 - Len(mined)
      sent == To(request[q], "wait") IN
  /\ At(q, "broadcast")
  /\ \/ i = Len(pool) + 1 /\ pool' = Append(pool, TxOf(q)) /\ Becomes(q, sent)
     \/ i \in DOMAIN pool /\ pool' = [pool EXCEPT ![i] = TxOf(q)] /\ Becomes(q, sent)
     \/ i <= Len(pool) /\ pool' = pool /\ Becomes(q, Throw(request[q]))
  /\ UNCHANGED <<registered, bound, mined, rows, faults>>

\* A block: the transaction succeeds, or reverts without effect.
Mine ==
  LET tx == Head(pool) IN
  /\ pool # <<>>
  /\ pool' = Tail(pool)
  /\ mined' = Append(mined, [from |-> tx.from, ok |-> Allowed(tx)])
  /\ registered' = IF tx.op = "register" /\ Allowed(tx)
                   THEN [registered EXCEPT ![tx.registry][tx.hash] =
                           [by |-> Wallet, manifest |-> tx.from]]
                   ELSE registered
  /\ bound' = IF tx.op = "bind" /\ Allowed(tx)
              THEN [bound EXCEPT ![tx.registry][tx.key] = tx.hash] ELSE bound
  /\ UNCHANGED <<rows, request, faults>>

\* Another account registers the content first.
OutsideRegister(r, h) ==
  /\ registered[r][h] = Null
  /\ registered' = [registered EXCEPT ![r][h] = [by |-> Other, manifest |-> Null]]
  /\ UNCHANGED <<bound, pool, mined, rows, request, faults>>

\* Mutant of Confirmed: the receipt's status is not looked at.
ConfirmedReverted(q) == mined[request[q].nonce + 1].from = q

\* Mutant of Confirmed: any transaction with this nonce is taken for this one.
ConfirmedByNonce(q) == mined[request[q].nonce + 1].ok

\* tx.wait() returns the receipt, or throws for a transaction that reverted or
\* was replaced.
Confirmed(q) ==
  LET m == mined[request[q].nonce + 1] IN m.from = q /\ m.ok

AfterReceipt(r) ==
  CASE r.registering /\ r.kind = "register" -> To(r, "store")
    [] r.registering /\ r.kind = "one-shot" -> Continue([r EXCEPT !.registering = FALSE])
    [] OTHER -> To(r, "find")

Wait(q) ==
  /\ At(q, "wait")
  /\ request[q].nonce < Len(mined)
  /\ Becomes(q, IF Confirmed(q) THEN AfterReceipt(request[q]) ELSE Throw(request[q]))
  /\ UNCHANGED <<chain, rows, faults>>

\* Mutant of UpsertPlatformBinding: no row without a content to link it to.
UpsertPlatformBindingLinked(q) ==
  LET k == Head(request[q].keys)  id == request[q].found IN
  /\ At(q, "link")
  /\ binding' = IF id = Null THEN binding ELSE [binding EXCEPT ![k] = [content |-> id]]
  /\ Becomes(q, NextKey([request[q] EXCEPT !.found = Null]))
  /\ UNCHANGED <<chain, content, faults>>

\* upsertPlatformBinding: the content's row is read, then the binding's is
\* created with its id or with none, or updated, if there is an id.
FindContent(q) ==
  /\ At(q, "find")
  /\ Becomes(q, [To(request[q], "link") EXCEPT
                   !.found = IF content[request[q].hash] = Null THEN Null
                             ELSE request[q].hash])
  /\ UNCHANGED <<chain, rows, faults>>

UpsertPlatformBinding(q) ==
  LET k == Head(request[q].keys)  id == request[q].found IN
  /\ At(q, "link")
  /\ binding' = IF binding[k] # Null /\ id = Null THEN binding
                ELSE [binding EXCEPT ![k] = [content |-> id]]
  /\ Becomes(q, NextKey([request[q] EXCEPT !.found = Null]))
  /\ UNCHANGED <<chain, content, faults>>

\* upsertContent: the row names the registry and the manifest of this request,
\* and its transaction.
UpsertContent(q) ==
  /\ At(q, "store")
  /\ content' = [content EXCEPT ![request[q].hash] =
                   [registry |-> request[q].registry, manifest |-> q]]
  /\ Becomes(q, Answer(request[q], "ok"))
  /\ UNCHANGED <<chain, binding, faults>>

\* A call to IPFS, the node or the database throws.  The transaction that was
\* waited for may be mined all the same.
CallFails(q) ==
  /\ InFlight(q) /\ faults < MaxFaults
  /\ faults' = faults + 1
  /\ Becomes(q, Throw([request[q] EXCEPT !.found = Null]))
  /\ UNCHANGED <<chain, rows>>

\* The process restarts: no request in flight is answered.
Restart ==
  /\ faults < MaxFaults /\ \E q \in Requests : InFlight(q)
  /\ faults' = faults + 1
  /\ request' = [q \in Requests |->
       IF InFlight(q) THEN Answer(request[q], "lost") ELSE request[q]]
  /\ UNCHANGED <<chain, rows>>

Handle(q) ==
  Pin(q) \/ CheckCreator(q) \/ Prepare(q) \/ Broadcast(q) \/ Wait(q)
  \/ FindContent(q) \/ UpsertPlatformBinding(q) \/ UpsertContent(q)

\* Every request is over and every transaction mined: the only state in which
\* the system may rest.
Quiet ==
  /\ pool = <<>> /\ \A q \in Requests : At(q, "done")
  /\ UNCHANGED vars

Next ==
  \/ \E q \in Requests : Arrive(q) \/ Handle(q) \/ CallFails(q)
  \/ Mine \/ Restart
  \/ \E r \in Registries, h \in Hashes : OutsideRegister(r, h)
  \/ Quiet

Spec == Init /\ [][Next]_vars

-----------------------------------------------------------------------------
(* Properties.                                                             *)

Request == [kind : Kinds \union {Null}, registry : Registries \union {Null},
            hash : Hashes \union {Null}, keys : Seq(Keys), registering : BOOLEAN,
            step : {"idle", "pin", "check", "prepare", "broadcast", "wait", "find",
                    "link", "store", "done"},
            nonce : Nat, found : Hashes \union {Null},
            answer : {Null, "ok", "error", "refused", "lost"}]

\* Every variable has its type, and no nonce leaves a gap: a handler's nonce
\* is at most the next one.
TypeOK ==
  /\ registered \in [Registries -> [Hashes -> {Null} \union
       [by : {Wallet, Other}, manifest : Requests \union {Null}]]]
  /\ bound \in [Registries -> [Keys -> Hashes \union {Null}]]
  /\ pool \in Seq(Tx) /\ mined \in Seq([from : Requests, ok : BOOLEAN])
  /\ content \in [Hashes -> {Null} \union [registry : Registries, manifest : Requests]]
  /\ binding \in [Keys -> {Null} \union [content : Hashes \union {Null}]]
  /\ request \in [Requests -> Request]
  /\ faults \in 0..MaxFaults
  /\ \A q \in Requests : request[q].nonce <= Len(mined) + Len(pool)

\* The database never runs ahead of the chain or mixes two registrations: a
\* Content row names a registry in which the wallet registered this content
\* with this very manifest, and a binding's content is one the post is bound
\* to, whatever else is sent, replaced, retried or lost.
RowsAreOnChain ==
  /\ \A h \in Hashes : content[h] # Null =>
       registered[content[h].registry][h] = [by |-> Wallet, manifest |-> content[h].manifest]
  /\ \A k \in Keys : binding[k] # Null =>
       /\ \E r \in Registries : bound[r][k] # Null
       /\ binding[k].content # Null => \E r \in Registries : bound[r][k] = binding[k].content

\* An "ok" can be relied on although requests share a wallet whose
\* transactions may be replaced: the registration on the chain is this
\* request's own and the content has a row; a post bound by /bind is bound in
\* the registry that was named, and has a row.
AnswersAreTrue ==
  \A q \in Requests : request[q].answer = "ok" =>
    LET r == request[q] IN
    /\ r.kind \in {"register", "one-shot"} =>
         /\ registered[r.registry][r.hash] = [by |-> Wallet, manifest |-> q]
         /\ content[r.hash] # Null
    /\ r.kind = "bind" =>
         bound[r.registry][Head(r.keys)] = r.hash /\ binding[Head(r.keys)] # Null

\* What the chain has of the wallet's and the database lacks.
MissingContents == {h \in Hashes : content[h] = Null /\
  \E r \in Registries : registered[r][h] # Null /\ registered[r][h].by = Wallet}
MissingBindings == {k \in Keys : binding[k] = Null /\ \E r \in Registries : bound[r][k] # Null}

\* Chain and database are written one after the other and nothing reconciles
\* them.  When every request is over, each row the database lacks was lost to
\* a failing call or to a request that a restart cut off, which loses its
\* content's row and one binding's at most: no order of the handlers and of
\* the blocks alone loses one.
MissingRowsAreFaults ==
  (pool = <<>> /\ \A q \in Requests : ~InFlight(q)) =>
    Cardinality(MissingContents) + Cardinality(MissingBindings) <=
      faults + 2 * Cardinality({q \in Requests : request[q].answer = "lost"})

\* docs/ARCHITECTURE.md:295 on the binding that is stored: "Record: { platform:
\* "youtube", platformId: "dQw4w9WgXcQ", contentId: ... }": when all requests
\* are over, a binding's row names its content.
BindingsAreLinked ==
  (\A q \in Requests : ~InFlight(q)) =>
    \A k \in Keys : binding[k] # Null => binding[k].content # Null

=============================================================================
